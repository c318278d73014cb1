------------------------- MODULE FollowedFilesProofs -------------------------
(***************************************************************************)
(* What a follower keeps under a file's own modification time is what that *)
(* file holds, for any number of threads, followers, files and renewals.   *)
(***************************************************************************)
EXTENDS FollowedFiles, TLAPS

\* Nobody has seen a modification time that was not given out yet.
Behind ==
  /\ \A k \in Followers : \A f \in Watched(k) : seen[k].stamp[f] <= clock
  /\ \A c \in Readers : ~At(c, "idle") => \A f \in Watched(call[c].k) : call[c].stamp[f] <= clock

\* What a call has read of a file is its word, if the file is still the one whose
\* modification time the call took before it read.
ReadAfterStat ==
  \A c \in Readers :
    /\ At(c, "check") => call[c].todo = Watched(call[c].k)
    /\ At(c, "store") => call[c].todo = {}
    /\ At(c, "read") \/ At(c, "store") =>
         \A f \in Watched(call[c].k) \ call[c].todo :
           file[f].stamp # Missing /\ call[c].stamp[f] = file[f].stamp
             => call[c].got[f] \in {file[f].word, NoWord}

IInv == TypeOK /\ Behind /\ ReadAfterStat /\ KeptIsContent

LEMMA WatchedIsFile == ASSUME NEW k \in Followers, NEW f \in Watched(k) PROVE f \in Files
BY DEF Files

LEMMA CallType ==
  ASSUME TypeOK, NEW c \in Readers, ~At(c, "idle")
  PROVE  call[c].k \in Followers /\ call[c] \in Calls(call[c].k)
BY DEF TypeOK, At, Idle, Calls

\* A file's modification time is among those the clock has given.
LEMMA StampType ==
  ASSUME TypeOK, NEW f \in Files
  PROVE  /\ clock \in 1..MaxWrites /\ file[f].stamp \in Stamps /\ file[f].stamp <= clock
         /\ file[f].word \in Words \cup {NoWord}
<1>1. clock \in 1..MaxWrites /\ file[f] \in [stamp : Missing..clock, word : Words \cup {NoWord}]
  BY DEF TypeOK
<1>2. file[f].stamp \in 0..clock /\ file[f].word \in Words \cup {NoWord}
  BY <1>1 DEF Missing
<1> QED
  BY <1>1, <1>2, BoundsAssumption DEF Stamps, Never

\* One call moves and stays a call, and it takes no mutex another holds.
LEMMA CallStep ==
  ASSUME TypeOK, NEW c \in Readers, NEW k \in Followers, NEW r \in Calls(k) \cup {Idle},
         call' = [call EXCEPT ![c] = r],
         UNCHANGED <<file, clock>>, fails' \in 0..MaxFails,
         DOMAIN seen' = Followers /\ \A j \in Followers : seen'[j] \in Keeps(j),
         \A j \in Followers : Holding(c, j)' =>
           Holding(c, j) \/ \A o \in Readers \ {c} : ~Holding(o, j)
  PROVE  TypeOK'
<1>1. DOMAIN call' = Readers /\ \A d \in Readers : call'[d] = Idle \/ \E j \in Followers : call'[d] \in Calls(j)
  BY DEF TypeOK
<1>2. \A j \in Followers, d \in Readers \ {c} : Holding(d, j)' = Holding(d, j)
  BY DEF Holding, TypeOK
<1>3. ASSUME NEW j \in Followers, NEW d \in Readers, NEW e \in Readers, Holding(d, j)', Holding(e, j)'
      PROVE  d = e
  BY <1>2, <1>3 DEF TypeOK
<1> QED
  BY <1>1, <1>3 DEF TypeOK

LEMMA TypeInit == Init => TypeOK
<1> SUFFICES ASSUME Init PROVE TypeOK
  OBVIOUS
<1> USE BoundsAssumption
<1>1. file \in [Files -> [stamp : Missing..clock, word : Words \cup {NoWord}]]
  BY DEF Init, Missing
<1>2. \A k \in Followers : seen[k] \in Keeps(k)
  BY DEF Init, Keeps, None, Stamps, Values, Never
<1>3. \A k \in Followers, c \in Readers : ~Holding(c, k)
  BY DEF Init, Holding, Idle
<1> QED
  BY <1>1, <1>2, <1>3 DEF Init, TypeOK

LEMMA TypeStep == TypeOK /\ [Next]_vars => TypeOK'
<1> SUFFICES ASSUME TypeOK, [Next]_vars PROVE TypeOK'
  OBVIOUS
<1> USE BoundsAssumption
<1>1. ASSUME NEW f \in Files, Write(f) \/ Remove(f) PROVE TypeOK'
  <2>1. PICK to \in [stamp : {clock + 1, Missing}, word : Words \cup {NoWord}] : Change(f, to)
    BY <1>1 DEF Write, Remove
  <2>2. clock' \in 1..MaxWrites /\ clock' = clock + 1 /\ clock \in Nat
    BY <2>1 DEF Change, TypeOK
  <2>3. file' \in [Files -> [stamp : Missing..clock', word : Words \cup {NoWord}]]
    BY <2>1, <2>2 DEF Change, TypeOK, Missing
  <2>4. DOMAIN call' = Readers /\ \A c \in Readers : call'[c] = Idle \/ \E k \in Followers : call'[c] \in Calls(k)
    <3>1. DOMAIN call' = Readers
      BY <2>1 DEF Change
    <3>2. ASSUME NEW c \in Readers, ~At(c, "idle")
          PROVE  call'[c] \in Calls(call[c].k) /\ call[c].k \in Followers
      <4>1. call'[c] = [call[c] EXCEPT !.held = HeldSince(call[c].held, f, to.word)]
        BY <2>1, <3>2 DEF Change, At
      <4>2. call[c].k \in Followers /\ call[c] \in Calls(call[c].k)
        BY <3>2, CallType
      <4>3. HeldSince(call[c].held, f, to.word) \in SUBSET (Words \cup {NoWord})
        BY <4>2 DEF HeldSince, Calls
      <4> QED
        BY <4>1, <4>2, <4>3 DEF Calls
    <3>3. ASSUME NEW c \in Readers, At(c, "idle") PROVE call'[c] = Idle
      BY <2>1, <3>3 DEF Change, At
    <3> QED
      BY <3>1, <3>2, <3>3
  <2>5. \A k \in Followers, c \in Readers : Holding(c, k)' => Holding(c, k)
    <3> SUFFICES ASSUME NEW k \in Followers, NEW c \in Readers, Holding(c, k)' PROVE Holding(c, k)
      OBVIOUS
    <3>1. CASE At(c, "idle")
      BY <2>1, <3>1 DEF Change, At, Holding, Idle
    <3>2. CASE ~At(c, "idle")
      <4>1. call'[c] = [call[c] EXCEPT !.held = HeldSince(call[c].held, f, to.word)]
        BY <2>1, <3>2 DEF Change, At
      <4>2. call[c] \in Calls(call[c].k)
        BY <3>2, CallType
      <4> QED
        BY <4>1, <4>2 DEF Holding, Calls
    <3> QED
      BY <3>1, <3>2
  <2> QED
    BY <2>1, <2>2, <2>3, <2>4, <2>5 DEF TypeOK, Change
<1>2. ASSUME NEW c \in Readers, NEW k \in Followers, Begin(c, k) PROVE TypeOK'
  <2> DEFINE r == [pc |-> IF StatsFirst(k) THEN "stat" ELSE "check", k |-> k,
        stamp |-> None(k), got |-> NoWords(k), todo |-> Watched(k),
        answer |-> NoValue, failed |-> FALSE, held |-> {file[f].word : f \in Files \cap {TokenFile}}]
  <2>1. None(k) \in [Watched(k) -> Stamps] /\ NoWords(k) \in [Watched(k) -> Words \cup {NoWord}]
    BY DEF None, NoWords, Stamps, Never
  <2>2. {file[f].word : f \in Files \cap {TokenFile}} \in SUBSET (Words \cup {NoWord})
    BY DEF TypeOK
  <2>3. r \in Calls(k)
    BY <2>1, <2>2 DEF Calls, Values
  <2> HIDE DEF r
  <2>4. call' = [call EXCEPT ![c] = r]
    BY <1>2 DEF Begin, r
  <2>5. \A j \in Followers : ~Holding(c, j)'
    BY <2>4 DEF Holding, r, TypeOK, StatsFirst, Locks
  <2>6. UNCHANGED <<file, clock, seen, fails>>
    BY <1>2 DEF Begin
  <2> QED
    BY <2>3, <2>4, <2>5, <2>6, CallStep DEF TypeOK
<1>3. ASSUME NEW c \in Readers, NEW f \in Files, Stat(c, f) PROVE TypeOK'
  <2> DEFINE k == call[c].k
             todo == call[c].todo \ {f}
             r == [call[c] EXCEPT !.stamp[f] = file[f].stamp,
                     !.todo = IF todo = {} THEN Watched(k) ELSE todo,
                     !.pc = IF todo # {} THEN "stat" ELSE IF StatsFirst(k) THEN "check" ELSE "read"]
  <2>1. k \in Followers /\ call[c] \in Calls(k) /\ f \in Watched(k)
    BY <1>3, CallType DEF Stat, At, Calls
  <2>2. file[f].stamp \in Stamps
    BY StampType, Zenon
  <2>3. r \in Calls(k)
    BY <2>1, <2>2 DEF Calls
  <2>4. call' = [call EXCEPT ![c] = r]
    BY <1>3 DEF Stat, TypeOK
  <2>5. \A j \in Followers : Holding(c, j)' => Holding(c, j)
    <3>1. call'[c].k = k /\ call'[c].pc \in IF StatsFirst(k) THEN {"stat", "check"} ELSE {"stat", "read"}
      BY <2>1, <2>4 DEF TypeOK, Calls
    <3>2. call[c].pc = "stat"
      BY <1>3 DEF Stat, At
    <3> QED
      BY <3>1, <3>2 DEF Holding
  <2>6. UNCHANGED <<file, clock, seen, fails>>
    BY <1>3 DEF Stat
  <2> HIDE DEF r, k
  <2> QED
    BY <2>1, <2>3, <2>4, <2>5, <2>6, CallStep DEF TypeOK
<1>4. ASSUME NEW c \in Readers, CheckMoved(c) PROVE TypeOK'
  <2> DEFINE k == call[c].k
             r == [call[c] EXCEPT !.pc = IF StatsFirst(k) THEN "read" ELSE "stat"]
  <2>1. k \in Followers /\ call[c] \in Calls(k)
    BY <1>4, CallType DEF CheckMoved, At
  <2>2. r \in Calls(k)
    BY <2>1 DEF Calls
  <2>3. call' = [call EXCEPT ![c] = r]
    BY <1>4 DEF CheckMoved, Go, TypeOK
  <2>4. \A j \in Followers : Holding(c, j)' => \A o \in Readers \ {c} : ~Holding(o, j)
    BY <2>1, <2>3, <1>4 DEF Holding, CheckMoved, Free, Calls, TypeOK
  <2>5. UNCHANGED <<file, clock, seen, fails>>
    BY <1>4 DEF CheckMoved
  <2> HIDE DEF r, k
  <2> QED
    BY <2>1, <2>2, <2>3, <2>4, <2>5, CallStep DEF TypeOK
<1>5. ASSUME NEW c \in Readers, CheckSame(c) \/ Use(c) PROVE TypeOK'
  <2> DEFINE k == call[c].k
  <2>1. k \in Followers /\ call[c] \in Calls(k) /\ seen[k].value \in Values(k)
    BY <1>5, CallType DEF CheckSame, Use, At, TypeOK, Keeps
  <2>2. PICK r \in Calls(k) : call' = [call EXCEPT ![c] = r] /\ r.pc \in {"use", "answered"}
    <3>1. CASE call' = [call EXCEPT ![c].pc = "use"]
      <4>1. [call[c] EXCEPT !.pc = "use"] \in Calls(k)
        BY <2>1 DEF Calls
      <4> QED
        BY <3>1, <4>1, <2>1 DEF TypeOK, Calls
    <3>2. CASE call' = [call EXCEPT ![c].pc = "answered", ![c].answer = seen[k].value]
      <4>1. [call[c] EXCEPT !.pc = "answered", !.answer = seen[k].value] \in Calls(k)
        BY <2>1 DEF Calls
      <4> QED
        BY <3>2, <4>1, <2>1 DEF TypeOK, Calls
    <3> QED
      BY <1>5, <3>1, <3>2 DEF CheckSame, Use
  <2>3. \A j \in Followers : ~Holding(c, j)'
    BY <2>2 DEF Holding, TypeOK
  <2>4. UNCHANGED <<file, clock, seen, fails>>
    BY <1>5 DEF CheckSame, Use
  <2> HIDE DEF k
  <2> QED
    BY <2>1, <2>2, <2>3, <2>4, CallStep DEF TypeOK
<1>6. ASSUME NEW c \in Readers, NEW f \in Files, Read(c, f) \/ ReadFails(c, f) PROVE TypeOK'
  <2> DEFINE k == call[c].k
             todo == call[c].todo \ {f}
  <2>1. k \in Followers /\ call[c] \in Calls(k) /\ f \in Watched(k)
    BY <1>6, CallType DEF Read, ReadFails, At, Calls
  <2>2. PICK w \in Words \cup {NoWord}, b \in BOOLEAN :
          call' = [call EXCEPT ![c] = [call[c] EXCEPT !.got[f] = w, !.todo = todo,
                     !.pc = IF todo = {} THEN "store" ELSE "read", !.failed = b]]
    <3>1. CASE Read(c, f)
      <4>1. file[f].word \in Words \cup {NoWord} /\ call[c].failed \in BOOLEAN
        BY <2>1 DEF TypeOK, Calls
      <4>2. call' = [call EXCEPT ![c] = [call[c] EXCEPT !.got[f] = file[f].word, !.todo = todo,
                     !.pc = IF todo = {} THEN "store" ELSE "read", !.failed = call[c].failed]]
        BY <2>1, <3>1 DEF Read, GotFrom, TypeOK, Calls
      <4> QED
        BY <4>1, <4>2, ZenonT(60)
    <3>2. CASE ReadFails(c, f)
      <4>1. call' = [call EXCEPT ![c] = [call[c] EXCEPT !.got[f] = NoWord, !.todo = todo,
                     !.pc = IF todo = {} THEN "store" ELSE "read", !.failed = TRUE]]
        BY <2>1, <3>2, ZenonT(60) DEF ReadFails, GotFrom, TypeOK, Calls
      <4> QED
        BY <4>1
    <3> QED
      BY <1>6, <3>1, <3>2
  <2> DEFINE r == [call[c] EXCEPT !.got[f] = w, !.todo = todo,
                     !.pc = IF todo = {} THEN "store" ELSE "read", !.failed = b]
  <2>3. r \in Calls(k)
    BY <2>1 DEF Calls
  <2>4. \A j \in Followers : Holding(c, j)' => Holding(c, j)
    BY <2>1, <2>2, <1>6 DEF Holding, Read, ReadFails, At, Calls, TypeOK
  <2>5. UNCHANGED <<file, clock, seen>> /\ fails' \in 0..MaxFails
    BY <1>6 DEF Read, ReadFails, TypeOK
  <2> HIDE DEF k, todo
  <2>6. call' = [call EXCEPT ![c] = r]
    BY <2>2
  <2> HIDE DEF r
  <2> QED
    BY <2>1, <2>3, <2>4, <2>5, <2>6, CallStep DEF TypeOK
<1>7. ASSUME NEW c \in Readers, Store(c) PROVE TypeOK'
  <2> DEFINE k     == call[c].k
             built == Builds(call[c].got)
             kept  == Kept(k, built, call[c].got)
             r     == [call[c] EXCEPT !.pc = IF Rereads(k) THEN "use" ELSE "answered",
                         !.answer = IF Rereads(k) THEN NoValue ELSE kept, !.got = NoWords(k)]
             s     == [stamp |-> call[c].stamp, value |-> kept, failed |-> ~built]
  <2>1. k \in Followers /\ call[c] \in Calls(k)
    BY <1>7, CallType DEF Store, At
  <2>2. kept \in Values(k) /\ built \in BOOLEAN
    BY <2>1 DEF Kept, Builds, Values, Calls, TypeOK, Keeps
  <2>3. r \in Calls(k)
    <3>1. NoWords(k) \in [Watched(k) -> Words \cup {NoWord}]
      BY DEF NoWords
    <3> HIDE DEF kept, built
    <3> QED
      BY <2>1, <2>2, <3>1 DEF Calls, Values
  <2>4. s \in Keeps(k)
    <3> HIDE DEF kept, built
    <3> QED
      BY <2>1, <2>2 DEF Keeps, Calls
  <2>5. call' = [call EXCEPT ![c] = r] /\ seen' = [seen EXCEPT ![k] = s]
    BY <1>7 DEF Store, TypeOK
  <2>6. UNCHANGED <<file, clock, fails>>
    BY <1>7 DEF Store
  <2> HIDE DEF s
  <2>7. DOMAIN seen' = Followers /\ \A j \in Followers : seen'[j] \in Keeps(j)
    BY <2>4, <2>5 DEF TypeOK
  <2>8. \A j \in Followers : ~Holding(c, j)'
    <3>1. call'[c].pc \in {"use", "answered"}
      BY <2>1, <2>5 DEF TypeOK, Calls
    <3> QED
      BY <3>1 DEF Holding
  <2> HIDE DEF r, k
  <2> QED
    BY <2>1, <2>3, <2>5, <2>6, <2>7, <2>8, CallStep DEF TypeOK
<1>8. ASSUME NEW c \in Readers, Leave(c) PROVE TypeOK'
  <2>1. PICK k \in Followers : TRUE
    BY <1>8, CallType DEF Leave, At
  <2>2. call' = [call EXCEPT ![c] = Idle] /\ UNCHANGED <<file, clock, seen, fails>>
    BY <1>8 DEF Leave
  <2>3. \A j \in Followers : ~Holding(c, j)'
    BY <2>2 DEF Holding, Idle, TypeOK
  <2> QED
    BY <2>1, <2>2, <2>3, CallStep DEF TypeOK
<1>9. CASE UNCHANGED vars
  BY <1>9 DEF vars, TypeOK, Holding
<1> QED
  BY <1>1, <1>2, <1>3, <1>4, <1>5, <1>6, <1>7, <1>8, <1>9 DEF Next, FilesChange, Ask

\* Every variable keeps its type, and each mutex one holder.
THEOREM TypeCorrect == Spec => []TypeOK
BY TypeInit, TypeStep, PTL DEF Spec

-----------------------------------------------------------------------------
LEMMA InvInit == Init => IInv
<1> SUFFICES ASSUME Init PROVE IInv
  OBVIOUS
<1>1. Behind
  BY DEF Init, Behind, At, Idle, None, Never
<1>2. ReadAfterStat
  BY DEF Init, ReadAfterStat, At, Idle
<1>3. KeptIsContent
  BY DEF Init, KeptIsContent
<1> QED
  BY <1>1, <1>2, <1>3, TypeInit DEF IInv

\* A call that moves keeps the rest, if what it says of the files itself is right.
LEMMA OneCall ==
  ASSUME IInv, NEW c \in Readers, NEW k \in Followers, NEW r \in Calls(k),
         call' = [call EXCEPT ![c] = r], UNCHANGED <<file, clock>>,
         \A f \in Watched(k) : r.stamp[f] <= clock,
         r.pc = "check" => r.todo = Watched(k), r.pc = "store" => r.todo = {},
         r.pc \in {"read", "store"} => \A f \in Watched(k) \ r.todo :
           file[f].stamp # Missing /\ r.stamp[f] = file[f].stamp => r.got[f] \in {file[f].word, NoWord}
  PROVE  /\ \A d \in Readers : ~At(d, "idle")' => \A f \in Watched(call'[d].k) : call'[d].stamp[f] <= clock'
         /\ ReadAfterStat'
<1>1. call'[c] = r /\ r.k = k /\ \A d \in Readers \ {c} : call'[d] = call[d]
  BY DEF IInv, TypeOK, Calls
<1>2. ASSUME NEW d \in Readers, ~At(d, "idle")', NEW f \in Watched(call'[d].k)
      PROVE  call'[d].stamp[f] <= clock'
  BY <1>1, <1>2 DEF IInv, Behind, At
<1>3. ReadAfterStat'
  <2> SUFFICES ASSUME NEW d \in Readers
               PROVE  /\ At(d, "check")' => call'[d].todo = Watched(call'[d].k)
                      /\ At(d, "store")' => call'[d].todo = {}
                      /\ At(d, "read")' \/ At(d, "store")' =>
                           \A f \in Watched(call'[d].k) \ call'[d].todo :
                             file[f].stamp # Missing /\ call'[d].stamp[f] = file[f].stamp
                               => call'[d].got[f] \in {file[f].word, NoWord}
    BY DEF ReadAfterStat
  <2>1. CASE d = c
    BY <1>1, <2>1 DEF At
  <2>2. CASE d # c
    BY <1>1, <2>2 DEF At, IInv, ReadAfterStat
  <2> QED
    BY <2>1, <2>2
<1> QED
  BY <1>2, <1>3

LEMMA ChangeInv ==
  ASSUME IInv, NEW f \in Files, Write(f) \/ Remove(f)
  PROVE  Behind' /\ ReadAfterStat' /\ KeptIsContent'
<1> USE BoundsAssumption
<1>1. PICK to \in [stamp : {clock + 1, Missing}, word : Words \cup {NoWord}] : Change(f, to)
  BY DEF Write, Remove
<1>2. clock' = clock + 1 /\ clock \in Nat /\ seen' = seen /\ file'[f] = to
      /\ \A g \in Files \ {f} : file'[g] = file[g]
  BY <1>1 DEF Change, IInv, TypeOK
<1>3. ASSUME NEW c \in Readers, ~At(c, "idle")'
      PROVE  /\ ~At(c, "idle") /\ call'[c].k = call[c].k /\ call'[c].pc = call[c].pc
             /\ call'[c].stamp = call[c].stamp /\ call'[c].todo = call[c].todo
             /\ call'[c].got = call[c].got
  <2>1. ~At(c, "idle")
    BY <1>1, <1>3 DEF Change, At, Idle
  <2>2. call'[c] = [call[c] EXCEPT !.held = HeldSince(call[c].held, f, to.word)]
    BY <1>1, <2>1 DEF Change, At
  <2>3. call[c] \in Calls(call[c].k)
    BY <2>1, CallType DEF IInv
  <2> QED
    BY <2>1, <2>2, <2>3 DEF Calls
<1>4. \A c \in Readers : ~At(c, "idle")' => \A g \in Watched(call[c].k) :
        call[c].stamp[g] \in Int /\ call[c].stamp[g] <= clock
  <2> SUFFICES ASSUME NEW c \in Readers, ~At(c, "idle")', NEW g \in Watched(call[c].k)
               PROVE  call[c].stamp[g] \in Int /\ call[c].stamp[g] <= clock
    OBVIOUS
  <2>1. call[c] \in Calls(call[c].k) /\ ~At(c, "idle")
    BY <1>3, CallType DEF IInv
  <2>2. call[c].stamp[g] \in Stamps
    BY <2>1 DEF Calls
  <2> QED
    BY <2>1, <2>2 DEF Stamps, Never, IInv, Behind
<1>5. \A k \in Followers : \A g \in Watched(k) : seen[k].stamp[g] \in Int /\ seen[k].stamp[g] <= clock
  <2> SUFFICES ASSUME NEW k \in Followers, NEW g \in Watched(k)
               PROVE  seen[k].stamp[g] \in Int /\ seen[k].stamp[g] <= clock
    OBVIOUS
  <2>1. seen[k].stamp[g] \in Stamps
    BY DEF IInv, TypeOK, Keeps
  <2> QED
    BY <2>1 DEF Stamps, Never, IInv, Behind
<1>6. Behind'
  BY <1>2, <1>3, <1>4, <1>5 DEF Behind
<1>7. ReadAfterStat'
  <2>0. \A c \in Readers : /\ At(c, "check")' => call'[c].todo = Watched(call'[c].k)
                           /\ At(c, "store")' => call'[c].todo = {}
    BY <1>3 DEF IInv, ReadAfterStat, At
  <2> SUFFICES ASSUME NEW c \in Readers, At(c, "read")' \/ At(c, "store")'
               PROVE  \A g \in Watched(call'[c].k) \ call'[c].todo :
                        file'[g].stamp # Missing /\ call'[c].stamp[g] = file'[g].stamp
                          => call'[c].got[g] \in {file'[g].word, NoWord}
    BY <2>0 DEF ReadAfterStat
  <2>1. ~At(c, "idle")' /\ (At(c, "read") \/ At(c, "store")) /\ (At(c, "store")' => At(c, "store"))
    BY <1>3 DEF At
  <2>2. call[c].k \in Followers
    BY <1>3, <2>1, CallType DEF IInv
  <2>3. ASSUME NEW g \in Watched(call[c].k) \ call[c].todo, g # f,
               file'[g].stamp # Missing, call[c].stamp[g] = file'[g].stamp
        PROVE  call[c].got[g] \in {file'[g].word, NoWord}
    BY <1>2, <2>1, <2>2, <2>3, WatchedIsFile DEF IInv, ReadAfterStat
  <2>4. ASSUME f \in Watched(call[c].k), file'[f].stamp # Missing PROVE call[c].stamp[f] # file'[f].stamp
    BY <1>2, <1>4, <2>1, <2>4
  <2> QED
    BY <1>3, <2>1, <2>3, <2>4 DEF IInv, ReadAfterStat
<1>8. KeptIsContent'
  <2> SUFFICES ASSUME NEW k \in Followers, ~seen[k].failed, NEW g \in Watched(k),
                      file'[g].stamp # Missing, seen[k].stamp[g] = file'[g].stamp
               PROVE  seen[k].value[g] = file'[g].word
    BY <1>2 DEF KeptIsContent
  <2>1. g # f
    BY <1>2, <1>5
  <2> QED
    BY <1>2, <2>1, WatchedIsFile DEF IInv, KeptIsContent
<1> QED
  BY <1>6, <1>7, <1>8

LEMMA CallInv ==
  ASSUME IInv, NEW c \in Readers, Ask(c), ~Store(c)
  PROVE  Behind' /\ ReadAfterStat' /\ KeptIsContent'
<1>1. CASE UNCHANGED <<file, clock, seen>> /\ \E k \in Followers : \E r \in Calls(k) :
             /\ call' = [call EXCEPT ![c] = r]
             /\ \A f \in Watched(k) : r.stamp[f] <= clock
             /\ r.pc = "check" => r.todo = Watched(k)
             /\ r.pc = "store" => r.todo = {}
             /\ r.pc \in {"read", "store"} => \A f \in Watched(k) \ r.todo :
                  file[f].stamp # Missing /\ r.stamp[f] = file[f].stamp => r.got[f] \in {file[f].word, NoWord}
  <2>1. /\ \A d \in Readers : ~At(d, "idle")' => \A f \in Watched(call'[d].k) : call'[d].stamp[f] <= clock'
        /\ ReadAfterStat'
    BY <1>1, OneCall
  <2> QED
    BY <1>1, <2>1 DEF IInv, Behind, KeptIsContent
<1>2. ASSUME NEW k \in Followers, Begin(c, k) PROVE Behind' /\ ReadAfterStat' /\ KeptIsContent'
  <2> DEFINE r == [pc |-> IF StatsFirst(k) THEN "stat" ELSE "check", k |-> k,
        stamp |-> None(k), got |-> NoWords(k), todo |-> Watched(k),
        answer |-> NoValue, failed |-> FALSE, held |-> {file[f].word : f \in Files \cap {TokenFile}}]
  <2>1. None(k) \in [Watched(k) -> Stamps] /\ NoWords(k) \in [Watched(k) -> Words \cup {NoWord}]
    BY BoundsAssumption DEF None, NoWords, Stamps, Never
  <2>2. {file[f].word : f \in Files \cap {TokenFile}} \in SUBSET (Words \cup {NoWord})
    BY DEF IInv, TypeOK
  <2>3. r \in Calls(k)
    BY <2>1, <2>2 DEF Calls, Values
  <2>4. \A f \in Watched(k) : r.stamp[f] <= clock
    BY BoundsAssumption DEF None, Never, IInv, TypeOK
  <2>5. r.pc \notin {"read", "store"} /\ r.todo = Watched(k)
    OBVIOUS
  <2> HIDE DEF r
  <2>6. call' = [call EXCEPT ![c] = r] /\ UNCHANGED <<file, clock, seen>>
    BY <1>2 DEF Begin, r
  <2> QED
    BY <1>1, <2>3, <2>4, <2>5, <2>6
<1>3. ASSUME NEW f \in Files, Stat(c, f) PROVE Behind' /\ ReadAfterStat' /\ KeptIsContent'
  <2> DEFINE k == call[c].k
             todo == call[c].todo \ {f}
             r == [call[c] EXCEPT !.stamp[f] = file[f].stamp,
                     !.todo = IF todo = {} THEN Watched(k) ELSE todo,
                     !.pc = IF todo # {} THEN "stat" ELSE IF StatsFirst(k) THEN "check" ELSE "read"]
  <2>1. k \in Followers /\ call[c] \in Calls(k) /\ f \in Watched(k)
    BY <1>3, CallType DEF Stat, At, Calls, IInv
  <2>2. file[f].stamp \in Stamps /\ file[f].stamp <= clock
    BY StampType, Zenon DEF IInv
  <2>3. r \in Calls(k)
    BY <2>1, <2>2 DEF Calls
  <2>4. \A g \in Watched(k) : call[c].stamp[g] <= clock
    BY <1>3 DEF Stat, At, IInv, Behind
  <2>5. \A g \in Watched(k) : r.stamp[g] <= clock
    BY <2>1, <2>2, <2>4 DEF Calls
  <2>6. r.pc # "store" /\ (r.pc \in {"read", "check"} => r.todo = Watched(k))
    BY <2>1 DEF Calls
  <2> HIDE DEF k
  <2>7. call' = [call EXCEPT ![c] = r] /\ UNCHANGED <<file, clock, seen>>
    BY <1>3 DEF Stat, IInv, TypeOK, k
  <2> HIDE DEF r
  <2> QED
    BY <1>1, <2>1, <2>3, <2>5, <2>6, <2>7
<1>4. CASE CheckMoved(c)
  <2> DEFINE k == call[c].k
             r == [call[c] EXCEPT !.pc = IF StatsFirst(k) THEN "read" ELSE "stat"]
  <2>1. k \in Followers /\ call[c] \in Calls(k)
    BY <1>4, CallType DEF CheckMoved, At, IInv
  <2>2. r \in Calls(k)
    BY <2>1 DEF Calls
  <2>3. call' = [call EXCEPT ![c] = r] /\ UNCHANGED <<file, clock, seen>>
    BY <1>4 DEF CheckMoved, Go, IInv, TypeOK
  <2>4. \A f \in Watched(k) : r.stamp[f] <= clock
    BY <1>4, <2>1 DEF CheckMoved, At, IInv, Behind, Calls
  <2>5. r.pc \notin {"store", "check"} /\ r.todo = Watched(k)
    BY <1>4, <2>1 DEF CheckMoved, IInv, ReadAfterStat, Calls
  <2> HIDE DEF r, k
  <2> QED
    BY <1>1, <2>1, <2>2, <2>3, <2>4, <2>5
<1>5. CASE CheckSame(c) \/ Use(c)
  <2> DEFINE k == call[c].k
  <2>1. k \in Followers /\ call[c] \in Calls(k) /\ seen[k].value \in Values(k)
    BY <1>5, CallType DEF CheckSame, Use, At, TypeOK, Keeps, IInv
  <2>2. \A f \in Watched(k) : call[c].stamp[f] <= clock
    BY <1>5 DEF CheckSame, Use, At, IInv, Behind
  <2>3. \E r \in Calls(k) : call' = [call EXCEPT ![c] = r] /\ r.pc \in {"use", "answered"}
                             /\ r.stamp = call[c].stamp
    <3>1. CASE call' = [call EXCEPT ![c].pc = "use"]
      <4>1. [call[c] EXCEPT !.pc = "use"] \in Calls(k)
        BY <2>1 DEF Calls
      <4> QED
        BY <3>1, <4>1, <2>1 DEF IInv, TypeOK, Calls
    <3>2. CASE call' = [call EXCEPT ![c].pc = "answered", ![c].answer = seen[k].value]
      <4>1. [call[c] EXCEPT !.pc = "answered", !.answer = seen[k].value] \in Calls(k)
        BY <2>1 DEF Calls
      <4> QED
        BY <3>2, <4>1, <2>1 DEF IInv, TypeOK, Calls
    <3> QED
      BY <1>5, <3>1, <3>2 DEF CheckSame, Use
  <2>4. UNCHANGED <<file, clock, seen>>
    BY <1>5 DEF CheckSame, Use
  <2> HIDE DEF k
  <2> QED
    BY <1>1, <2>1, <2>2, <2>3, <2>4
<1>6. ASSUME NEW f \in Files, Read(c, f) \/ ReadFails(c, f)
      PROVE  Behind' /\ ReadAfterStat' /\ KeptIsContent'
  <2> DEFINE k == call[c].k
             todo == call[c].todo \ {f}
  <2>1. k \in Followers /\ call[c] \in Calls(k) /\ f \in Watched(k) /\ At(c, "read")
    BY <1>6, CallType DEF Read, ReadFails, At, Calls, IInv
  <2>2. file[f].word \in Words \cup {NoWord}
    BY StampType, Zenon DEF IInv
  <2> DEFINE Took(w, r) ==
               /\ r.stamp = call[c].stamp /\ r.todo = todo /\ r.got[f] = w
               /\ \A g \in Watched(k) \ {f} : r.got[g] = call[c].got[g]
               /\ r.pc # "check" /\ (r.pc = "store" => r.todo = {})
  <2>3. ASSUME NEW w \in Words \cup {NoWord}, NEW b \in BOOLEAN
        PROVE  LET s == [call[c] EXCEPT !.got[f] = w, !.todo = todo,
                           !.pc = IF todo = {} THEN "store" ELSE "read"]
                   e == [s EXCEPT !.failed = TRUE]
               IN  s \in Calls(k) /\ Took(w, s) /\ e \in Calls(k) /\ Took(w, e)
    <3> DEFINE s == [call[c] EXCEPT !.got[f] = w, !.todo = todo,
                       !.pc = IF todo = {} THEN "store" ELSE "read"]
               e == [s EXCEPT !.failed = TRUE]
    <3>1. s \in Calls(k) /\ Took(w, s)
      BY <2>1, ZenonT(60) DEF Calls
    <3> HIDE DEF s
    <3>2. e \in Calls(k) /\ Took(w, e)
      BY <3>1, ZenonT(60) DEF Calls
    <3> QED
      BY <3>1, <3>2, Zenon DEF s
  <2>4. PICK w \in {file[f].word, NoWord}, r \in Calls(k) :
          call' = [call EXCEPT ![c] = r] /\ Took(w, r)
    <3> HIDE DEF Took
    <3>0. c \in DOMAIN call
      BY DEF IInv, TypeOK
    <3>1. CASE Read(c, f)
      <4> DEFINE s == [call[c] EXCEPT !.got[f] = file[f].word, !.todo = todo,
                         !.pc = IF todo = {} THEN "store" ELSE "read"]
      <4>1. call' = GotFrom(c, f, file[f].word)
        BY <3>1 DEF Read
      <4>2. call' = [call EXCEPT ![c] = s]
        BY <3>0, <4>1, Zenon DEF GotFrom
      <4>3. s \in Calls(k) /\ Took(file[f].word, s)
        BY <2>2, <2>3, Zenon
      <4> QED
        BY <4>2, <4>3, Zenon
    <3>2. CASE ReadFails(c, f)
      <4> DEFINE s == [call[c] EXCEPT !.got[f] = NoWord, !.todo = todo,
                         !.pc = IF todo = {} THEN "store" ELSE "read"]
                 e == [s EXCEPT !.failed = TRUE]
      <4>1. call' = [GotFrom(c, f, NoWord) EXCEPT ![c].failed = TRUE]
        BY <3>2, Zenon DEF ReadFails
      <4>2. GotFrom(c, f, NoWord) = [call EXCEPT ![c] = s]
        BY <3>0, Zenon DEF GotFrom
      <4>3. call' = [call EXCEPT ![c] = e]
        <5> HIDE DEF s
        <5> QED
          BY <3>0, <4>1, <4>2, Zenon
      <4>4. e \in Calls(k) /\ Took(NoWord, e)
        BY <2>3, Zenon
      <4> QED
        BY <4>3, <4>4, Zenon
    <3> QED
      BY <1>6, <3>1, <3>2, Zenon
  <2>5. \A g \in Watched(k) : call[c].stamp[g] <= clock
    BY <2>1 DEF At, IInv, Behind
  <2>6. \A g \in Watched(k) \ r.todo :
          file[g].stamp # Missing /\ r.stamp[g] = file[g].stamp => r.got[g] \in {file[g].word, NoWord}
    BY <2>1, <2>4 DEF IInv, ReadAfterStat
  <2>7. UNCHANGED <<file, clock, seen>>
    BY <1>6 DEF Read, ReadFails
  <2> HIDE DEF k, todo
  <2> QED
    BY <1>1, <2>1, <2>4, <2>5, <2>6, <2>7
<1>7. CASE Leave(c)
  <2>1. call' = [call EXCEPT ![c] = Idle] /\ UNCHANGED <<file, clock, seen>>
    BY <1>7 DEF Leave
  <2>2. call'[c].pc = "idle" /\ \A d \in Readers \ {c} : call'[d] = call[d]
    BY <2>1 DEF Idle, IInv, TypeOK
  <2> QED
    BY <2>1, <2>2 DEF IInv, Behind, ReadAfterStat, KeptIsContent, At
<1> QED
  BY <1>2, <1>3, <1>4, <1>5, <1>6, <1>7 DEF Ask

\* The stat came before the reads, so the time that is stored with what was built is of
\* those very words, or of files that have changed since.
LEMMA StoreInv ==
  ASSUME IInv, NEW c \in Readers, Store(c)
  PROVE  Behind' /\ ReadAfterStat' /\ KeptIsContent'
<1> DEFINE k     == call[c].k
           built == Builds(call[c].got)
           kept  == Kept(k, built, call[c].got)
           r     == [call[c] EXCEPT !.pc = IF Rereads(k) THEN "use" ELSE "answered",
                       !.answer = IF Rereads(k) THEN NoValue ELSE kept, !.got = NoWords(k)]
           s     == [stamp |-> call[c].stamp, value |-> kept, failed |-> ~built]
<1>1. k \in Followers /\ call[c] \in Calls(k) /\ At(c, "store")
  BY CallType DEF Store, At, IInv
<1>2. call' = [call EXCEPT ![c] = r] /\ seen' = [seen EXCEPT ![k] = s] /\ UNCHANGED <<file, clock>>
  BY DEF Store, IInv, TypeOK
<1>3. \A f \in Watched(k) : call[c].stamp[f] <= clock
  BY <1>1 DEF At, IInv, Behind
<1>4. seen'[k] = s /\ \A j \in Followers \ {k} : seen'[j] = seen[j]
  BY <1>1, <1>2 DEF IInv, TypeOK
<1>5. r \in Calls(k) /\ r.stamp = call[c].stamp /\ r.pc \in {"use", "answered"}
  <2>1. NoWords(k) \in [Watched(k) -> Words \cup {NoWord}]
    BY DEF NoWords
  <2>2. kept \in Values(k)
    BY <1>1 DEF Kept, Builds, Values, Calls, IInv, TypeOK, Keeps
  <2> HIDE DEF kept, built
  <2> QED
    BY <1>1, <2>1, <2>2 DEF Calls, Values
<1>6. Behind' /\ ReadAfterStat'
  <2> HIDE DEF r, s, k
  <2>1. /\ \A d \in Readers : ~At(d, "idle")' => \A f \in Watched(call'[d].k) : call'[d].stamp[f] <= clock'
        /\ ReadAfterStat'
    BY <1>1, <1>2, <1>3, <1>5, OneCall
  <2>2. \A f \in Watched(k) : seen'[k].stamp[f] <= clock'
    BY <1>2, <1>3, <1>4 DEF s
  <2> QED
    BY <1>2, <1>4, <2>1, <2>2 DEF IInv, Behind
<1>7. KeptIsContent'
  <2> SUFFICES ASSUME NEW j \in Followers, ~seen'[j].failed, NEW f \in Watched(j),
                      file[f].stamp # Missing, seen'[j].stamp[f] = file[f].stamp
               PROVE  seen'[j].value[f] = file[f].word
    BY <1>2 DEF KeptIsContent
  <2>1. CASE j # k
    BY <1>4, <2>1 DEF IInv, KeptIsContent
  <2>2. CASE j = k
    <3>0. built
      <4>1. seen'[k].failed = ~built
        BY <1>4
      <4> HIDE DEF built, k
      <4> QED
        BY <4>1, <2>2
    <3>1. built /\ seen'[k].value = call[c].got /\ seen'[k].stamp = call[c].stamp
      <4> HIDE DEF built
      <4> QED
        BY <1>4, <3>0 DEF Kept
    <3>2. call[c].got[f] # NoWord
      BY <1>1, <2>2, <3>1 DEF Builds, Calls
    <3>3. call[c].got[f] \in {file[f].word, NoWord}
      BY <1>1, <2>2, <3>1 DEF IInv, ReadAfterStat
    <3> QED
      BY <2>2, <3>1, <3>2, <3>3
  <2> QED
    BY <2>1, <2>2
<1> QED
  BY <1>6, <1>7

LEMMA InvStep == IInv /\ [Next]_vars => IInv'
<1> SUFFICES ASSUME IInv, [Next]_vars PROVE IInv'
  OBVIOUS
<1>1. TypeOK'
  BY TypeStep DEF IInv
<1>2. CASE UNCHANGED vars
  BY <1>1, <1>2 DEF vars, IInv, Behind, ReadAfterStat, KeptIsContent, At
<1>3. CASE FilesChange
  BY <1>1, <1>3, ChangeInv DEF FilesChange, IInv
<1>4. ASSUME NEW c \in Readers, Ask(c) PROVE IInv'
  BY <1>1, <1>4, CallInv, StoreInv DEF IInv
<1> QED
  BY <1>2, <1>3, <1>4 DEF Next

\* A stale word is always found out: what a follower keeps under a file's own
\* modification time is what that file holds, however many threads stat, read and
\* store, in whatever order, and however the files are renewed meanwhile.
THEOREM KeptCorrect == Spec => []KeptIsContent
<1>1. IInv => KeptIsContent
  BY DEF IInv
<1> QED
  BY <1>1, InvInit, InvStep, PTL DEF Spec
-----------------------------------------------------------------------------
(* What a bearer's followers answer. *)

\* A call that has read its file, and one whose look found the file.
HasGot(r) == r.pc \in {"read", "store"} /\ TokenFile \notin r.todo
Looked(r) == r.pc \in {"check", "read", "store"} /\ r.stamp[TokenFile] # Missing

\* A call knows the word there is now; what it got itself was held meanwhile, if the read
\* went well; and so was what is kept, by then, under the time it found.
Honest(r, word, kept) ==
  StatsFirst(r.k) =>
    /\ word \in r.held
    /\ r.pc # "use"
    /\ HasGot(r) => r.got[TokenFile] \in r.held \/ (r.failed /\ r.got[TokenFile] = NoWord)
    /\ Looked(r) /\ kept.stamp[TokenFile] = r.stamp[TokenFile] /\ kept.value # NoValue
         => kept.value[TokenFile] \in r.held
    /\ r.pc = "answered"
       /\ (IF r.answer = NoValue THEN r.k = "token" /\ ~r.failed ELSE r.stamp[TokenFile] # Missing)
         => WordIn(r.answer) \in r.held

\* What another thread got, and may store under the time this one found, was held during
\* this call too: it was read after that time was found, or is of it.
Agree(r, q) ==
  StatsFirst(r.k) /\ q.k = r.k /\ Looked(r) /\ HasGot(q) /\ q.stamp[TokenFile] = r.stamp[TokenFile]
    => q.got[TokenFile] \in r.held \cup {NoWord}

NoneIsFailure == \A k \in Followers : StatsFirst(k) => (seen[k].failed <=> seen[k].value = NoValue)

CallsHonest == \A c \in Readers : ~At(c, "idle") => Honest(call[c], file[TokenFile].word, seen[call[c].k])
CallsAgree == \A c, d \in Readers : ~At(c, "idle") /\ ~At(d, "idle") => Agree(call[c], call[d])

AnswerInv == CallsHonest /\ CallsAgree /\ NoneIsFailure

LEMMA OneFile ==
  ASSUME NEW k \in Followers, StatsFirst(k)
  PROVE  Watched(k) = {TokenFile} /\ TokenFile \in Files /\ ~Rereads(k) /\ k # "client"
<1>1. Watched(k) = {TokenFile} /\ ~Rereads(k) /\ k # "client"
  BY DEF StatsFirst, Watched, Rereads
<1> QED
  BY <1>1 DEF Files

LEMMA AnswerInit == Init => AnswerInv
<1> SUFFICES ASSUME Init PROVE AnswerInv
  OBVIOUS
<1>1. \A c \in Readers : At(c, "idle")
  BY DEF Init, At, Idle
<1>2. NoneIsFailure
  BY DEF Init, NoneIsFailure
<1> QED
  BY <1>1, <1>2 DEF AnswerInv, CallsHonest, CallsAgree

\* One call moves, and what is kept stays.
LEMMA OneAnswers ==
  ASSUME TypeOK, AnswerInv, NEW c \in Readers, NEW k \in Followers, NEW r \in Calls(k),
         call' = [call EXCEPT ![c] = r], UNCHANGED <<file, seen>>,
         Honest(r, file[TokenFile].word, seen[k]), Agree(r, r),
         \A d \in Readers \ {c} : ~At(d, "idle") => Agree(r, call[d]) /\ Agree(call[d], r)
  PROVE  AnswerInv'
<1>1. call'[c] = r /\ r.k = k /\ \A d \in Readers \ {c} : call'[d] = call[d]
  BY DEF TypeOK, Calls
<1>2. CallsHonest'
  BY <1>1 DEF AnswerInv, CallsHonest, At
<1>3. CallsAgree'
  <2> SUFFICES ASSUME NEW d \in Readers, NEW e \in Readers, ~At(d, "idle")', ~At(e, "idle")'
               PROVE  Agree(call'[d], call'[e])
    BY DEF CallsAgree, Agree, HasGot, Looked
  <2>1. CASE d = c /\ e = c
    BY <1>1, <2>1
  <2>2. CASE d = c /\ e # c
    BY <1>1, <2>2 DEF At
  <2>3. CASE d # c /\ e = c
    BY <1>1, <2>3 DEF At
  <2>4. CASE d # c /\ e # c
    BY <1>1, <2>4 DEF At, AnswerInv, CallsAgree
  <2> QED
    BY <2>1, <2>2, <2>3, <2>4
<1>4. NoneIsFailure'
  BY DEF AnswerInv, NoneIsFailure
<1> QED
  BY <1>2, <1>3, <1>4 DEF AnswerInv

\* A call that neither looked nor got anything agrees with all.
LEMMA NothingYet ==
  ASSUME NEW r, ~Looked(r) \/ ~StatsFirst(r.k), ~HasGot(r) \/ ~StatsFirst(r.k)
  PROVE  \A q : Agree(r, q) /\ Agree(q, r)
BY DEF Agree

LEMMA ChangeAnswers ==
  ASSUME IInv, AnswerInv, NEW f \in Files, Write(f) \/ Remove(f) PROVE AnswerInv'
<1>1. PICK to \in [stamp : {clock + 1, Missing}, word : Words \cup {NoWord}] : Change(f, to)
  BY DEF Write, Remove
<1>2. seen' = seen /\ file'[f] = to /\ \A g \in Files \ {f} : file'[g] = file[g]
  BY <1>1 DEF Change, IInv, TypeOK
<1>3. ASSUME NEW c \in Readers, ~At(c, "idle")'
      PROVE  /\ ~At(c, "idle") /\ call'[c].k = call[c].k /\ call'[c].pc = call[c].pc
             /\ call'[c].stamp = call[c].stamp /\ call'[c].todo = call[c].todo
             /\ call'[c].got = call[c].got /\ call'[c].failed = call[c].failed
             /\ call'[c].answer = call[c].answer /\ call[c].k \in Followers
             /\ call'[c].held = HeldSince(call[c].held, f, to.word)
  <2>1. ~At(c, "idle")
    BY <1>1, <1>3 DEF Change, At, Idle
  <2>2. call'[c] = [call[c] EXCEPT !.held = HeldSince(call[c].held, f, to.word)]
    BY <1>1, <2>1 DEF Change, At
  <2>3. call[c] \in Calls(call[c].k) /\ call[c].k \in Followers
    BY <2>1, CallType DEF IInv
  <2> QED
    BY <2>1, <2>2, <2>3 DEF Calls
<1>4. \A c \in Readers : ~At(c, "idle")' => call[c].held \subseteq call'[c].held
  BY <1>3 DEF HeldSince
<1>5. CallsHonest'
  <2> SUFFICES ASSUME NEW c \in Readers, ~At(c, "idle")', StatsFirst(call[c].k)
               PROVE  Honest(call'[c], file'[TokenFile].word, seen[call[c].k])
    BY <1>2, <1>3 DEF CallsHonest, Honest, HasGot, Looked, WordIn
  <2>1. Honest(call[c], file[TokenFile].word, seen[call[c].k])
    BY <1>3 DEF AnswerInv, CallsHonest
  <2>2. file'[TokenFile].word \in call'[c].held
    BY <1>2, <1>3, <2>1, OneFile DEF Honest, HeldSince
  <2> QED
    BY <1>3, <1>4, <2>1, <2>2 DEF Honest, HasGot, Looked, WordIn
<1>6. CallsAgree'
  <2> SUFFICES ASSUME NEW c \in Readers, NEW d \in Readers, ~At(c, "idle")', ~At(d, "idle")'
               PROVE  Agree(call'[c], call'[d])
    BY DEF CallsAgree, Agree, HasGot, Looked
  <2>1. Agree(call[c], call[d])
    BY <1>3 DEF AnswerInv, CallsAgree
  <2> QED
    BY <1>3, <1>4, <2>1 DEF Agree, HasGot, Looked
<1>7. NoneIsFailure'
  BY <1>2 DEF AnswerInv, NoneIsFailure
<1> QED
  BY <1>5, <1>6, <1>7 DEF AnswerInv

LEMMA AskAnswers ==
  ASSUME IInv, AnswerInv, NEW c \in Readers, Ask(c), ~Store(c) PROVE AnswerInv'
<1>0. TypeOK
  BY DEF IInv
<1>1. ASSUME NEW k \in Followers, Begin(c, k) PROVE AnswerInv'
  <2> DEFINE held == {file[f].word : f \in Files \cap {TokenFile}}
             r == [pc |-> IF StatsFirst(k) THEN "stat" ELSE "check", k |-> k,
        stamp |-> None(k), got |-> NoWords(k), todo |-> Watched(k),
        answer |-> NoValue, failed |-> FALSE, held |-> held]
  <2>1. None(k) \in [Watched(k) -> Stamps] /\ NoWords(k) \in [Watched(k) -> Words \cup {NoWord}]
    BY BoundsAssumption DEF None, NoWords, Stamps, Never
  <2>2. held \in SUBSET (Words \cup {NoWord})
    BY DEF IInv, TypeOK
  <2>3. r \in Calls(k)
    BY <2>1, <2>2 DEF Calls, Values
  <2>4. StatsFirst(k) => file[TokenFile].word \in held
    BY OneFile
  <2>5. Honest(r, file[TokenFile].word, seen[k]) /\ (~Looked(r) \/ ~StatsFirst(r.k)) /\ ~HasGot(r)
    BY <2>4 DEF Honest, Looked, HasGot
  <2>6. call' = [call EXCEPT ![c] = r] /\ UNCHANGED <<file, seen>>
    BY <1>1 DEF Begin
  <2> HIDE DEF r
  <2> QED
    BY <1>0, <2>3, <2>5, <2>6, NothingYet, OneAnswers
<1>2. ASSUME NEW f \in Files, Stat(c, f) PROVE AnswerInv'
  <2> DEFINE k == call[c].k
             todo == call[c].todo \ {f}
             r == [call[c] EXCEPT !.stamp[f] = file[f].stamp,
                     !.todo = IF todo = {} THEN Watched(k) ELSE todo,
                     !.pc = IF todo # {} THEN "stat" ELSE IF StatsFirst(k) THEN "check" ELSE "read"]
  <2>1. k \in Followers /\ call[c] \in Calls(k) /\ f \in Watched(k) /\ ~At(c, "idle") /\ f \in call[c].todo
    BY <1>2, CallType DEF Stat, At, Calls, IInv
  <2>2. file[f].stamp \in Stamps
    BY StampType, Zenon DEF IInv
  <2>3. r \in Calls(k) /\ r.held = call[c].held /\ r.k = k
    BY <2>1, <2>2 DEF Calls
  <2>4. call' = [call EXCEPT ![c] = r] /\ UNCHANGED <<file, seen>>
    BY <1>2 DEF Stat, IInv, TypeOK
  <2>5. CASE ~StatsFirst(k)
    <3>1. Honest(r, file[TokenFile].word, seen[k])
      BY <2>3, <2>5 DEF Honest
    <3> HIDE DEF k, r
    <3>2. \A d \in Readers \ {c} : Agree(r, call[d]) /\ Agree(call[d], r)
      BY <2>3, <2>5 DEF Agree
    <3>3. Agree(r, r)
      BY <2>3, <2>5 DEF Agree
    <3> QED
      BY <1>0, <2>1, <2>3, <2>4, <3>1, <3>2, <3>3, OneAnswers
  <2>6. CASE StatsFirst(k)
    <3>1. f = TokenFile /\ Watched(k) = {TokenFile} /\ todo = {}
      BY <2>1, <2>6, OneFile DEF Calls
    <3>2. r.pc = "check" /\ r.stamp[TokenFile] = file[TokenFile].stamp
      BY <2>1, <2>6, <3>1 DEF Calls
    <3>3. file[TokenFile].word \in r.held
      BY <2>1, <2>3, <2>6 DEF AnswerInv, CallsHonest, Honest
    <3> HIDE DEF r, k
    <3>4. Looked(r) /\ seen[k].stamp[TokenFile] = r.stamp[TokenFile] /\ seen[k].value # NoValue
            => seen[k].value[TokenFile] \in r.held
      <4> SUFFICES ASSUME Looked(r), seen[k].stamp[TokenFile] = r.stamp[TokenFile], seen[k].value # NoValue
                   PROVE  seen[k].value[TokenFile] \in r.held
        OBVIOUS
      <4>1. ~seen[k].failed
        BY <2>1, <2>6 DEF AnswerInv, NoneIsFailure
      <4>2. seen[k].value[TokenFile] = file[TokenFile].word
        BY <2>1, <3>1, <3>2, <4>1 DEF IInv, KeptIsContent, Looked
      <4> QED
        BY <3>3, <4>2
    <3>5. Honest(r, file[TokenFile].word, seen[k])
      BY <2>3, <3>2, <3>3, <3>4 DEF Honest, HasGot
    <3>6. \A d \in Readers \ {c} : ~At(d, "idle") => Agree(r, call[d])
      <4> SUFFICES ASSUME NEW d \in Readers, ~At(d, "idle"), Looked(r), HasGot(call[d]), call[d].k = k,
                          call[d].stamp[TokenFile] = r.stamp[TokenFile]
                   PROVE  call[d].got[TokenFile] \in r.held \cup {NoWord}
        BY <2>3 DEF Agree
      <4>1. call[d].got[TokenFile] \in {file[TokenFile].word, NoWord}
        BY <3>1, <3>2 DEF IInv, ReadAfterStat, HasGot, Looked, At
      <4> QED
        BY <3>3, <4>1
    <3>7. \A q : Agree(q, r)
      BY <3>2 DEF Agree, HasGot
    <3> QED
      BY <1>0, <2>1, <2>3, <2>4, <3>5, <3>6, <3>7, OneAnswers
  <2> QED
    BY <2>5, <2>6
<1>3. CASE CheckMoved(c)
  <2> DEFINE k == call[c].k
             r == [call[c] EXCEPT !.pc = IF StatsFirst(k) THEN "read" ELSE "stat"]
  <2>1. k \in Followers /\ call[c] \in Calls(k) /\ At(c, "check") /\ ~At(c, "idle")
    BY <1>3, CallType DEF CheckMoved, At, IInv
  <2>2. r \in Calls(k) /\ r.k = k /\ r.held = call[c].held /\ r.stamp = call[c].stamp
        /\ r.pc = (IF StatsFirst(k) THEN "read" ELSE "stat") /\ r.todo = Watched(k)
    BY <2>1 DEF Calls, IInv, ReadAfterStat
  <2>3. call' = [call EXCEPT ![c] = r] /\ UNCHANGED <<file, seen>>
    BY <1>3 DEF CheckMoved, Go, IInv, TypeOK
  <2>4. ~HasGot(r) \/ ~StatsFirst(r.k)
    BY <2>1, <2>2, OneFile DEF HasGot
  <2>5. StatsFirst(k) => (Looked(r) => Looked(call[c]))
    BY <2>1, <2>2 DEF Looked, At
  <2>6. Honest(call[c], file[TokenFile].word, seen[k])
    BY <2>1 DEF AnswerInv, CallsHonest
  <2> HIDE DEF r, k
  <2>7. Honest(r, file[TokenFile].word, seen[k])
    BY <2>2, <2>4, <2>5, <2>6 DEF Honest, k
  <2>8. \A q : Agree(q, r)
    BY <2>2, <2>4 DEF Agree
  <2>9. \A d \in Readers \ {c} : ~At(d, "idle") => Agree(r, call[d])
    <3>1. \A d \in Readers : ~At(d, "idle") => Agree(call[c], call[d])
      BY <2>1 DEF AnswerInv, CallsAgree
    <3> QED
      BY <2>2, <2>5, <3>1 DEF Agree, k
  <2> QED
    BY <1>0, <2>1, <2>2, <2>3, <2>7, <2>8, <2>9, OneAnswers
<1>4. CASE CheckSame(c) \/ Use(c)
  <2> DEFINE k == call[c].k
  <2>1. k \in Followers /\ call[c] \in Calls(k) /\ seen[k].value \in Values(k) /\ ~At(c, "idle")
    BY <1>4, CallType DEF CheckSame, Use, At, TypeOK, Keeps, IInv
  <2>2. UNCHANGED <<file, seen>>
    BY <1>4 DEF CheckSame, Use
  <2>3. CASE call' = [call EXCEPT ![c].pc = "use"] /\ Rereads(k)
    <3> DEFINE r == [call[c] EXCEPT !.pc = "use"]
    <3>1. r \in Calls(k) /\ r.k = k /\ call' = [call EXCEPT ![c] = r]
      BY <2>1, <2>3 DEF Calls, IInv, TypeOK
    <3>2. ~StatsFirst(k)
      BY <2>1, <2>3, OneFile
    <3> HIDE DEF r, k
    <3>3. Honest(r, file[TokenFile].word, seen[k])
      BY <3>1, <3>2 DEF Honest
    <3>4. \A q : Agree(r, q) /\ Agree(q, r)
      BY <3>1, <3>2, NothingYet
    <3> QED
      BY <1>0, <2>1, <2>2, <3>1, <3>3, <3>4, OneAnswers
  <2>4. CASE call' = [call EXCEPT ![c].pc = "answered", ![c].answer = seen[k].value]
    <3> DEFINE r == [call[c] EXCEPT !.pc = "answered", !.answer = seen[k].value]
    <3>1. r \in Calls(k) /\ r.k = k /\ call' = [call EXCEPT ![c] = r] /\ r.held = call[c].held
          /\ r.pc = "answered" /\ r.answer = seen[k].value /\ r.failed = call[c].failed /\ r.stamp = call[c].stamp
      BY <2>1, <2>4 DEF Calls, IInv, TypeOK
    <3>2. ~Looked(r) /\ ~HasGot(r)
      BY <3>1 DEF Looked, HasGot
    <3>3. Honest(r, file[TokenFile].word, seen[k])
      <4> SUFFICES ASSUME StatsFirst(k) PROVE Honest(r, file[TokenFile].word, seen[k])
        BY <3>1 DEF Honest
      <4>1. Honest(call[c], file[TokenFile].word, seen[k])
        BY <2>1 DEF AnswerInv, CallsHonest
      <4>2. CheckSame(c) /\ call[c].pc = "check"
        BY <1>4, <4>1 DEF Honest, Use, At, CheckSame
      <4>3. seen[k].stamp = call[c].stamp /\ ~(Retries(k) /\ seen[k].failed)
        BY <4>2 DEF CheckSame, Moved
      <4>4. CASE seen[k].value = NoValue
        <5>1. k # "token"
          BY <2>1, <4>3, <4>4 DEF Retries, AnswerInv, NoneIsFailure
        <5> QED
          BY <3>1, <3>2, <4>1, <4>4, <5>1 DEF Honest
      <4>5. CASE seen[k].value # NoValue /\ call[c].stamp[TokenFile] # Missing
        <5>1. Looked(call[c])
          BY <4>2, <4>5 DEF Looked
        <5>2. seen[k].value[TokenFile] \in call[c].held
          BY <4>1, <4>3, <4>5, <5>1 DEF Honest
        <5> QED
          BY <3>1, <3>2, <4>1, <4>5, <5>2 DEF Honest, WordIn
      <4>6. CASE seen[k].value # NoValue /\ call[c].stamp[TokenFile] = Missing
        BY <3>1, <3>2, <4>1, <4>6 DEF Honest
      <4> QED
        BY <4>4, <4>5, <4>6
    <3> HIDE DEF r, k
    <3>4. \A q : Agree(r, q) /\ Agree(q, r)
      BY <3>2, NothingYet
    <3> QED
      BY <1>0, <2>1, <2>2, <3>1, <3>3, <3>4, OneAnswers
  <2> QED
    BY <1>4, <2>3, <2>4 DEF CheckSame, Use
<1>5. ASSUME NEW f \in Files, Read(c, f) \/ ReadFails(c, f) PROVE AnswerInv'
  <2> DEFINE k == call[c].k
             todo == call[c].todo \ {f}
  <2>1. k \in Followers /\ call[c] \in Calls(k) /\ f \in Watched(k) /\ At(c, "read") /\ ~At(c, "idle")
    BY <1>5, CallType DEF Read, ReadFails, At, Calls, IInv
  <2>2. PICK w \in Words \cup {NoWord}, b \in BOOLEAN :
          /\ w = file[f].word \/ (w = NoWord /\ b)
          /\ call' = [call EXCEPT ![c] = [call[c] EXCEPT !.got[f] = w, !.todo = todo,
                     !.pc = IF todo = {} THEN "store" ELSE "read", !.failed = b]]
    <3>1. CASE Read(c, f)
      <4>1. call[c].failed \in BOOLEAN /\ file[f].word \in Words \cup {NoWord}
        BY <2>1 DEF Calls, IInv, TypeOK
      <4>2. call' = [call EXCEPT ![c] = [call[c] EXCEPT !.got[f] = file[f].word, !.todo = todo,
                     !.pc = IF todo = {} THEN "store" ELSE "read", !.failed = call[c].failed]]
        BY <2>1, <3>1 DEF Read, GotFrom, IInv, TypeOK, Calls
      <4> QED
        BY <4>1, <4>2, ZenonT(60)
    <3>2. CASE ReadFails(c, f)
      <4>1. call' = [call EXCEPT ![c] = [call[c] EXCEPT !.got[f] = NoWord, !.todo = todo,
                     !.pc = IF todo = {} THEN "store" ELSE "read", !.failed = TRUE]]
        BY <2>1, <3>2 DEF ReadFails, GotFrom, IInv, TypeOK, Calls
      <4> QED
        BY <4>1
    <3> QED
      BY <1>5, <3>1, <3>2
  <2> DEFINE r == [call[c] EXCEPT !.got[f] = w, !.todo = todo,
                     !.pc = IF todo = {} THEN "store" ELSE "read", !.failed = b]
  <2>3. r \in Calls(k) /\ r.k = k /\ r.stamp = call[c].stamp /\ r.held = call[c].held /\ r.got[f] = w
        /\ r.failed = b /\ r.pc \in {"store", "read"}
    BY <2>1 DEF Calls
  <2>4. UNCHANGED <<file, seen>> /\ call' = [call EXCEPT ![c] = r]
    BY <1>5, <2>2 DEF Read, ReadFails
  <2>5. StatsFirst(k) => f = TokenFile
    BY <2>1, OneFile
  <2>6. Honest(call[c], file[TokenFile].word, seen[k]) /\ (Looked(r) => Looked(call[c]))
    BY <2>1, <2>3 DEF AnswerInv, CallsHonest, Looked, At
  <2> HIDE DEF r, k, todo
  <2>7. Honest(r, file[TokenFile].word, seen[k])
    BY <2>2, <2>3, <2>5, <2>6 DEF Honest, k
  <2>8. \A d \in Readers : ~At(d, "idle") => Agree(r, call[d])
    <3>1. \A d \in Readers : ~At(d, "idle") => Agree(call[c], call[d])
      BY <2>1 DEF AnswerInv, CallsAgree
    <3> QED
      BY <2>3, <2>6, <3>1 DEF Agree, k
  <2>9. \A d \in Readers : ~At(d, "idle") => Agree(call[d], r)
    <3> SUFFICES ASSUME NEW d \in Readers, ~At(d, "idle"), StatsFirst(call[d].k), k = call[d].k
                 PROVE  w \in call[d].held \cup {NoWord}
      BY <2>3, <2>5 DEF Agree
    <3>1. file[TokenFile].word \in call[d].held
      BY DEF AnswerInv, CallsHonest, Honest
    <3> QED
      BY <2>2, <2>5, <3>1
  <2>10. Agree(r, r)
    BY <2>2, <2>3, <2>5, <2>6 DEF Agree, Honest, k
  <2> QED
    BY <1>0, <2>1, <2>3, <2>4, <2>7, <2>8, <2>9, <2>10, OneAnswers
<1>6. CASE Leave(c)
  <2>1. call' = [call EXCEPT ![c] = Idle] /\ UNCHANGED <<file, seen>>
    BY <1>6 DEF Leave
  <2>2. call'[c].pc = "idle" /\ \A d \in Readers \ {c} : call'[d] = call[d]
    BY <2>1 DEF Idle, IInv, TypeOK
  <2>3. \A d \in Readers : ~At(d, "idle")' => d # c /\ ~At(d, "idle") /\ call'[d] = call[d]
    BY <2>2 DEF At
  <2>4. CallsHonest'
    BY <2>1, <2>3 DEF AnswerInv, CallsHonest
  <2>5. CallsAgree'
    BY <2>3 DEF AnswerInv, CallsAgree
  <2> QED
    BY <2>1, <2>4, <2>5 DEF AnswerInv, NoneIsFailure
<1> QED
  BY <1>1, <1>2, <1>3, <1>4, <1>5, <1>6 DEF Ask

LEMMA StoreAnswers ==
  ASSUME IInv, AnswerInv, NEW c \in Readers, Store(c) PROVE AnswerInv'
<1> DEFINE k     == call[c].k
           built == Builds(call[c].got)
           kept  == Kept(k, built, call[c].got)
           r     == [call[c] EXCEPT !.pc = IF Rereads(k) THEN "use" ELSE "answered",
                       !.answer = IF Rereads(k) THEN NoValue ELSE kept, !.got = NoWords(k)]
           s     == [stamp |-> call[c].stamp, value |-> kept, failed |-> ~built]
<1>1. k \in Followers /\ call[c] \in Calls(k) /\ At(c, "store") /\ ~At(c, "idle")
  BY CallType DEF Store, At, IInv
<1>2. call' = [call EXCEPT ![c] = r] /\ seen' = [seen EXCEPT ![k] = s] /\ UNCHANGED file
  BY DEF Store, IInv, TypeOK
<1>3. call'[c] = r /\ \A d \in Readers \ {c} : call'[d] = call[d]
  BY <1>2 DEF IInv, TypeOK
<1>4. seen'[k] = s /\ \A j \in Followers \ {k} : seen'[j] = seen[j]
  BY <1>1, <1>2 DEF IInv, TypeOK
<1>5. r.k = k /\ r.stamp = call[c].stamp /\ r.held = call[c].held /\ r.failed = call[c].failed
      /\ r.pc = (IF Rereads(k) THEN "use" ELSE "answered") /\ (~Rereads(k) => r.answer = kept)
  BY <1>1 DEF Calls
<1>6. HasGot(call[c]) /\ Honest(call[c], file[TokenFile].word, seen[k])
  BY <1>1 DEF IInv, ReadAfterStat, AnswerInv, CallsHonest, HasGot, At
\* The one file: it is built of its word, or there was none.
<1>7. ASSUME StatsFirst(k)
      PROVE  \/ built /\ kept = call[c].got /\ kept # NoValue /\ kept[TokenFile] # NoWord
             \/ ~built /\ kept = NoValue /\ call[c].got[TokenFile] = NoWord
  <2>1. Watched(k) = {TokenFile} /\ k # "client" /\ call[c].got \in [{TokenFile} -> Words \cup {NoWord}]
    BY <1>1, <1>7, OneFile DEF Calls
  <2>2. CASE built
    <3>1. kept = call[c].got /\ call[c].got[TokenFile] # NoWord
      BY <2>1, <2>2 DEF Kept, Builds
    <3>2. call[c].got \in [{TokenFile} -> Words]
      BY <2>1, <3>1
    <3>3. \A x \in [{TokenFile} -> Words] : x # NoValue
      BY ValueAssumption
    <3> QED
      BY <2>2, <3>1, <3>2, <3>3
  <2>3. CASE ~built
    <3>1. kept = NoValue
      BY <2>1, <2>3 DEF Kept
    <3>2. call[c].got[TokenFile] = NoWord
      BY <2>1, <2>3 DEF Builds
    <3> QED
      BY <2>3, <3>1, <3>2
  <2> QED
    BY <2>2, <2>3
<1> HIDE DEF r, kept, built
<1>8. ~Looked(r) /\ ~HasGot(r)
  BY <1>5 DEF Looked, HasGot
<1>9. CallsAgree'
  <2> SUFFICES ASSUME NEW d \in Readers, NEW e \in Readers, ~At(d, "idle")', ~At(e, "idle")'
               PROVE  Agree(call'[d], call'[e])
    BY DEF CallsAgree, Agree, HasGot, Looked
  <2>1. CASE d = c \/ e = c
    BY <1>3, <1>8, <2>1 DEF Agree
  <2>2. CASE d # c /\ e # c
    BY <1>3, <2>2 DEF At, AnswerInv, CallsAgree
  <2> QED
    BY <2>1, <2>2
<1>10. Honest(r, file[TokenFile].word, seen'[k])
  <2> SUFFICES ASSUME StatsFirst(k) PROVE Honest(r, file[TokenFile].word, seen'[k])
    BY <1>5 DEF Honest
  <2>1. ~Rereads(k)
    BY <1>1, OneFile
  <2>2. call[c].got[TokenFile] \in call[c].held \/ (call[c].failed /\ call[c].got[TokenFile] = NoWord)
    BY <1>6 DEF Honest
  <2> HIDE DEF k, s
  <2> QED
    BY <1>5, <1>6, <1>7, <1>8, <2>1, <2>2 DEF Honest, WordIn, k
<1>11. ASSUME NEW d \in Readers \ {c}, ~At(d, "idle"), StatsFirst(call[d].k)
       PROVE  Honest(call[d], file[TokenFile].word, seen'[call[d].k])
  <2>1. Honest(call[d], file[TokenFile].word, seen[call[d].k]) /\ call[d].k \in Followers
    BY <1>11, CallType DEF AnswerInv, CallsHonest, IInv
  <2>2. CASE call[d].k # k
    BY <1>4, <2>1, <2>2
  <2>3. CASE call[d].k = k
    <3>1. Agree(call[d], call[c])
      BY <1>1, <1>11 DEF AnswerInv, CallsAgree
    <3>2. Looked(call[d]) /\ s.stamp[TokenFile] = call[d].stamp[TokenFile] /\ kept # NoValue
            => kept[TokenFile] \in call[d].held
      BY <1>6, <1>7, <1>11, <2>3, <3>1 DEF Agree
    <3>3. seen'[k].stamp = s.stamp /\ seen'[k].value = kept
      BY <1>4
    <3> QED
      BY <2>1, <2>3, <3>2, <3>3 DEF Honest
  <2> QED
    BY <2>2, <2>3
<1>12. CallsHonest'
  <2> SUFFICES ASSUME NEW d \in Readers, ~At(d, "idle")'
               PROVE  Honest(call'[d], file'[TokenFile].word, seen'[call'[d].k])
    BY DEF CallsHonest, Honest, HasGot, Looked, WordIn
  <2>1. CASE d = c
    BY <1>2, <1>3, <1>5, <1>10, <2>1
  <2>2. CASE d # c /\ StatsFirst(call[d].k)
    BY <1>2, <1>3, <1>11, <2>2 DEF At
  <2>3. CASE d # c /\ ~StatsFirst(call[d].k)
    BY <1>3, <2>3 DEF Honest
  <2> QED
    BY <2>1, <2>2, <2>3
<1>13. NoneIsFailure'
  <2> SUFFICES ASSUME NEW j \in Followers, StatsFirst(j)
               PROVE  seen'[j].failed <=> seen'[j].value = NoValue
    BY DEF NoneIsFailure
  <2>1. CASE j = k
    <3>1. seen'[k].failed = ~built
      BY <1>4
    <3>2. seen'[k].value = kept
      BY <1>4
    <3>3. StatsFirst(k) /\ (built <=> kept # NoValue)
      BY <1>7, <2>1
    <3> HIDE DEF k
    <3> QED
      BY <2>1, <3>1, <3>2, <3>3
  <2>2. CASE j # k
    BY <1>4, <2>2 DEF AnswerInv, NoneIsFailure
  <2> QED
    BY <2>1, <2>2
<1> QED
  BY <1>9, <1>12, <1>13 DEF AnswerInv

LEMMA AnswerStep == IInv /\ AnswerInv /\ [Next]_vars => AnswerInv'
<1> SUFFICES ASSUME IInv, AnswerInv, [Next]_vars PROVE AnswerInv'
  OBVIOUS
<1>1. CASE UNCHANGED vars
  BY <1>1 DEF vars, AnswerInv, CallsHonest, CallsAgree, NoneIsFailure, At, Honest, Agree, HasGot, Looked, WordIn
<1>2. CASE FilesChange
  BY <1>2, ChangeAnswers DEF FilesChange
<1>3. ASSUME NEW c \in Readers, Ask(c) PROVE AnswerInv'
  BY <1>3, AskAnswers, StoreAnswers
<1> QED
  BY <1>1, <1>2, <1>3 DEF Next

LEMMA AnswersHonest == Spec => [](IInv /\ AnswerInv)
BY InvInit, InvStep, AnswerInit, AnswerStep, PTL DEF Spec

\* A bearer that is answered where the file was found was held during that very call,
\* and FileToken says there is none only if there was none, or this call could not read
\* the file itself - however many threads store what they read, in whatever order.
THEOREM AnsweredWasHeld == Spec => []AnswerWasHeld
<1>1. IInv /\ AnswerInv => AnswerWasHeld
  <2> SUFFICES ASSUME AnswerInv, NEW c \in Readers, Answered(c, {"token", "console"}),
                      IF call[c].answer = NoValue
                        THEN call[c].k = "token" /\ ~call[c].failed
                        ELSE call[c].stamp[TokenFile] # Missing
               PROVE  WordIn(call[c].answer) \in call[c].held
    BY DEF AnswerWasHeld
  <2>1. StatsFirst(call[c].k) /\ call[c].pc = "answered"
    BY DEF Answered, StatsFirst, At
  <2>2. Honest(call[c], file[TokenFile].word, seen[call[c].k])
    BY <2>1 DEF AnswerInv, CallsHonest, At
  <2> QED
    BY <2>1, <2>2 DEF Honest
<1> QED
  BY <1>1, AnswersHonest, PTL

-----------------------------------------------------------------------------
(* FileToken implements RenewedWord. *)

\* A behaviour asks one follower, which has not looked before its stat, and a file that
\* is gone holds nothing.
AskedInv ==
  /\ asked \in Followers
  /\ \A c \in Readers : ~At(c, "idle") =>
       /\ call[c].k = asked
       /\ StatsFirst(asked) /\ At(c, "stat") => call[c].stamp[TokenFile] = Never
  /\ \A f \in Files : file[f].stamp = Missing => file[f].word = NoWord

LEMMA AskedInit == Init => AskedInv
<1> SUFFICES ASSUME Init PROVE AskedInv
  OBVIOUS
<1>1. \A c \in Readers : At(c, "idle")
  BY DEF Init, At, Idle
<1>2. \A f \in Files : file[f].stamp = Missing => file[f].word = NoWord
  BY DEF Init, Missing
<1> QED
  BY <1>1, <1>2 DEF Init, AskedInv

LEMMA AskedStep == TypeOK /\ AskedInv /\ [Next]_vars => AskedInv'
<1> SUFFICES ASSUME TypeOK, AskedInv, [Next]_vars PROVE AskedInv'
  OBVIOUS
<1>0. CASE UNCHANGED vars
  BY <1>0 DEF vars, AskedInv, At
<1>1. ASSUME NEW f \in Files, Write(f) \/ Remove(f), asked' = asked PROVE AskedInv'
  <2>1. PICK to \in [stamp : {clock + 1, Missing}, word : Words \cup {NoWord}] :
          Change(f, to) /\ (to.stamp = Missing => to.word = NoWord)
    <3>1. clock + 1 # Missing
      BY BoundsAssumption DEF TypeOK, Missing
    <3>2. CASE Write(f)
      BY <3>1, <3>2 DEF Write
    <3>3. CASE Remove(f)
      BY <3>3 DEF Remove
    <3> QED
      BY <1>1, <3>2, <3>3
  <2>2. file'[f] = to /\ \A g \in Files \ {f} : file'[g] = file[g]
    BY <2>1 DEF Change, TypeOK
  <2>3. ASSUME NEW c \in Readers, ~At(c, "idle")'
        PROVE  ~At(c, "idle") /\ call'[c].k = call[c].k /\ call'[c].pc = call[c].pc
               /\ call'[c].stamp = call[c].stamp
    <3>1. ~At(c, "idle")
      BY <2>1, <2>3 DEF Change, At, Idle
    <3>2. call'[c] = [call[c] EXCEPT !.held = HeldSince(call[c].held, f, to.word)]
      BY <2>1, <3>1 DEF Change, At
    <3> QED
      BY <3>1, <3>2, CallType DEF Calls
  <2> QED
    BY <1>1, <2>1, <2>2, <2>3 DEF AskedInv, At
<1>2. ASSUME NEW c \in Readers, Ask(c), asked' = asked PROVE AskedInv'
  <2>1. file' = file
    BY <1>2, ZenonT(60) DEF Ask, Begin, Stat, Read, ReadFails, CheckMoved, CheckSame, Store, Use, Leave
  <2>2. \A d \in Readers \ {c} : call'[d] = call[d]
    BY <1>2, ZenonT(60) DEF TypeOK, Ask, Begin, Stat, Read, ReadFails, GotFrom, CheckMoved, Go, CheckSame, Store, Use, Leave
  <2>3. ASSUME ~At(c, "idle")'
        PROVE  call'[c].k = asked /\ (StatsFirst(asked) /\ At(c, "stat")' => call'[c].stamp[TokenFile] = Never)
    <3>1. ASSUME NEW k \in Followers, asked = k, Begin(c, k) PROVE <2>3!2
      <4>1. call'[c].k = k /\ call'[c].stamp = None(k)
        BY <3>1 DEF Begin, TypeOK
      <4> QED
        BY <3>1, <4>1, OneFile DEF None
    <3>2. CASE Leave(c)
      BY <2>3, <3>2 DEF Leave, At, Idle, TypeOK
    <3>3. ASSUME ~At(c, "idle"), call'[c].k = call[c].k,
                 StatsFirst(call[c].k) => call'[c].pc # "stat"
          PROVE  <2>3!2
      BY <3>3 DEF AskedInv, At
    <3>4. CASE ~Leave(c) /\ ~\E k \in Followers : asked = k /\ Begin(c, k)
      <4>1. ~At(c, "idle")
        BY <1>2, <3>4 DEF Ask, Stat, Read, ReadFails, CheckMoved, CheckSame, Store, Use, At
      <4>2. call[c] \in Calls(call[c].k) /\ call[c].k \in Followers /\ DOMAIN call = Readers
        BY <4>1, CallType DEF TypeOK
      <4>3. call'[c].k = call[c].k /\ (StatsFirst(call[c].k) => call'[c].pc # "stat")
        <5>1. ASSUME NEW f \in Files, Stat(c, f) PROVE <4>3!1 /\ <4>3!2
          <6>1. call[c].todo \ {f} = {} \/ ~StatsFirst(call[c].k)
            BY <4>2, <5>1, OneFile DEF Stat, Calls
          <6> QED
            BY <4>2, <5>1, <6>1 DEF Stat, Calls
        <5>2. ASSUME NEW f \in Files, Read(c, f) PROVE <4>3!1 /\ <4>3!2
          BY <4>2, <5>2 DEF Read, GotFrom, Calls
        <5>3. ASSUME NEW f \in Files, ReadFails(c, f) PROVE <4>3!1 /\ <4>3!2
          BY <4>2, <5>3 DEF ReadFails, GotFrom, Calls
        <5>4. CASE CheckMoved(c)
          BY <4>2, <5>4 DEF CheckMoved, Go, Calls
        <5>5. CASE CheckSame(c)
          BY <4>2, <5>5 DEF CheckSame, Calls
        <5>6. CASE Store(c)
          BY <4>2, <5>6 DEF Store, Calls
        <5>7. CASE Use(c)
          BY <4>2, <5>7 DEF Use, Calls
        <5> QED
          BY <1>2, <3>4, <5>1, <5>2, <5>3, <5>4, <5>5, <5>6, <5>7 DEF Ask
      <4> QED
        BY <3>3, <4>1, <4>3
    <3> QED
      BY <1>2, <3>1, <3>2, <3>4
  <2> QED
    BY <1>2, <2>1, <2>2, <2>3, SMTT(40) DEF AskedInv, At
<1> QED
  BY <1>0, <1>1, <1>2 DEF Next, FilesChange

\* In a behaviour that asks it, a call's step is one of the thread's.
LEMMA OneAsks ==
  ASSUME TypeOK, asked = "token", asked' = asked, file' = file, NEW c \in Readers, NEW r,
         call' = [call EXCEPT ![c] = r]
  PROVE  /\ RegisterWord' = RegisterWord
         /\ RegisterAsk' = [RegisterAsk EXCEPT ![c] = AskOf(r)]
         /\ RegisterAsk[c] = AskOf(call[c])
<1>1. \A d \in Readers : call'[d] = IF d = c THEN r ELSE call[d]
  BY DEF TypeOK
<1>2. RegisterAsk' = [d \in Readers |-> AskOf(call'[d])] /\ RegisterAsk = [d \in Readers |-> AskOf(call[d])]
  BY DEF RegisterAsk, AskOf, WordIn
<1> QED
  BY <1>1, <1>2 DEF RegisterWord

\* A call that is answered answers what it may.
LEMMA AnswerIsAllowed ==
  ASSUME IInv, AnswerInv', TypeOK', asked = "token", asked' = asked, file' = file,
         NEW c \in Readers, NEW r \in Calls("token"), call' = [call EXCEPT ![c] = r], r.pc = "answered",
         call[c] \in Calls("token"), call[c].pc \in {"check", "store"},
         r.held = call[c].held, r.failed = call[c].failed, r.stamp = call[c].stamp
  PROVE  Register!Answer(c)
<1>1. RegisterWord' = RegisterWord /\ RegisterAsk' = [RegisterAsk EXCEPT ![c] = AskOf(r)]
      /\ RegisterAsk[c] = AskOf(call[c])
  BY OneAsks DEF IInv
<1>2. AskOf(call[c]) = [pc |-> "asking", held |-> call[c].held, failed |-> call[c].failed,
                        missed |-> call[c].stamp[TokenFile] = Missing]
  BY DEF AskOf
<1>3. AskOf(r) = Register!Answered(WordIn(r.answer))
  BY DEF AskOf, Register!Answered
<1>4. call'[c] = r /\ r.k = "token"
  BY DEF IInv, TypeOK, Calls
<1>5. (IF r.answer = NoValue THEN ~r.failed ELSE r.stamp[TokenFile] # Missing) => WordIn(r.answer) \in r.held
  <2>1. Honest(r, file'[TokenFile].word, seen'["token"])
    BY <1>4 DEF AnswerInv, CallsHonest, At, Honest, HasGot, Looked, WordIn
  <2> QED
    BY <1>4, <2>1 DEF Honest, StatsFirst
<1>6. r.answer # NoValue => WordIn(r.answer) \in Words
  <2>1. r.answer \in [{TokenFile} -> Words] \cup {NoValue}
    BY DEF Calls, Values, Watched
  <2> QED
    BY <2>1 DEF WordIn
<1>7. r.answer = NoValue => WordIn(r.answer) = NoWord
  BY DEF WordIn
<1>8. WordIn(r.answer) \in call[c].held \cup (IF call[c].failed THEN {NoWord} ELSE {})
                                        \cup (IF call[c].stamp[TokenFile] = Missing THEN Words ELSE {})
  BY <1>5, <1>6, <1>7
<1>9. WordIn(r.answer) \in RegisterAsk[c].held \cup (IF RegisterAsk[c].failed THEN {NoWord} ELSE {})
                                               \cup (IF RegisterAsk[c].missed THEN Words ELSE {})
  <2>1. RegisterAsk[c].held = call[c].held
    BY <1>1, <1>2
  <2>2. RegisterAsk[c].failed = call[c].failed
    BY <1>1, <1>2
  <2>3. RegisterAsk[c].missed = (call[c].stamp[TokenFile] = Missing)
    BY <1>1, <1>2
  <2> QED
    BY <1>8, <2>1, <2>2, <2>3, Zenon
<1>10. RegisterAsk[c].pc = "asking"
  BY <1>1, <1>2
<1> QED
  BY <1>1, <1>3, <1>9, <1>10 DEF Register!Answer

LEMMA RegisterStep ==
  IInv /\ AnswerInv /\ AskedInv /\ IInv' /\ AnswerInv' /\ [Next]_vars
    => [Register!Next]_<<RegisterWord, RegisterAsk>>
<1> SUFFICES ASSUME IInv, AnswerInv, AskedInv, IInv', AnswerInv', [Next]_vars
             PROVE  [Register!Next]_<<RegisterWord, RegisterAsk>>
  OBVIOUS
<1> USE DEF IInv
<1>1. CASE UNCHANGED vars
  BY <1>1 DEF vars, RegisterWord, RegisterAsk, AskOf, WordIn
<1>2. CASE asked # "token" /\ asked' = asked
  BY <1>2 DEF RegisterWord, RegisterAsk
<1>3. ASSUME asked = "token", asked' = asked, NEW f \in Watched(asked), Write(f) \/ Remove(f)
      PROVE  Register!Renew
  <2>1. f = TokenFile /\ TokenFile \in Files
    BY <1>3, OneFile DEF AskedInv, StatsFirst
  <2>2. PICK to \in [stamp : {clock + 1, Missing}, word : Words \cup {NoWord}] : Change(f, to)
    BY <1>3 DEF Write, Remove
  <2>3. RegisterWord' = to.word /\ to.word \in Words \cup {NoWord}
    BY <1>3, <2>1, <2>2 DEF RegisterWord, Change, TypeOK
  <2>4. ASSUME NEW c \in Readers
        PROVE  AskOf(call'[c]) = IF AskOf(call[c]).pc = "asking"
                                 THEN Register!Asking(AskOf(call[c]).held \cup {to.word}, AskOf(call[c]).failed,
                                                      AskOf(call[c]).missed)
                                 ELSE AskOf(call[c])
    <3>1. CASE At(c, "idle")
      BY <2>2, <3>1 DEF Change, At, AskOf, Idle
    <3>2. CASE ~At(c, "idle")
      <4>1. call'[c] = [call[c] EXCEPT !.held = HeldSince(call[c].held, f, to.word)]
        BY <2>2, <3>2 DEF Change, At
      <4>2. call[c] \in Calls(call[c].k)
        BY <3>2, CallType
      <4>3. call'[c].pc = call[c].pc /\ call'[c].answer = call[c].answer /\ call'[c].failed = call[c].failed
            /\ call'[c].stamp = call[c].stamp /\ call'[c].held = call[c].held \cup {to.word}
        BY <2>1, <4>1, <4>2 DEF Calls, HeldSince
      <4>4. CASE call[c].pc = "answered"
        BY <4>3, <4>4 DEF AskOf
      <4>5. CASE call[c].pc # "answered"
        BY <3>2, <4>3, <4>5 DEF AskOf, At, Register!Asking
      <4> QED
        BY <4>4, <4>5
    <3> QED
      BY <3>1, <3>2
  <2>5. RegisterAsk' = [c \in Readers |-> AskOf(call'[c])] /\ RegisterAsk = [c \in Readers |-> AskOf(call[c])]
    BY <1>3 DEF RegisterAsk, AskOf, WordIn
  <2> QED
    BY <2>3, <2>4, <2>5 DEF Register!Renew
<1>4. ASSUME asked = "token", asked' = asked, NEW c \in Readers, Ask(c)
      PROVE  [Register!Next]_<<RegisterWord, RegisterAsk>>
  <2>0. StatsFirst("token") /\ "token" \in Followers /\ Watched("token") = {TokenFile} /\ TokenFile \in Files
        /\ ~Rereads("token")
    BY <1>4, OneFile DEF AskedInv, StatsFirst
  <2>1. ~At(c, "idle") => call[c].k = "token" /\ call[c] \in Calls("token")
                          /\ RegisterAsk[c] = AskOf(call[c])
    BY <1>4, CallType DEF AskedInv, RegisterAsk
  <2>2. CASE Begin(c, "token")
    <3> DEFINE held == {file[f].word : f \in Files \cap {TokenFile}}
               r == [pc |-> "stat", k |-> "token",
        stamp |-> None("token"), got |-> NoWords("token"), todo |-> Watched("token"),
        answer |-> NoValue, failed |-> FALSE, held |-> held]
    <3>1. call' = [call EXCEPT ![c] = r] /\ file' = file /\ At(c, "idle")
      BY <2>0, <2>2 DEF Begin
    <3>2. held = {RegisterWord}
      BY <1>4, <2>0 DEF RegisterWord
    <3>3. AskOf(r) = Register!Asking({RegisterWord}, FALSE, FALSE)
      <4>1. (None("token")[TokenFile] = Missing) = FALSE
        BY <2>0 DEF None, Never, Missing
      <4>2. AskOf(r) = [pc |-> "asking", held |-> held, failed |-> FALSE, missed |-> None("token")[TokenFile] = Missing]
        BY DEF AskOf
      <4> HIDE DEF held, r
      <4> QED
        BY <3>2, <4>1, <4>2 DEF Register!Asking
    <3>4. RegisterAsk[c].pc = "idle"
      BY <1>4, <3>1 DEF RegisterAsk, AskOf, At, Idle
    <3> HIDE DEF r
    <3>5. Register!Begin(c)
      BY <1>4, <3>1, <3>3, <3>4, OneAsks DEF Register!Begin
    <3> QED
      BY <3>5 DEF Register!Next
  <2>3. ASSUME NEW f \in Files, Stat(c, f) PROVE [Register!Next]_<<RegisterWord, RegisterAsk>>
    <3> DEFINE todo == call[c].todo \ {f}
               r == [call[c] EXCEPT !.stamp[f] = file[f].stamp,
                     !.todo = IF todo = {} THEN Watched("token") ELSE todo,
                     !.pc = IF todo # {} THEN "stat" ELSE IF StatsFirst("token") THEN "check" ELSE "read"]
    <3>1. ~At(c, "idle") /\ call[c].pc = "stat"
      BY <2>3 DEF Stat, At
    <3>2. f = TokenFile /\ call[c].stamp[TokenFile] = Never /\ call[c].stamp \in [{TokenFile} -> Stamps]
      BY <1>4, <2>0, <2>1, <2>3, <3>1 DEF Stat, Calls, AskedInv, At
    <3>3. call' = [call EXCEPT ![c] = r] /\ file' = file
      <4>1. DOMAIN call = Readers
        BY DEF TypeOK
      <4>2. call[c].k = "token"
        BY <2>1, <3>1
      <4> QED
        BY <2>3, <4>1, <4>2 DEF Stat
    <3>4. r.pc \in {"stat", "check", "read"} /\ r.held = call[c].held /\ r.failed = call[c].failed
          /\ r.stamp[TokenFile] = file[TokenFile].stamp
      BY <2>1, <3>1, <3>2 DEF Calls
    <3> HIDE DEF r
    <3>5. AskOf(r) = [pc |-> "asking", held |-> call[c].held, failed |-> call[c].failed,
                      missed |-> file[TokenFile].stamp = Missing]
      BY <3>4 DEF AskOf
    <3>6. AskOf(call[c]) = [pc |-> "asking", held |-> call[c].held, failed |-> call[c].failed, missed |-> FALSE]
      <4>1. (call[c].stamp[TokenFile] = Missing) = FALSE
        BY <3>2 DEF Never, Missing
      <4>2. AskOf(call[c]) = [pc |-> "asking", held |-> call[c].held, failed |-> call[c].failed,
                              missed |-> call[c].stamp[TokenFile] = Missing]
        BY <3>1 DEF AskOf
      <4> QED
        BY <4>1, <4>2
    <3>7. RegisterWord' = RegisterWord /\ RegisterAsk' = [RegisterAsk EXCEPT ![c] = AskOf(r)]
          /\ RegisterAsk[c] = AskOf(call[c])
      BY <1>4, <3>3, OneAsks
    <3>8. CASE file[TokenFile].stamp = Missing
      <4>1. RegisterWord = NoWord
        BY <1>4, <2>0, <3>8 DEF AskedInv, RegisterWord
      <4>2. (file[TokenFile].stamp = Missing) = TRUE
        BY <3>8
      <4>3. AskOf(r) = Register!Asking(RegisterAsk[c].held, RegisterAsk[c].failed, TRUE)
        <5>1. RegisterAsk[c].held = call[c].held /\ RegisterAsk[c].failed = call[c].failed
          BY <3>6, <3>7
        <5> QED
          BY <3>5, <4>2, <5>1 DEF Register!Asking
      <4>4. RegisterAsk[c].pc = "asking"
        BY <3>6, <3>7
      <4>5. Register!Miss(c)
        BY <3>7, <4>1, <4>3, <4>4 DEF Register!Miss
      <4> QED
        BY <4>5 DEF Register!Next
    <3>9. CASE file[TokenFile].stamp # Missing
      <4>1. (file[TokenFile].stamp = Missing) = FALSE
        BY <3>9
      <4>2. AskOf(r) = AskOf(call[c])
        BY <3>5, <3>6, <4>1
      <4> QED
        BY <3>7, <4>2 DEF RegisterAsk
    <3> QED
      BY <3>8, <3>9
  <2>4. CASE CheckMoved(c)
    <3> DEFINE r == [call[c] EXCEPT !.pc = IF StatsFirst("token") THEN "read" ELSE "stat"]
    <3>1. ~At(c, "idle") /\ call[c].pc = "check"
      BY <2>4 DEF CheckMoved, At
    <3>2. call' = [call EXCEPT ![c] = r] /\ file' = file
      BY <2>1, <2>4, <3>1 DEF CheckMoved, Go, TypeOK
    <3>3. r.pc \in {"stat", "read"} /\ r.held = call[c].held /\ r.failed = call[c].failed /\ r.stamp = call[c].stamp
      BY <2>1, <3>1 DEF Calls
    <3> HIDE DEF r
    <3>4. AskOf(r) = AskOf(call[c])
      BY <3>1, <3>3 DEF AskOf
    <3>5. RegisterWord' = RegisterWord /\ RegisterAsk' = [RegisterAsk EXCEPT ![c] = AskOf(r)]
          /\ RegisterAsk[c] = AskOf(call[c])
      BY <1>4, <3>2, OneAsks
    <3> QED
      BY <3>4, <3>5 DEF RegisterAsk
  <2>5. CASE CheckSame(c)
    <3> DEFINE r == [call[c] EXCEPT !.pc = "answered", !.answer = seen["token"].value]
    <3>1. ~At(c, "idle") /\ call[c].pc = "check" /\ seen["token"].value \in Values("token")
      BY <2>0, <2>5 DEF CheckSame, At, TypeOK, Keeps
    <3>2. call' = [call EXCEPT ![c] = r] /\ file' = file
      BY <2>0, <2>1, <2>5, <3>1 DEF CheckSame, TypeOK
    <3>3. r \in Calls("token") /\ r.pc = "answered" /\ r.held = call[c].held /\ r.failed = call[c].failed
          /\ r.stamp = call[c].stamp
      BY <2>1, <3>1 DEF Calls
    <3> HIDE DEF r
    <3>4. Register!Answer(c)
      BY <1>4, <2>1, <3>1, <3>2, <3>3, AnswerIsAllowed
    <3> QED
      BY <3>4 DEF Register!Next
  <2>6. CASE Store(c)
    <3> DEFINE built == Builds(call[c].got)
               kept  == Kept("token", built, call[c].got)
               r     == [call[c] EXCEPT !.pc = "answered", !.answer = kept, !.got = NoWords("token")]
    <3>1. ~At(c, "idle") /\ call[c].pc = "store"
      BY <2>6 DEF Store, At
    <3>2. kept \in Values("token") /\ NoWords("token") \in [Watched("token") -> Words \cup {NoWord}]
      BY <2>1, <3>1 DEF Kept, Builds, Values, Calls, NoWords
    <3>3. call' = [call EXCEPT ![c] = r] /\ file' = file
      BY <2>0, <2>1, <2>6, <3>1 DEF Store, TypeOK
    <3> HIDE DEF kept
    <3>4. r \in Calls("token") /\ r.pc = "answered" /\ r.held = call[c].held /\ r.failed = call[c].failed
          /\ r.stamp = call[c].stamp
      BY <2>1, <3>1, <3>2 DEF Calls
    <3> HIDE DEF r
    <3>5. Register!Answer(c)
      BY <1>4, <2>1, <3>1, <3>3, <3>4, AnswerIsAllowed
    <3> QED
      BY <3>5 DEF Register!Next
  <2>7. CASE Use(c)
    <3>1. call[c].pc # "use"
      <4>1. ~At(c, "idle")
        BY <2>7 DEF Use, At
      <4> QED
        BY <2>0, <2>1, <4>1 DEF AnswerInv, CallsHonest, Honest
    <3> QED
      BY <2>7, <3>1 DEF Use, At
  <2>8. ASSUME NEW f \in Files, Read(c, f) PROVE [Register!Next]_<<RegisterWord, RegisterAsk>>
    <3> DEFINE todo == call[c].todo \ {f}
               r == [call[c] EXCEPT !.got[f] = file[f].word, !.todo = todo,
                     !.pc = IF todo = {} THEN "store" ELSE "read"]
    <3>1. ~At(c, "idle") /\ call[c].pc = "read"
      BY <2>8 DEF Read, At
    <3>2. call' = [call EXCEPT ![c] = r] /\ file' = file
      BY <2>1, <2>8, <3>1 DEF Read, GotFrom, TypeOK
    <3>3. r.pc \in {"store", "read"} /\ r.held = call[c].held /\ r.failed = call[c].failed /\ r.stamp = call[c].stamp
      BY <2>1, <3>1 DEF Calls
    <3> HIDE DEF r
    <3>4. AskOf(r) = AskOf(call[c])
      BY <3>1, <3>3 DEF AskOf
    <3>5. RegisterWord' = RegisterWord /\ RegisterAsk' = [RegisterAsk EXCEPT ![c] = AskOf(r)]
          /\ RegisterAsk[c] = AskOf(call[c])
      BY <1>4, <3>2, OneAsks
    <3> QED
      BY <3>4, <3>5 DEF RegisterAsk
  <2>9. ASSUME NEW f \in Files, ReadFails(c, f) PROVE [Register!Next]_<<RegisterWord, RegisterAsk>>
    <3> DEFINE todo == call[c].todo \ {f}
               r == [call[c] EXCEPT !.got[f] = NoWord, !.todo = todo,
                     !.pc = IF todo = {} THEN "store" ELSE "read", !.failed = TRUE]
    <3>1. ~At(c, "idle") /\ call[c].pc = "read"
      BY <2>9 DEF ReadFails, At
    <3>2. call' = [call EXCEPT ![c] = r] /\ file' = file
      BY <2>1, <2>9, <3>1 DEF ReadFails, GotFrom, TypeOK
    <3>3. r.pc \in {"store", "read"} /\ r.held = call[c].held /\ r.failed = TRUE /\ r.stamp = call[c].stamp
      BY <2>1, <3>1 DEF Calls
    <3> HIDE DEF r
    <3>4. RegisterWord' = RegisterWord /\ RegisterAsk' = [RegisterAsk EXCEPT ![c] = AskOf(r)]
          /\ RegisterAsk[c] = AskOf(call[c])
      BY <1>4, <3>2, OneAsks
    <3>5. AskOf(call[c]) = [pc |-> "asking", held |-> call[c].held, failed |-> call[c].failed,
                            missed |-> call[c].stamp[TokenFile] = Missing]
      BY <3>1 DEF AskOf
    <3>6. AskOf(r) = Register!Asking(RegisterAsk[c].held, TRUE, RegisterAsk[c].missed)
      <4>1. RegisterAsk[c].held = call[c].held
        BY <3>4, <3>5
      <4>2. RegisterAsk[c].missed = (call[c].stamp[TokenFile] = Missing)
        BY <3>4, <3>5
      <4>3. AskOf(r) = [pc |-> "asking", held |-> call[c].held, failed |-> TRUE,
                        missed |-> call[c].stamp[TokenFile] = Missing]
        BY <3>3 DEF AskOf
      <4> QED
        BY <4>1, <4>2, <4>3 DEF Register!Asking
    <3>7. RegisterAsk[c].pc = "asking"
      BY <3>4, <3>5
    <3>8. Register!Fault(c)
      BY <3>4, <3>6, <3>7 DEF Register!Fault
    <3> QED
      BY <3>8 DEF Register!Next
  <2>10. CASE Leave(c)
    <3>1. call' = [call EXCEPT ![c] = Idle] /\ file' = file /\ call[c].pc = "answered"
      BY <2>10 DEF Leave, At
    <3>2. AskOf(Idle) = Register!Idle /\ RegisterAsk[c].pc = "answered"
      BY <1>4, <3>1 DEF AskOf, Idle, Register!Idle, RegisterAsk
    <3>3. Register!Leave(c)
      BY <1>4, <3>1, <3>2, OneAsks DEF Register!Leave
    <3> QED
      BY <3>3 DEF Register!Next
  <2> QED
    BY <1>4, <2>2, <2>3, <2>4, <2>5, <2>6, <2>7, <2>8, <2>9, <2>10 DEF Ask
<1> QED
  BY <1>1, <1>2, <1>3, <1>4 DEF Next, FilesChange, Register!Next

\* FileToken implements RenewedWord: each of its steps is a step of the threads that ask
\* for the word, or none.
THEOREM TokenImplementsRegister == Spec => TokenIsRegister
<1>1. Init => Register!Init
  <2> SUFFICES ASSUME Init PROVE Register!Init
    OBVIOUS
  <2>1. RegisterAsk = [c \in Readers |-> Register!Idle]
    BY DEF Init, RegisterAsk, AskOf, Idle, Register!Idle
  <2>2. RegisterWord \in Words \cup {NoWord}
    <3>1. CASE asked = "token"
      <4>1. TokenFile \in Files
        BY <3>1, OneFile DEF Init, StatsFirst
      <4> QED
        BY <3>1, <4>1 DEF Init, RegisterWord
    <3>2. CASE asked # "token"
      BY <3>2 DEF RegisterWord
    <3> QED
      BY <3>1, <3>2
  <2> QED
    BY <2>1, <2>2 DEF Register!Init
<1>2. TypeOK /\ AskedInv /\ [Next]_vars => AskedInv'
  BY AskedStep
<1>3. IInv => TypeOK
  BY DEF IInv
<1>4. Spec => []AskedInv
  BY <1>2, AskedInit, TypeCorrect, PTL DEF Spec
<1> QED
  BY <1>1, <1>4, AnswersHonest, RegisterStep, PTL DEF Spec, TokenIsRegister, Register!Spec

=============================================================================
