------------------------- MODULE CacheToPageProofs -------------------------
(***************************************************************************)
(* What the prover shows of the way from the apiserver to a page and back: *)
(* the watch cache, for any keys, revisions and channel capacity; the feed *)
(* as it is pushed, for any number of pages and frames; the pages that     *)
(* edit a machine's definition or choose its root disk, for any number of  *)
(* requests, images and names; and what the other pages offer, hide and    *)
(* say, in every state their caches can be in.                             *)
(***************************************************************************)
EXTENDS WatchCache, FeedPush, MCPages, SequenceTheorems, FiniteSetTheorems, TLAPS

-----------------------------------------------------------------------------
(* The inductive invariant's parts. *)

\* A revision leaves what the one before it left, but for the key it wrote.
LogSteps ==
  \A r \in 1..Rev :
    log[r].objects = [At(r - 1) EXCEPT ![log[r].key] = IF log[r].type = "DELETED" THEN 0 ELSE r]

\* What revision v wrote to is gone, or no older than v, at any later revision.
NeverOlder ==
  \A a \in 0..Rev : \A v \in 1..a :
    At(a)[log[v].key] = 0 \/ At(a)[log[v].key] >= v

\* The channel holds the events after the applied revision, in order; it holds
\* something only while the stream is open or drained, when the kind is held.
ChannelInOrder ==
  /\ Len(chan) <= cursor
  /\ \A i \in 1..Len(chan) : chan[i] = Event(Applied + i)
  /\ chan # <<>> => pc \in {"watch", "drain"}
  /\ pc \in {"watch", "drain", "replace_synced", "replace_absent"} => present

\* A response in flight is of a write the console made.
ResponsesOwn == \A v \in responses : log[v].by = "console"

IInv == TypeOK /\ LogSteps /\ NeverOlder /\ ChannelInOrder /\ ResponsesOwn /\ ConsistentSnapshot

-----------------------------------------------------------------------------
\* What the server held at a revision it has reached is a map of the keys.
LEMMA AtType ==
  ASSUME TypeOK, NEW r \in 0..Rev
  PROVE  At(r) \in [Keys -> Revs]
<1>1. CASE r = 0
  BY <1>1, ConstantsAssumption DEF At, Nothing, Revs
<1>2. CASE r # 0
  <2>1. r \in 1..Len(log) /\ log \in Seq(Entry)
    BY <1>2 DEF TypeOK, Rev, Revs
  <2>2. log[r] \in Entry
    BY <2>1
  <2> QED
    BY <1>2, <2>2 DEF At, Entry
<1> QED
  BY <1>1, <1>2

\* A commit adds a well-formed entry and changes no earlier one.
LEMMA CommitType ==
  ASSUME TypeOK, NEW k \in Keys, NEW t \in EventType, NEW by \in {"console", "other"},
         Rev < MaxRev, Commit(k, t, by)
  PROVE  /\ log' \in Seq(Entry)
         /\ Rev' = Rev + 1
         /\ Rev' \in Revs
         /\ \A r \in 1..Rev : log'[r] = log[r]
         /\ log'[Rev + 1] = [key |-> k, type |-> t, by |-> by,
              objects |-> [At(Rev) EXCEPT ![k] = IF t = "DELETED" THEN 0 ELSE Rev + 1]]
         /\ \A r \in 0..Rev : At(r)' = At(r)
         /\ \A r : r = Rev + 1 => At(r)' = [At(Rev) EXCEPT ![k] = IF t = "DELETED" THEN 0 ELSE Rev + 1]
<1> DEFINE objs == [At(Rev) EXCEPT ![k] = IF t = "DELETED" THEN 0 ELSE Rev + 1]
           e    == [key |-> k, type |-> t, by |-> by, objects |-> objs]
<1>1. Rev \in Nat /\ log \in Seq(Entry) /\ Rev + 1 \in Revs
  BY ConstantsAssumption DEF TypeOK, Rev, Revs
<1>2. At(Rev) \in [Keys -> Revs]
  BY AtType, <1>1
<1>3. objs \in [Keys -> Revs]
  BY <1>1, <1>2, ConstantsAssumption DEF Revs
<1>4. e \in Entry
  BY <1>3 DEF Entry
<1>5. log' = Append(log, e)
  BY DEF Commit
<1> HIDE DEF e, objs
<1>6. log' \in Seq(Entry) /\ Len(log') = Len(log) + 1
      /\ log'[Len(log) + 1] = e /\ \A r \in 1..Len(log) : log'[r] = log[r]
  BY <1>1, <1>4, <1>5 DEF Rev
<1>7. \A r \in 0..Rev : At(r)' = At(r)
  BY <1>1, <1>6 DEF At, Rev, Nothing
<1>8. \A r : r = Rev + 1 => At(r)' = objs
  BY <1>1, <1>6 DEF At, Rev, e
<1> QED
  BY <1>1, <1>6, <1>7, <1>8 DEF Rev, e, objs

-----------------------------------------------------------------------------
\* TypeOK is inductive on its own.
LEMMA TypeInit == Init => TypeOK
<1> SUFFICES ASSUME Init PROVE TypeOK
  OBVIOUS
<1>1. log \in Seq(Entry) /\ Rev = 0 /\ Rev \in Revs
  BY ConstantsAssumption DEF Init, Rev, Revs
<1>2. chan \in Seq([type : EventType, key : Keys, rev : Revs]) /\ Len(chan) <= ChanCap
  BY ConstantsAssumption DEF Init
<1>3. objects \in [Keys -> Revs]
  BY ConstantsAssumption DEF Init, Nothing, Revs
<1>4. served \in BOOLEAN
  BY ConstantsAssumption DEF Init
<1>5. responses \in SUBSET (1..Rev) /\ listRev \in 0..Rev /\ cursor \in 0..Rev
  BY <1>1 DEF Init
<1>6. pc \in Locations /\ backoff \in {1, 2, 4, 8, 16, 30, 60}
  BY DEF Init, Locations
<1> QED
  BY <1>1, <1>2, <1>3, <1>4, <1>5, <1>6 DEF Init, TypeOK

LEMMA TypeStep == TypeOK /\ [Next]_vars => TypeOK'
<1> SUFFICES ASSUME TypeOK, [Next]_vars PROVE TypeOK'
  OBVIOUS
<1> USE ConstantsAssumption
<1>c. ASSUME NEW k \in Keys, NEW t \in EventType, NEW by \in {"console", "other"},
             Rev < MaxRev, Commit(k, t, by),
             responses' \in SUBSET (1..(Rev + 1)),
             UNCHANGED <<served, cancelled, loop, chan, store>>
      PROVE  TypeOK'
  <2>1. log' \in Seq(Entry) /\ Rev' = Rev + 1 /\ Rev' \in Revs
    BY <1>c, CommitType
  <2> QED
    BY <1>c, <2>1 DEF TypeOK, loop, store, Revs
<1>1. ASSUME NEW k \in Keys, NEW by \in {"console", "other"}, ServerPut(k, by)
      PROVE  TypeOK'
  <2> DEFINE t == IF At(Rev)[k] = 0 THEN "ADDED" ELSE "MODIFIED"
  <2>1. t \in EventType
    BY DEF EventType
  <2>2. Rev < MaxRev /\ Commit(k, t, by) /\ UNCHANGED <<served, cancelled, loop, chan, store>>
    BY <1>1 DEF ServerPut
  <2>3. responses' \in SUBSET (1..(Rev + 1))
    BY <1>1 DEF ServerPut, TypeOK, Revs
  <2> QED
    BY <1>c, <2>1, <2>2, <2>3
<1>2. ASSUME NEW k \in Keys, ServerDelete(k)
      PROVE  TypeOK'
  <2>1. responses' \in SUBSET (1..(Rev + 1))
    BY <1>2 DEF ServerDelete, TypeOK, Revs
  <2>2. Rev < MaxRev /\ Commit(k, "DELETED", "other") /\ UNCHANGED <<served, cancelled, loop, chan, store>>
    BY <1>2 DEF ServerDelete
  <2> QED
    BY <1>c, <2>1, <2>2 DEF EventType
<1>20. CASE ServerInstall
  BY <1>20 DEF ServerInstall, TypeOK, Rev, loop, store
<1>21. CASE ServerUninstall
  BY <1>21 DEF ServerUninstall, TypeOK, Rev, loop, store
<1>22. CASE Cancel
  BY <1>22 DEF Cancel, TypeOK, Rev, loop, store, server
<1>23. CASE Stop
  BY <1>23 DEF Stop, TypeOK, Rev, Locations, store, server
<1>24. CASE SendList
  BY <1>24 DEF SendList, TypeOK, Rev, Locations, store, server
<1>25. CASE ListAnswered
  BY <1>25 DEF ListAnswered, TypeOK, Rev, Revs, Locations, store, server
<1>26. CASE ListMissing
  BY <1>26 DEF ListMissing, TypeOK, Rev, Locations, store, server
<1>27. CASE DrainedAtShutdown
  BY <1>27 DEF DrainedAtShutdown, ApplierDone, TypeOK, Rev, Locations, store, server
<1>28. CASE Wake
  BY <1>28 DEF Wake, TypeOK, Rev, Locations, store, server
<1>29. CASE StreamEnds
  BY <1>29 DEF StreamEnds, TypeOK, Rev, Locations, store, server
<1>30. CASE ReplaceSynced
  BY <1>30 DEF ReplaceSynced, TypeOK, Rev, Locations, store, server
<1>31. CASE ReplaceAbsent
  BY <1>31 DEF ReplaceAbsent, TypeOK, Rev, Locations, store, server
<1>32. CASE AbsentSynced
  BY <1>32 DEF AbsentSynced, TypeOK, Rev, Locations, store, server
<1>33. CASE AbsentAbsent
  BY <1>33 DEF AbsentAbsent, TypeOK, Rev, Locations, store, server
<1>34. CASE ListFailed
  <2>1. backoff' \in {1, 2, 4, 8, 16, 30, 60}
    BY <1>34 DEF ListFailed, TypeOK
  <2> QED
    BY <1>34, <2>1 DEF ListFailed, TypeOK, Rev, Locations, store, server
<1>35. CASE Drained
  BY <1>35 DEF Drained, ApplierDone, TypeOK, Rev, Locations, store, server
<1>36. CASE AbsentObjects
  <2>1. Nothing \in [Keys -> Revs]
    BY DEF Nothing, Revs
  <2> QED
    BY <1>36, <2>1 DEF AbsentObjects, TypeOK, Rev, Locations, server
<1>5. CASE ReplaceObjects
  BY <1>5, AtType DEF ReplaceObjects, TypeOK, Rev, Revs, Locations, server
<1>7. CASE StreamEvent
  <2>1. cursor + 1 \in 1..Rev /\ cursor + 1 \in Revs
    BY <1>7 DEF StreamEvent, TypeOK, Rev, Revs
  <2>2. log[cursor + 1] \in Entry
    BY <2>1 DEF TypeOK, Rev
  <2>3. Event(cursor + 1) \in [type : EventType, key : Keys, rev : Revs]
    BY <2>1, <2>2 DEF Event, Entry
  <2>4. chan' \in Seq([type : EventType, key : Keys, rev : Revs]) /\ Len(chan') <= ChanCap
    BY <1>7, <2>3 DEF StreamEvent, TypeOK
  <2> QED
    BY <1>7, <2>1, <2>4 DEF StreamEvent, TypeOK, Rev, Revs, store, server
<1>8. CASE Apply
  <2>1. Head(chan) \in [type : EventType, key : Keys, rev : Revs]
    <3>1. chan \in Seq([type : EventType, key : Keys, rev : Revs]) /\ chan # <<>>
      BY <1>8 DEF Apply, TypeOK
    <3> QED
      BY <3>1, HeadTailProperties
  <2>2. chan' \in Seq([type : EventType, key : Keys, rev : Revs]) /\ Len(chan') <= ChanCap
    BY <1>8 DEF Apply, TypeOK
  <2>3. objects' \in [Keys -> Revs]
    BY <1>8, <2>1 DEF Apply, TypeOK, Revs
  <2> QED
    BY <1>8, <2>2, <2>3 DEF Apply, TypeOK, Rev, loop, server
<1>9. ASSUME NEW v \in responses, Observe(v)
      PROVE  TypeOK'
  <2>1. v \in Revs
    BY <1>9 DEF TypeOK, Rev, Revs
  <2>2. objects' = objects \/ objects' = [objects EXCEPT ![log[v].key] = v]
    BY <1>9 DEF Observe, Observed
  <2>3. objects' \in [Keys -> Revs]
    BY <2>1, <2>2 DEF TypeOK
  <2> QED
    BY <1>9, <2>3 DEF Observe, TypeOK, Rev, loop, server
<1>10. ASSUME NEW v \in responses, LoseResponse(v)
       PROVE  TypeOK'
  BY <1>10 DEF LoseResponse, TypeOK, Rev, loop, store, server
<1>11. CASE UNCHANGED vars
  BY <1>11 DEF vars, TypeOK, Rev
<1> QED
  BY <1>1, <1>2, <1>5, <1>7, <1>8, <1>9, <1>10, <1>11,
     <1>20, <1>21, <1>22, <1>23, <1>24, <1>25, <1>26, <1>27, <1>28, <1>29, <1>30, <1>31, <1>32, <1>33, <1>34, <1>35, <1>36
     DEF Next, Server, Loop, Writer

\* Type correctness of the cache: among others, the channel stays within its
\* capacity and every revision the loop holds is one the server has reached.
THEOREM TypeCorrect == Spec => []TypeOK
BY TypeInit, TypeStep, PTL DEF Spec

-----------------------------------------------------------------------------
\* A step either leaves the log alone or commits one write to it.
LEMMA LogMoves ==
  ASSUME [Next]_vars
  PROVE  \/ log' = log
         \/ /\ Rev < MaxRev
            /\ UNCHANGED <<served, cancelled, loop, chan, store>>
            /\ \E k \in Keys, t \in EventType, by \in {"console", "other"} :
                 /\ Commit(k, t, by)
                 /\ responses' = responses \/ (by = "console" /\ responses' = responses \cup {Rev + 1})
<1>1. ASSUME NEW k \in Keys, NEW by \in {"console", "other"}, ServerPut(k, by)
      PROVE  /\ Rev < MaxRev
             /\ UNCHANGED <<served, cancelled, loop, chan, store>>
             /\ \E t \in EventType :
                  /\ Commit(k, t, by)
                  /\ responses' = responses \/ (by = "console" /\ responses' = responses \cup {Rev + 1})
  <2> DEFINE t == IF At(Rev)[k] = 0 THEN "ADDED" ELSE "MODIFIED"
  <2>1. t \in EventType
    BY DEF EventType
  <2>2. Commit(k, t, by)
    BY <1>1 DEF ServerPut
  <2> HIDE DEF t
  <2> QED
    BY <1>1, <2>1, <2>2 DEF ServerPut
<1>2. ASSUME NEW k \in Keys, ServerDelete(k)
      PROVE  /\ Rev < MaxRev
             /\ UNCHANGED <<served, cancelled, loop, chan, store>>
             /\ Commit(k, "DELETED", "other")
             /\ responses' = responses
  BY <1>2 DEF ServerDelete
<1>3. CASE ServerInstall \/ ServerUninstall \/ Cancel \/ Loop \/ Apply \/ Writer \/ UNCHANGED vars
  BY <1>3 DEF ServerInstall, ServerUninstall, Cancel, Loop, Apply, Writer, vars, server,
       Stop, SendList, ListAnswered, ListMissing, ListFailed, ReplaceObjects, ReplaceSynced,
       ReplaceAbsent, AbsentObjects, AbsentSynced, AbsentAbsent, StreamEvent, StreamEnds,
       Drained, DrainedAtShutdown, Wake, Observe, LoseResponse
<1>4. "DELETED" \in EventType /\ "other" \in {"console", "other"}
  BY DEF EventType
<1> QED
  BY <1>1, <1>2, <1>3, <1>4 DEF Next, Server

\* The log is only added to: what the server held at a revision stays.
LEMMA LogKept ==
  ASSUME TypeOK, [Next]_vars
  PROVE  /\ Rev' \in {Rev, Rev + 1}
         /\ \A r \in 1..Rev : log'[r] = log[r]
         /\ \A r \in 0..Rev : At(r)' = At(r)
<1>1. CASE log' = log
  BY <1>1 DEF Rev, At, Nothing
<1>2. CASE log' # log
  BY <1>2, LogMoves, CommitType
<1> QED
  BY <1>1, <1>2

\* Among the log's invariants, what a step adds to the log continues it.
LEMMA LogStep ==
  ASSUME TypeOK, TypeOK', LogSteps, NeverOlder, [Next]_vars
  PROVE  LogSteps' /\ NeverOlder'
<1>1. CASE log' = log
  BY <1>1 DEF LogSteps, NeverOlder, Rev, At, Nothing
<1>2. CASE log' # log
  <2>1. PICK k \in Keys, t \in EventType, by \in {"console", "other"} : Commit(k, t, by)
    BY <1>2, LogMoves
  <2>2. Rev < MaxRev
    BY <1>2, LogMoves
  <2> DEFINE objs == [At(Rev) EXCEPT ![k] = IF t = "DELETED" THEN 0 ELSE Rev + 1]
  <2>3. /\ Rev' = Rev + 1
        /\ \A r \in 1..Rev : log'[r] = log[r]
        /\ log'[Rev + 1] = [key |-> k, type |-> t, by |-> by, objects |-> objs]
        /\ \A r \in 0..Rev : At(r)' = At(r)
        /\ \A r : r = Rev + 1 => At(r)' = objs
    BY <2>1, <2>2, CommitType, ZenonT(40)
  <2>4. Rev \in Nat /\ At(Rev) \in [Keys -> Revs]
    BY AtType DEF TypeOK, Revs
  <2>5. LogSteps'
    <3> SUFFICES ASSUME NEW r \in 1..Rev'
                 PROVE  log'[r].objects =
                          [At(r - 1)' EXCEPT ![log'[r].key] = IF log'[r].type = "DELETED" THEN 0 ELSE r]
      BY DEF LogSteps
    <3>1. CASE r \in 1..Rev
      <4>1. log'[r] = log[r] /\ r - 1 \in 0..Rev
        BY <3>1, <2>3, <2>4
      <4>2. At(r - 1)' = At(r - 1)
        BY <4>1, <2>3
      <4> QED
        BY <3>1, <4>1, <4>2 DEF LogSteps
    <3>2. CASE r = Rev + 1
      <4>1. r - 1 = Rev /\ r - 1 \in 0..Rev
        BY <3>2, <2>4
      <4>2. At(r - 1)' = At(Rev)
        BY <4>1, <2>3
      <4>3. log'[r].objects = objs /\ log'[r].key = k /\ log'[r].type = t
        BY <3>2, <2>3
      <4> QED
        BY <3>2, <4>2, <4>3
    <3> QED
      BY <3>1, <3>2, <2>3, <2>4
  <2>6. NeverOlder'
    <3> SUFFICES ASSUME NEW a \in 0..Rev', NEW v \in 1..a
                 PROVE  At(a)'[log'[v].key] = 0 \/ At(a)'[log'[v].key] >= v
      BY DEF NeverOlder
    <3>1. CASE a \in 0..Rev
      <4>1. log'[v] = log[v] /\ At(a)' = At(a)
        BY <3>1, <2>3, <2>4
      <4> QED
        BY <3>1, <4>1 DEF NeverOlder
    <3>2. CASE a = Rev + 1
      <4>1. At(a)' = objs
        BY <3>2, <2>3
      <4>2. CASE log'[v].key = k
        <5>1. objs[k] = 0 \/ objs[k] = Rev + 1
          BY <2>4
        <5> QED
          BY <4>1, <4>2, <5>1, <3>2, <2>4
      <4>3. CASE log'[v].key # k
        <5>1. v \in 1..Rev
          BY <4>3, <3>2, <2>3, <2>4
        <5>2. log'[v] = log[v]
          BY <5>1, <2>3
        <5>3. log[v].key \in Keys
          <6>1. log[v] \in Entry
            BY <5>1 DEF TypeOK, Rev
          <6> QED
            BY <6>1 DEF Entry
        <5>4. At(Rev)[log[v].key] = 0 \/ At(Rev)[log[v].key] >= v
          BY <5>1, <2>4 DEF NeverOlder
        <5>5. objs[log[v].key] = At(Rev)[log[v].key]
          BY <5>2, <5>3, <4>3, <2>4
        <5> QED
          BY <4>1, <5>2, <5>4, <5>5
      <4> QED
        BY <4>2, <4>3
    <3> QED
      BY <3>1, <3>2, <2>3, <2>4
  <2> QED
    BY <2>5, <2>6
<1> QED
  BY <1>1, <1>2

-----------------------------------------------------------------------------
\* The channel's events are those after the applied revision, in order.
LEMMA ChannelStep ==
  ASSUME TypeOK, TypeOK', ChannelInOrder, [Next]_vars
  PROVE  ChannelInOrder'
<1>0. /\ Len(chan) \in Nat /\ cursor \in Nat /\ Rev \in Nat
      /\ \A r \in 1..Rev : log'[r] = log[r]
      /\ Len(chan) <= cursor /\ cursor <= Rev
  <2>1. Len(chan) \in Nat /\ cursor \in Nat /\ Rev \in Nat /\ cursor <= Rev
    BY DEF TypeOK, Rev, Revs
  <2>2. \A r \in 1..Rev : log'[r] = log[r]
    BY LogKept
  <2>3. Len(chan) <= cursor
    BY DEF ChannelInOrder
  <2> QED
    BY <2>1, <2>2, <2>3
<1>k. ASSUME chan' = chan, cursor' = cursor \/ (chan = <<>> /\ cursor' \in Nat),
             chan # <<>> => pc' \in {"watch", "drain"},
             pc' \in {"watch", "drain", "replace_synced", "replace_absent"} => present'
      PROVE  ChannelInOrder'
  <2>1. \A i \in 1..Len(chan) : Applied' = Applied /\ Event(Applied + i)' = Event(Applied + i)
    <3> SUFFICES ASSUME NEW i \in 1..Len(chan)
                 PROVE  Applied' = Applied /\ Event(Applied + i)' = Event(Applied + i)
      OBVIOUS
    <3>1. Applied' = Applied /\ Applied + i \in 1..Rev
      BY <1>0, <1>k DEF Applied
    <3> QED
      BY <3>1, <1>0 DEF Event
  <2> QED
    BY <1>0, <1>k, <2>1 DEF ChannelInOrder
<1>1. CASE Server \/ Cancel \/ Writer \/ UNCHANGED vars
  BY <1>1, <1>k DEF Server, ServerPut, ServerDelete, ServerInstall, ServerUninstall, Cancel, Writer,
       Observe, LoseResponse, vars, loop, store, server, ChannelInOrder
<1>2. CASE Stop \/ SendList \/ ListAnswered \/ ListMissing \/ ListFailed \/ ReplaceSynced
           \/ ReplaceAbsent \/ AbsentSynced \/ AbsentAbsent \/ StreamEnds \/ Drained
           \/ DrainedAtShutdown \/ Wake
  BY <1>2, <1>k DEF Stop, SendList, ListAnswered, ListMissing, ListFailed, ReplaceSynced,
       ReplaceAbsent, AbsentSynced, AbsentAbsent, StreamEnds, Drained, DrainedAtShutdown, Wake,
       ApplierDone, store, server, ChannelInOrder
<1>3. CASE ReplaceObjects
  <2>1. chan = <<>> /\ cursor' \in Nat /\ present'
    BY <1>3 DEF ReplaceObjects, ChannelInOrder, TypeOK, Rev, Revs
  <2> QED
    BY <1>3, <1>k, <2>1 DEF ReplaceObjects
<1>4. CASE AbsentObjects
  BY <1>4, <1>k DEF AbsentObjects, ChannelInOrder
<1>5. CASE StreamEvent
  <2>1. /\ Len(chan') = Len(chan) + 1
        /\ chan'[Len(chan) + 1] = Event(cursor + 1)
        /\ \A i \in 1..Len(chan) : chan'[i] = chan[i]
    BY <1>5 DEF StreamEvent, TypeOK
  <2>2. Applied' = Applied /\ log' = log /\ cursor' = cursor + 1
    BY <1>5, <1>0, <2>1 DEF StreamEvent, Applied, server
  <2>3. ASSUME NEW i \in 1..Len(chan')
        PROVE  chan'[i] = Event(Applied + i)
    <3>1. CASE i \in 1..Len(chan)
      BY <3>1, <2>1 DEF ChannelInOrder
    <3>2. CASE i = Len(chan) + 1
      BY <3>2, <2>1, <1>0 DEF Applied
    <3> QED
      BY <2>1, <3>1, <3>2, <1>0
  <2>4. \A i : Event(Applied + i)' = Event(Applied + i)
    BY <2>2 DEF Event
  <2> QED
    BY <1>5, <1>0, <2>1, <2>2, <2>3, <2>4 DEF StreamEvent, ChannelInOrder, store
<1>6. CASE Apply
  <2>1. /\ Len(chan') = Len(chan) - 1
        /\ \A i \in 1..Len(chan') : chan'[i] = chan[i + 1]
    BY <1>6, HeadTailProperties DEF Apply, TypeOK
  <2>2. Applied' = Applied + 1 /\ log' = log /\ cursor' = cursor
    BY <1>6, <1>0, <2>1 DEF Apply, Applied, server, loop
  <2>3. \A i \in 1..Len(chan') : chan'[i] = Event(Applied + 1 + i)
    <3> SUFFICES ASSUME NEW i \in 1..Len(chan')
                 PROVE  chan'[i] = Event(Applied + 1 + i)
      OBVIOUS
    <3>1. i + 1 \in 1..Len(chan) /\ chan'[i] = chan[i + 1]
      BY <2>1, <1>0
    <3>2. chan[i + 1] = Event(Applied + (i + 1))
      BY <3>1 DEF ChannelInOrder
    <3>3. Applied + (i + 1) = Applied + 1 + i
      BY <1>0 DEF Applied
    <3> QED
      BY <3>1, <3>2, <3>3
  <2>4. \A i : Event(Applied + i)' = Event(Applied + 1 + i)
    BY <2>2 DEF Event
  <2> QED
    BY <1>6, <1>0, <2>1, <2>2, <2>3, <2>4 DEF Apply, ChannelInOrder, loop
<1> QED
  BY <1>1, <1>2, <1>3, <1>4, <1>5, <1>6 DEF Next, Loop

\* What waits to be observed is the console's own.
LEMMA ResponsesStep ==
  ASSUME TypeOK, ResponsesOwn, [Next]_vars
  PROVE  ResponsesOwn'
<1>0. Rev \in Nat /\ responses \in SUBSET (1..Rev)
  BY DEF TypeOK, Revs
<1>1. CASE log' = log
  <2>1. ASSUME NEW k \in Keys, NEW t, NEW by, Commit(k, t, by) PROVE FALSE
    <3>1. Len(log') = Len(log) + 1
      BY <2>1 DEF Commit, TypeOK
    <3> QED
      BY <3>1, <1>1, <1>0 DEF Rev
  <2>2. ~Server \/ responses' = responses
    BY <2>1 DEF Server, ServerPut, ServerDelete, ServerInstall, ServerUninstall
  <2>3. responses' \subseteq responses
    BY <2>2 DEF Next, Cancel, Loop, Apply, Writer, vars, server,
       Stop, SendList, ListAnswered, ListMissing, ListFailed, ReplaceObjects, ReplaceSynced,
       ReplaceAbsent, AbsentObjects, AbsentSynced, AbsentAbsent, StreamEvent, StreamEnds,
       Drained, DrainedAtShutdown, Wake, Observe, LoseResponse
  <2> QED
    BY <1>1, <2>3 DEF ResponsesOwn
<1>2. CASE log' # log
  <2>1. PICK k \in Keys, t \in EventType, by \in {"console", "other"} :
          /\ Commit(k, t, by)
          /\ responses' = responses \/ (by = "console" /\ responses' = responses \cup {Rev + 1})
    BY <1>2, LogMoves
  <2>2. Rev < MaxRev
    BY <1>2, LogMoves
  <2>3. \A r \in 1..Rev : log'[r] = log[r]
    BY <2>1, <2>2, CommitType
  <2>4. log'[Rev + 1].by = by
    <3>1. log'[Rev + 1] = [key |-> k, type |-> t, by |-> by,
            objects |-> [At(Rev) EXCEPT ![k] = IF t = "DELETED" THEN 0 ELSE Rev + 1]]
      BY <2>1, <2>2, CommitType, ZenonT(40)
    <3> QED
      BY <3>1
  <2>5. ASSUME NEW v \in responses' PROVE log'[v].by = "console"
    <3>1. CASE v \in responses
      BY <3>1, <1>0, <2>3 DEF ResponsesOwn
    <3>2. CASE v \notin responses
      <4>1. v = Rev + 1 /\ by = "console"
        BY <3>2, <2>1, <2>5
      <4> QED
        BY <4>1, <2>4
    <3> QED
      BY <3>1, <3>2
  <2> QED
    BY <2>5 DEF ResponsesOwn
<1> QED
  BY <1>1, <1>2

-----------------------------------------------------------------------------
\* The step that makes the snapshot advance: applying an event takes every key
\* from the applied revision to the next.
LEMMA ApplySnapshot ==
  ASSUME TypeOK, LogSteps, ChannelInOrder, ConsistentSnapshot, Apply
  PROVE  ConsistentSnapshot'
<1> DEFINE a == Applied + 1
<1>1. /\ Len(chan) \in Nat \ {0} /\ cursor \in Nat /\ Rev \in Nat /\ cursor <= Rev
      /\ Len(chan) <= cursor
      /\ Len(chan') = Len(chan) - 1
      /\ Head(chan) = chan[1]
  BY HeadTailProperties DEF Apply, TypeOK, Rev, Revs, ChannelInOrder
<1>2. a \in 1..Rev /\ Applied \in 0..Rev /\ a - 1 = Applied
  BY <1>1 DEF Applied
<1>3. Applied' = a /\ log' = log /\ present
  BY <1>1 DEF Apply, Applied, server, loop, ChannelInOrder
<1>4. Head(chan) = Event(a)
  BY <1>1 DEF ChannelInOrder
<1> DEFINE e == log[a]
           left == IF e.type = "DELETED" THEN 0 ELSE a
<1>5. objects' = [objects EXCEPT ![e.key] = left]
  <2>1. Head(chan).type = e.type /\ Head(chan).key = e.key /\ Head(chan).rev = a
    BY <1>4 DEF Event
  <2> HIDE DEF e, a
  <2> QED
    BY <2>1 DEF Apply
<1>6. At(a) = [At(Applied) EXCEPT ![e.key] = left]
  <2>1. log[a].objects = [At(a - 1) EXCEPT ![log[a].key] = IF log[a].type = "DELETED" THEN 0 ELSE a]
    BY <1>2 DEF LogSteps
  <2>2. At(a) = log[a].objects /\ At(a - 1) = At(Applied)
    BY <1>2 DEF At
  <2> QED
    BY <2>1, <2>2
<1>7. At(Applied) \in [Keys -> Revs] /\ objects \in [Keys -> Revs]
  BY <1>2, AtType DEF TypeOK
<1>8. \A r : At(r)' = At(r)
  BY <1>3 DEF At, Nothing
<1>9. At(Applied)' = At(a)
  BY <1>3, <1>8 DEF At
<1> SUFFICES ASSUME NEW k \in Keys
             PROVE  objects'[k] = At(Applied)'[k] \/ ConsoleWrote(k, objects[k])'
  BY <1>3 DEF ConsistentSnapshot
<1> HIDE DEF a, left
<1>10. CASE k = e.key
  BY <1>5, <1>6, <1>7, <1>9, <1>10
<1>11. CASE k # e.key
  <2>1. objects'[k] = objects[k] /\ At(a)[k] = At(Applied)[k]
    BY <1>5, <1>6, <1>7, <1>11
  <2>2. CASE objects[k] = At(Applied)[k]
    BY <2>1, <2>2, <1>9
  <2>3. CASE ConsoleWrote(k, objects[k])
    <3> DEFINE v == objects[k]
    <3>1. /\ v \in 1..Rev /\ log[v].key = k /\ log[v].by = "console"
          /\ v > Applied \/ (v <= Applied /\ At(Applied)[k] = 0)
      BY <2>3 DEF ConsoleWrote, Ahead, BroughtBack
    <3>2. v # a
      BY <3>1, <1>11
    <3>3. v \in Nat /\ a \in Nat /\ Applied \in Nat /\ a = Applied + 1
      BY <1>1, <1>2, <1>7 DEF Revs
    <3>4. v > a \/ (v <= a /\ At(a)[k] = 0)
      <4>1. CASE v > Applied
        BY <4>1, <3>2, <3>3
      <4>2. CASE v <= Applied /\ At(Applied)[k] = 0
        BY <4>2, <3>3, <2>1
      <4> QED
        BY <3>1, <4>1, <4>2
    <3>5. objects'[k] = v /\ Rev' = Rev
      BY <2>1, <1>3 DEF Rev
    <3>6. (Ahead(v) \/ BroughtBack(k, v))'
      <4>1. v' > Applied' \/ (v' <= Applied' /\ At(Applied)'[k] = 0)
        BY <3>4, <3>5, <1>3, <1>9
      <4> QED
        BY <4>1 DEF Ahead, BroughtBack
    <3>7. (v \in 1..Rev /\ log[v].key = k /\ log[v].by = "console")'
      BY <3>1, <3>5, <1>3
    <3> QED
      BY <3>6, <3>7 DEF ConsoleWrote
  <2> QED
    BY <2>2, <2>3, <1>3 DEF ConsistentSnapshot
<1> QED
  BY <1>10, <1>11

\* What observe puts in is newer than the applied revision, or of a key that
\* revision does not have.
LEMMA ObserveSnapshot ==
  ASSUME TypeOK, NeverOlder, ResponsesOwn, ConsistentSnapshot, ChannelInOrder,
         NEW v \in responses, Observe(v)
  PROVE  ConsistentSnapshot'
<1>1. /\ Applied \in 0..Rev /\ Rev \in Nat /\ v \in 1..Rev /\ log[v].by = "console"
      /\ UNCHANGED <<log, cursor, chan, present>>
  BY DEF TypeOK, Rev, Revs, Applied, ChannelInOrder, Observe, ResponsesOwn, server, loop
<1>2. At(Applied)' = At(Applied) /\ Applied' = Applied /\ Rev' = Rev
  BY <1>1 DEF At, Applied, Nothing, Rev
<1>3. \A k \in Keys : \A w : ConsoleWrote(k, w)' = ConsoleWrote(k, w)
  BY <1>1, <1>2 DEF ConsoleWrote, Ahead, BroughtBack, Rev
<1>4. At(Applied) \in [Keys -> Revs] /\ objects \in [Keys -> Revs]
  BY <1>1, AtType DEF TypeOK
<1>5. CASE present /\ objects[log[v].key] < v
  <2> DEFINE k == log[v].key
  <2>1. objects' = [objects EXCEPT ![k] = v]
    BY <1>5 DEF Observe, Observed
  <2>2. k \in Keys
    <3>1. log[v] \in Entry
      BY <1>1 DEF TypeOK, Rev
    <3> QED
      BY <3>1 DEF Entry
  <2>3. objects[k] = At(Applied)[k] \/ ConsoleWrote(k, objects[k])
    BY <1>5, <2>2 DEF ConsistentSnapshot
  <2>4. v > Applied \/ At(Applied)[k] = 0
    <3> SUFFICES ASSUME v <= Applied, At(Applied)[k] # 0 PROVE FALSE
      BY <1>1
    <3>1. At(Applied)[k] >= v
      BY <1>1 DEF NeverOlder
    <3>2. objects[k] \in Nat /\ At(Applied)[k] \in Nat /\ Applied \in Nat /\ v \in Nat
      BY <1>1, <1>4, <2>2 DEF Revs
    <3>3. objects[k] > Applied
      BY <3>1, <3>2, <2>3, <1>5 DEF ConsoleWrote, Ahead, BroughtBack
    <3> QED
      BY <3>2, <3>3, <1>5
  <2>5. ConsoleWrote(k, v)
    BY <1>1, <2>4 DEF ConsoleWrote, Ahead, BroughtBack
  <2> HIDE DEF k
  <2> SUFFICES ASSUME NEW j \in Keys
               PROVE  objects'[j] = At(Applied)[j] \/ ConsoleWrote(j, objects'[j])
    BY <1>2, <1>3 DEF ConsistentSnapshot
  <2>6. CASE j = k
    BY <2>1, <2>5, <2>6, <1>4
  <2>7. CASE j # k
    <3>1. objects'[j] = objects[j]
      BY <2>1, <2>7, <1>4
    <3> QED
      BY <3>1, <1>5 DEF ConsistentSnapshot
  <2> QED
    BY <2>6, <2>7
<1>6. CASE ~(present /\ objects[log[v].key] < v)
  <2>1. objects' = objects
    BY <1>6 DEF Observe, Observed
  <2> QED
    BY <1>1, <1>2, <1>3, <2>1 DEF ConsistentSnapshot
<1> QED
  BY <1>5, <1>6

\* Every other step keeps the objects, replaces them all by one revision's, or
\* takes the kind's key away.
LEMMA SnapshotStep ==
  ASSUME TypeOK, TypeOK', LogSteps, NeverOlder, ChannelInOrder, ChannelInOrder', ResponsesOwn,
         ConsistentSnapshot, [Next]_vars
  PROVE  ConsistentSnapshot'
<1>0. Applied \in 0..Rev /\ Rev \in Nat /\ Rev' >= Rev
  BY LogKept, SMTT(40) DEF TypeOK, Rev, Revs, Applied, ChannelInOrder
<1>k. ASSUME present' = present, objects' = objects, Applied' = Applied
      PROVE  ConsistentSnapshot'
  <2>1. At(Applied)' = At(Applied)
    <3>1. \A r \in 0..Rev : At(r)' = At(r)
      BY LogKept
    <3> QED
      BY <3>1, <1>0, <1>k DEF At
  <2>2. \A k \in Keys : ConsoleWrote(k, objects[k]) => ConsoleWrote(k, objects[k])'
    BY <2>1, <1>0, <1>k, LogKept DEF ConsoleWrote, Ahead, BroughtBack
  <2> QED
    BY <1>k, <2>1, <2>2 DEF ConsistentSnapshot
<1>1. CASE Server \/ Cancel \/ UNCHANGED vars
  BY <1>1, <1>k DEF Server, ServerPut, ServerDelete, ServerInstall, ServerUninstall, Cancel,
       vars, loop, store, Applied
<1>2. CASE Stop \/ SendList \/ ListAnswered \/ ListMissing \/ ListFailed \/ ReplaceSynced
           \/ ReplaceAbsent \/ AbsentSynced \/ AbsentAbsent \/ StreamEnds \/ Drained
           \/ DrainedAtShutdown \/ Wake
  BY <1>2, <1>k DEF Stop, SendList, ListAnswered, ListMissing, ListFailed, ReplaceSynced,
       ReplaceAbsent, AbsentSynced, AbsentAbsent, StreamEnds, Drained, DrainedAtShutdown, Wake,
       store, Applied
<1>3. CASE ReplaceObjects
  <2>1. chan = <<>> /\ chan' = <<>> /\ cursor' = listRev /\ log' = log /\ listRev \in Nat
    BY <1>3 DEF ReplaceObjects, ChannelInOrder, TypeOK, server, Rev, Revs
  <2>2. Applied' = listRev
    BY <2>1 DEF Applied
  <2>3. At(Applied)' = At(listRev)
    BY <2>1, <2>2 DEF At, Nothing
  <2> QED
    BY <1>3, <2>3 DEF ReplaceObjects, ConsistentSnapshot
<1>4. CASE AbsentObjects
  BY <1>4 DEF AbsentObjects, ConsistentSnapshot
<1>5. CASE StreamEvent
  <2>1. Len(chan') = Len(chan) + 1 /\ Len(chan) \in Nat /\ cursor \in Nat /\ cursor' = cursor + 1
    BY <1>5 DEF StreamEvent, TypeOK
  <2>2. Applied' = Applied
    BY <2>1 DEF Applied
  <2> QED
    BY <1>5, <1>k, <2>2 DEF StreamEvent, store
<1>6. CASE Apply
  BY <1>6, ApplySnapshot
<1>7. CASE Writer
  <2>1. ASSUME NEW v \in responses, Observe(v) PROVE ConsistentSnapshot'
    BY <2>1, ObserveSnapshot
  <2>2. ASSUME NEW v \in responses, LoseResponse(v) PROVE ConsistentSnapshot'
    BY <2>2, <1>k DEF LoseResponse, loop, store, Applied
  <2> QED
    BY <1>7, <2>1, <2>2 DEF Writer
<1> QED
  BY <1>1, <1>2, <1>3, <1>4, <1>5, <1>6, <1>7 DEF Next, Loop

-----------------------------------------------------------------------------
LEMMA InvInit == Init => IInv
<1> SUFFICES ASSUME Init PROVE IInv
  OBVIOUS
<1>1. Rev = 0 /\ Len(chan) = 0
  BY DEF Init, Rev
<1>2. LogSteps /\ NeverOlder
  BY <1>1 DEF LogSteps, NeverOlder
<1>3. ChannelInOrder
  BY <1>1 DEF Init, ChannelInOrder
<1> QED
  BY <1>2, <1>3, TypeInit DEF Init, IInv, ResponsesOwn, ConsistentSnapshot

LEMMA InvStep == IInv /\ [Next]_vars => IInv'
BY TypeStep, LogStep, ChannelStep, ResponsesStep, SnapshotStep DEF IInv

\* "The components mapping reads a consistent snapshot": whatever is created,
\* changed, deleted, listed, streamed, broken off and observed, in any order, each
\* key holds what the server held at the one applied revision, or an object the
\* console itself wrote: newer than that revision, or older where that revision has
\* the object no more, put back after its deletion was applied.
THEOREM SnapshotConsistent == Spec => []ConsistentSnapshot
<1>1. IInv => ConsistentSnapshot
  BY DEF IInv
<1> QED
  BY <1>1, InvInit, InvStep, PTL DEF Spec

-----------------------------------------------------------------------------
(* What the store says of the kind beside its objects. *)

\* While the key has been taken away and the marks are still to be set, nothing brings it
\* back: no event waits in the channel, and observe leaves a kind without a key alone.
FlagsInv ==
  /\ FlagsHonest
  /\ pc \in {"absent_synced", "absent_absent"} => ~present

LEMMA FlagsStep ==
  ASSUME IInv, FlagsInv, [Next]_vars
  PROVE  FlagsInv'
<1>1. CASE Server \/ Cancel \/ Writer \/ StreamEvent \/ UNCHANGED vars
  BY <1>1 DEF Server, ServerPut, ServerDelete, ServerInstall, ServerUninstall, Cancel, Writer,
       Observe, LoseResponse, StreamEvent, vars, loop, store, FlagsInv, FlagsHonest
<1>2. CASE Stop \/ SendList \/ ListAnswered \/ ListMissing \/ ListFailed \/ StreamEnds \/ Wake
  BY <1>2 DEF Stop, SendList, ListAnswered, ListMissing, ListFailed, StreamEnds, Wake, store,
       FlagsInv, FlagsHonest
<1>3. CASE ReplaceObjects \/ ReplaceSynced \/ ReplaceAbsent
  BY <1>3 DEF ReplaceObjects, ReplaceSynced, ReplaceAbsent, FlagsInv, FlagsHonest
<1>4. CASE AbsentObjects \/ AbsentSynced \/ AbsentAbsent
  BY <1>4 DEF AbsentObjects, AbsentSynced, AbsentAbsent, FlagsInv, FlagsHonest
<1>5. CASE Drained \/ DrainedAtShutdown
  BY <1>5 DEF Drained, DrainedAtShutdown, ApplierDone, store, FlagsInv, FlagsHonest
<1>6. CASE Apply
  <2>1. present /\ pc \in {"watch", "drain"}
    BY <1>6 DEF Apply, IInv, ChannelInOrder
  <2> QED
    BY <1>6, <2>1 DEF Apply, loop, FlagsInv, FlagsHonest
<1> QED
  BY <1>1, <1>2, <1>3, <1>4, <1>5, <1>6 DEF Next, Loop

\* "Absent" and "present and empty" can be told apart outside the moment between two of
\* the store's locks, and a kind is held as synced only with its stream open or being
\* drained, not served, or its task shut down - however its CRD comes and goes, its lists
\* fail and its writers' answers arrive.
THEOREM FlagsStayHonest == Spec => []FlagsHonest
<1>1. Init => FlagsInv
  BY DEF Init, FlagsInv, FlagsHonest
<1>2. FlagsInv => FlagsHonest
  BY DEF FlagsInv
<1> QED
  BY <1>1, <1>2, InvInit, InvStep, FlagsStep, PTL DEF Spec

-----------------------------------------------------------------------------
(***************************************************************************)
(* From the cache to the pages: the feed as it is published and pushed.    *)
(***************************************************************************)
\* A feed as it was published, and as a socket sends it.
Told == [feed : Feed, at : Nat]

SocketType ==
  [pc : {"closed", "reading", "scoping", "waiting"}, queue : 0..QueueCap, lagged : BOOLEAN,
   read : Told \cup {NoFeed}, wire : Seq(Told)]

PageType ==
  [fetch : {"none", "answered", "done"}, read : Told \cup {NoFeed},
   shown : Told \cup {NoFeed}, live : BOOLEAN]

BuildType ==
  [pc : {"slice", "send"}] \cup [pc : {"card"}, rows : SUBSET Rows]
  \cup [pc : {"built"}, feed : Feed]

PushTypes ==
  /\ outside \in [up : BOOLEAN, rows : SUBSET Rows, pods : SUBSET Projects,
                  projects : {Projects}, permitted : SUBSET Projects]
  /\ held \in [pods : SUBSET Projects, known : SUBSET Projects]
  /\ feed \in [health : {"unknown", "ok", "error"}, rows : SUBSET Rows]
  /\ build \in BuildType
  /\ snapshot \in Told
  /\ socket \in [Pages -> SocketType]
  /\ page \in [Pages -> PageType]

\* What is on the wire to a page is in the order it was published, no newer than
\* what its socket has read and no older than what the page shows; what the
\* socket has read, and what a fetch has, is no newer than the registry's.
InOrder(s, g, now) ==
  /\ \A i \in 1..Len(s.wire) : s.wire[i].at <= now
  /\ \A i, j \in 1..Len(s.wire) : i <= j => s.wire[i].at <= s.wire[j].at
  /\ (s.pc = "scoping") = (s.read # NoFeed)
  /\ s.read # NoFeed =>
       /\ s.read.at <= now
       /\ \A i \in 1..Len(s.wire) : s.wire[i].at <= s.read.at
  /\ g.read # NoFeed => g.read.at <= now
  /\ g.shown # NoFeed => g.shown.at <= now
  /\ g.live =>
       /\ g.shown # NoFeed
       /\ \A i \in 1..Len(s.wire) : g.shown.at <= s.wire[i].at
       /\ s.read # NoFeed => g.shown.at <= s.read.at

PushInv ==
  /\ PushTypes
  /\ \A p \in Pages : InOrder(socket[p], page[p], snapshot.at)

\* Scoping takes pods out of what was read, and leaves its place in the order.
LEMMA ScopedTold ==
  ASSUME NEW read \in Told
  PROVE  Scoped(read) \in Told /\ Scoped(read).at = read.at
<1>1. read.feed \in Feed /\ read.feed.pods \ Hidden \in SUBSET Projects
  BY DEF Told, Feed
<1>2. Scoped(read) = [read EXCEPT !.feed = [read.feed EXCEPT !.pods = read.feed.pods \ Hidden]]
  BY Zenon DEF Scoped
<1>3. [read.feed EXCEPT !.pods = read.feed.pods \ Hidden] \in Feed
  BY <1>1 DEF Feed
<1> HIDE DEF Feed, Scoped
<1> QED
  BY <1>2, <1>3 DEF Told

LEMMA PushInit ==
  ASSUME FeedInit
  PROVE  PushInv
<1>1. Empty \in Feed
  BY DEF Empty, Feed
<1>2. snapshot \in Told /\ snapshot.at = 0
  BY <1>1 DEF FeedInit, Told
<1>3. Closed \in SocketType
  BY CapAssumption DEF Closed, SocketType
<1>4. BlankPage \in PageType
  BY DEF BlankPage, PageType
<1>5. PushTypes
  BY <1>2, <1>3, <1>4 DEF FeedInit, PushTypes, BuildType
<1>6. InOrder(Closed, BlankPage, 0)
  BY DEF InOrder, Closed, BlankPage
<1> QED
  BY <1>2, <1>5, <1>6 DEF PushInv, FeedInit

\* A step of one socket, or of one page, is judged by what becomes of the two.
LEMMA SocketKept ==
  ASSUME PushInv, NEW p \in Pages, NEW s \in SocketType,
         InOrder(s, page[p], snapshot.at),
         socket' = [socket EXCEPT ![p] = s],
         UNCHANGED <<outside, held, feed, build, snapshot, page>>
  PROVE  PushInv'
<1>1. socket' \in [Pages -> SocketType]
  BY DEF PushInv, PushTypes
<1>2. \A q \in Pages : socket'[q] = IF q = p THEN s ELSE socket[q]
  BY DEF PushInv, PushTypes
<1>3. PushTypes'
  BY <1>1 DEF PushInv, PushTypes
<1> QED
  BY <1>2, <1>3 DEF PushInv

LEMMA PageKept ==
  ASSUME PushInv, NEW p \in Pages, NEW g \in PageType,
         InOrder(socket[p], g, snapshot.at),
         page' = [page EXCEPT ![p] = g],
         UNCHANGED <<outside, held, feed, build, snapshot, socket>>
  PROVE  PushInv'
<1>1. page' \in [Pages -> PageType]
  BY DEF PushInv, PushTypes
<1>2. \A q \in Pages : page'[q] = IF q = p THEN g ELSE page[q]
  BY DEF PushInv, PushTypes
<1>3. PushTypes'
  BY <1>1 DEF PushInv, PushTypes
<1> QED
  BY <1>2, <1>3 DEF PushInv

\* A step of neither, nor of the snapshot.
LEMMA PushFrame ==
  ASSUME PushInv, PushTypes', UNCHANGED <<snapshot, socket, page>>
  PROVE  PushInv'
  BY DEF PushInv

LEMMA OutsideKept ==
  ASSUME PushInv, Outside \/ WatchPods \/ WatchProjects \/ Poll
  PROVE  PushInv' /\ UNCHANGED page
<1> USE DEF PushInv, PushTypes
<1> DEFINE Out == [up : BOOLEAN, rows : SUBSET Rows, pods : SUBSET Projects,
                   projects : {Projects}, permitted : SUBSET Projects]
<1>1. CASE Outside
  <2>1. ASSUME NEW to \in Out, OutsideChanges(to)
        PROVE  PushInv' /\ UNCHANGED page
    BY <2>1, PushFrame DEF OutsideChanges
  <2>2. CASE DaemonChanges
    <3>1. PICK up \in BOOLEAN, rows \in SUBSET Rows :
            OutsideChanges([outside EXCEPT !.up = up, !.rows = rows])
      BY <2>2 DEF DaemonChanges
    <3>2. [outside EXCEPT !.up = up, !.rows = rows] \in Out
      OBVIOUS
    <3> QED
      BY <2>1, <3>1, <3>2
  <2>3. ASSUME NEW n \in Projects, RoleChanges(n) \/ PodChanges(n)
        PROVE  PushInv' /\ UNCHANGED page
    <3>1. [outside EXCEPT !.permitted = IF n \in @ THEN @ \ {n} ELSE @ \cup {n}] \in Out
      OBVIOUS
    <3>2. [outside EXCEPT !.pods = IF n \in @ THEN @ \ {n} ELSE @ \cup {n}] \in Out
      OBVIOUS
    <3> QED
      BY <2>1, <2>3, <3>1, <3>2 DEF RoleChanges, PodChanges
  <2> QED
    BY <1>1, <2>2, <2>3 DEF Outside
<1>2. CASE WatchPods
  BY <1>2, PushFrame DEF WatchPods
<1>3. CASE WatchProjects
  BY <1>3, PushFrame DEF WatchProjects
<1>4. CASE Poll
  <2>1. Polled \in [health : {"unknown", "ok", "error"}, rows : SUBSET Rows]
    BY DEF Polled
  <2> QED
    BY <1>4, <2>1, PushFrame DEF Poll
<1> QED
  BY <1>1, <1>2, <1>3, <1>4

\* The registry's number only grows, and nothing is newer than it.
LEMMA NewerKept ==
  ASSUME NEW s \in SocketType, NEW g \in PageType, NEW now \in Nat, InOrder(s, g, now)
  PROVE  InOrder(s, g, now + 1)
<1>1. s.wire \in Seq(Told) /\ \A x \in Told : x.at \in Nat
  BY DEF SocketType, Told
<1>2. \A i \in 1..Len(s.wire) : s.wire[i].at \in Nat
  BY <1>1
<1>3. /\ s.read # NoFeed => s.read.at \in Nat
      /\ g.read # NoFeed => g.read.at \in Nat
      /\ g.shown # NoFeed => g.shown.at \in Nat
  BY <1>1 DEF SocketType, PageType
<1>4. \A i \in 1..Len(s.wire) : s.wire[i].at <= now + 1
  BY <1>2 DEF InOrder
<1>5. /\ s.read # NoFeed => s.read.at <= now + 1
      /\ g.read # NoFeed => g.read.at <= now + 1
      /\ g.shown # NoFeed => g.shown.at <= now + 1
  BY <1>3 DEF InOrder
<1> QED
  BY <1>4, <1>5 DEF InOrder


LEMMA PublishKept ==
  ASSUME PushInv, Publish
  PROVE  PushInv'
<1>1. build \in BuildType /\ build.pc = "built" /\ snapshot.at \in Nat
  BY DEF PushInv, PushTypes, Publish, Told
<1>2. build.feed \in Feed
  BY <1>1 DEF BuildType
<1>3. snapshot' \in Told /\ snapshot'.at = snapshot.at + 1
  BY <1>1, <1>2 DEF Publish, Told
<1>4. PushTypes'
  BY <1>3 DEF Publish, PushInv, PushTypes, BuildType
<1>5. ASSUME NEW p \in Pages
      PROVE  InOrder(socket[p], page[p], snapshot'.at)
  <2>1. InOrder(socket[p], page[p], snapshot.at) /\ socket[p] \in SocketType /\ page[p] \in PageType
    BY DEF PushInv, PushTypes
  <2> QED
    BY <1>1, <1>3, <2>1, NewerKept
<1> QED
  BY <1>4, <1>5 DEF PushInv, Publish

\* A message in the channel is not a frame on the wire.
LEMMA SendKept ==
  ASSUME PushInv, Send
  PROVE  PushInv'
<1>1. ASSUME NEW p \in Pages
      PROVE  /\ socket'[p] \in SocketType
             /\ socket'[p].pc = socket[p].pc /\ socket'[p].read = socket[p].read
             /\ socket'[p].wire = socket[p].wire
  <2>1. socket[p] \in SocketType /\ socket'[p] = Queued(socket[p])
    BY DEF PushInv, PushTypes, Send
  <2>2. QueueCap \in Nat
    BY CapAssumption
  <2>3. socket[p].queue < QueueCap => socket[p].queue + 1 \in 0..QueueCap
    BY <2>1, <2>2 DEF SocketType
  <2>4. \/ socket'[p] = socket[p]
        \/ /\ socket[p].queue + 1 \in 0..QueueCap
           /\ socket'[p] = [socket[p] EXCEPT !.queue = socket[p].queue + 1]
        \/ socket'[p] = [socket[p] EXCEPT !.lagged = TRUE]
    BY <2>1, <2>3, Zenon DEF Queued
  <2> QED
    BY <2>1, <2>4 DEF SocketType
<1>2. socket' \in [Pages -> SocketType]
  BY <1>1 DEF Send
<1>3. PushTypes'
  BY <1>2 DEF Send, PushInv, PushTypes, BuildType
<1>4. ASSUME NEW p \in Pages
      PROVE  InOrder(socket[p], page[p], snapshot.at)'
  <2>1. socket'[p].pc = socket[p].pc /\ socket'[p].read = socket[p].read
        /\ socket'[p].wire = socket[p].wire
    BY <1>1
  <2> QED
    BY <2>1 DEF PushInv, InOrder, Send
<1> QED
  BY <1>3, <1>4 DEF PushInv

LEMMA RefreshKept ==
  ASSUME PushInv, Refresh
  PROVE  PushInv' /\ UNCHANGED page
<1>1. CASE Slice
  BY <1>1, PushFrame DEF Slice, PushInv, PushTypes, BuildType
<1>2. CASE Card
  <2>1. build \in BuildType /\ build.pc = "card"
    BY <1>2 DEF PushInv, PushTypes, Card
  <2>2. build.rows \in SUBSET Rows
    BY <2>1 DEF BuildType
  <2>3. [health |-> feed.health, rows |-> build.rows, pods |-> held.pods] \in Feed
    BY <2>2 DEF Feed, PushInv, PushTypes
  <2>4. build' \in BuildType
    BY <1>2, <2>3 DEF Card, BuildType
  <2> QED
    BY <1>2, <2>4, PushFrame DEF Card, PushInv, PushTypes
<1>3. CASE Unchanged
  BY <1>3, PushFrame DEF Unchanged, PushInv, PushTypes, BuildType
<1>4. CASE Publish
  BY <1>4, PublishKept DEF Publish
<1>5. CASE Send
  BY <1>5, SendKept DEF Send
<1> QED
  BY <1>1, <1>2, <1>3, <1>4, <1>5 DEF Refresh

\* The server's end: what is read is the newest there is, and is sent after what was.
LEMMA ServeKept ==
  ASSUME PushInv, NEW p \in Pages,
         Connect(p) \/ ReadFeed(p) \/ SendFrame(p) \/ Notified(p)
         \/ Lagged(p) \/ Break(p)
  PROVE  PushInv' /\ UNCHANGED page
<1> DEFINE s == socket[p]  g == page[p]
<1>1. s \in SocketType /\ g \in PageType /\ InOrder(s, g, snapshot.at) /\ snapshot \in Told
  BY DEF PushInv, PushTypes
<1>2. NoFeed \notin Told
  BY NoFeedAssumption DEF Told
<1>3. QueueCap \in Nat
  BY CapAssumption
<1>4. \A x \in Told : x.at \in Nat
  BY DEF Told
<1>5. s.wire \in Seq(Told) /\ \A i \in 1..Len(s.wire) : s.wire[i] \in Told
  BY <1>1 DEF SocketType
<1>c. Closed \in SocketType /\ InOrder(Closed, g, snapshot.at)
  <2>1. Closed \in SocketType
    BY <1>3 DEF Closed, SocketType
  <2> QED
    BY <2>1, <1>1 DEF InOrder, Closed
<1>a. CASE Connect(p)
  <2>1. [Closed EXCEPT !.pc = "reading"] \in SocketType
    BY <1>c DEF SocketType
  <2>2. InOrder([Closed EXCEPT !.pc = "reading"], g, snapshot.at)
    BY <1>c DEF InOrder, Closed
  <2> QED
    BY <1>a, <2>1, <2>2, SocketKept DEF Connect, SocketStep
<1>b. CASE ReadFeed(p)
  <2> DEFINE to == [s EXCEPT !.pc = "scoping", !.read = snapshot]
  <2>1. to \in SocketType
    BY <1>1 DEF SocketType
  <2>2. to.wire = s.wire /\ to.read = snapshot /\ to.pc = "scoping"
    BY <1>1 DEF SocketType
  <2>3. InOrder(to, g, snapshot.at)
    <3> HIDE DEF to, s, g
    <3>1. g.shown # NoFeed => g.shown.at <= snapshot.at
      BY <1>1 DEF InOrder
    <3> QED
      BY <1>1, <1>2, <1>4, <2>2, <3>1 DEF InOrder
  <2> QED
    BY <1>b, <2>1, <2>3, SocketKept DEF ReadFeed, SocketStep
<1>d. CASE SendFrame(p)
  <2> DEFINE f  == Scoped(s.read)
             to == [s EXCEPT !.pc = "waiting", !.read = NoFeed, !.wire = Append(s.wire, f)]
  <2>1. s.pc = "scoping" /\ s.read \in Told
    BY <1>d, <1>1 DEF SendFrame, InOrder, SocketType
  <2>2. f \in Told /\ f.at = s.read.at
    BY <2>1, ScopedTold
  <2> HIDE DEF f
  <2>a. Append(s.wire, f) \in Seq(Told)
    BY <1>5, <2>2
  <2>3. to \in SocketType
    <3> DEFINE w == Append(s.wire, f)
    <3>1. w \in Seq(Told)
      BY <2>a
    <3> HIDE DEF w
    <3>2. [s EXCEPT !.pc = "waiting", !.read = NoFeed, !.wire = w] \in SocketType
      BY <1>1, <3>1 DEF SocketType
    <3> QED
      BY <3>2 DEF w
  <2>4. to.wire = Append(s.wire, f) /\ to.read = NoFeed /\ to.pc = "waiting"
    BY <1>1 DEF SocketType
  <2>5. Len(to.wire) = Len(s.wire) + 1 /\ to.wire[Len(s.wire) + 1] = f
        /\ \A i \in 1..Len(s.wire) : to.wire[i] = s.wire[i]
    BY <1>5, <2>2, <2>4
  <2>6. Len(s.wire) \in Nat
    BY <1>5
  <2>7. \A i \in 1..Len(to.wire) : i \in 1..Len(s.wire) \/ i = Len(s.wire) + 1
    BY <2>5, <2>6
  <2>8. \A i \in 1..Len(to.wire) : to.wire[i].at <= f.at /\ to.wire[i].at \in Nat
    <3>1. \A i \in 1..Len(s.wire) : s.wire[i].at <= s.read.at
      BY <1>1, <1>2, <2>1 DEF InOrder
    <3> QED
      BY <1>4, <1>5, <2>2, <2>5, <2>7, <3>1
  <2>9. InOrder(to, g, snapshot.at)
    <3> HIDE DEF to, s, g
    <3>1. f.at <= snapshot.at /\ f.at \in Nat /\ snapshot.at \in Nat
      BY <1>1, <1>2, <1>4, <2>1, <2>2 DEF InOrder
    <3>2. \A i \in 1..Len(to.wire) : to.wire[i].at <= snapshot.at
      BY <2>8, <3>1
    <3>3. \A i, j \in 1..Len(to.wire) : i <= j => to.wire[i].at <= to.wire[j].at
      <4> TAKE i, j \in 1..Len(to.wire)
      <4> HAVE i <= j
      <4>1. CASE j = Len(s.wire) + 1
        BY <4>1, <2>5, <2>8
      <4>2. CASE j \in 1..Len(s.wire)
        <5>1. i \in 1..Len(s.wire)
          BY <4>2, <2>6
        <5> QED
          BY <1>1, <4>2, <5>1, <2>5 DEF InOrder
      <4> QED
        BY <2>7, <4>1, <4>2
    <3>4. g.live => \A i \in 1..Len(to.wire) : g.shown.at <= to.wire[i].at
      BY <1>1, <1>2, <2>1, <2>2, <2>5, <2>7 DEF InOrder
    <3> QED
      BY <1>1, <2>4, <3>2, <3>3, <3>4 DEF InOrder
  <2> QED
    BY <1>d, <2>3, <2>9, SocketKept DEF SendFrame, SocketStep, f
<1>e. CASE Notified(p)
  <2> DEFINE to == [s EXCEPT !.pc = "reading", !.queue = s.queue - 1]
  <2>1. s.queue > 0 /\ s.pc = "waiting"
    BY <1>e DEF Notified
  <2>2. s.queue - 1 \in 0..QueueCap
    BY <1>1, <1>3, <2>1 DEF SocketType
  <2>3. to \in SocketType
    BY <1>1, <2>2 DEF SocketType
  <2>4. to.pc = "reading" /\ to.read = s.read /\ to.wire = s.wire
    BY <1>1 DEF SocketType
  <2>5. InOrder(to, g, snapshot.at)
    <3> HIDE DEF to, s, g
    <3> QED
      BY <1>1, <2>1, <2>4 DEF InOrder
  <2> QED
    BY <1>e, <2>3, <2>5, SocketKept DEF Notified, SocketStep
<1>f. CASE Lagged(p)
  BY <1>f, <1>c, SocketKept DEF Lagged, SocketStep
<1>g. CASE Break(p)
  BY <1>g, <1>c, SocketKept DEF Break
<1> QED
  BY <1>a, <1>b, <1>d, <1>e, <1>f, <1>g
     DEF Connect, ReadFeed, SendFrame, Notified, Lagged, Break,
         SocketStep

\* What a page may show next: nothing older, once it is live.
NoOlder(g, to) == g.live => to.shown.at >= g.shown.at

\* The page's end of the socket: the next frame, which is no older than the last.
LEMMA ReceiveKept ==
  ASSUME PushInv, NEW p \in Pages, Receive(p)
  PROVE  PushInv' /\ \A q \in Pages : NoOlder(page[q], page'[q])
<1> DEFINE s == socket[p]  g == page[p]
           f  == Head(s.wire)
           to == [g EXCEPT !.shown = f, !.live = TRUE]
           st == [s EXCEPT !.wire = Tail(s.wire)]
<1>1. s \in SocketType /\ g \in PageType /\ InOrder(s, g, snapshot.at)
      /\ page \in [Pages -> PageType] /\ socket \in [Pages -> SocketType] /\ snapshot \in Told
  BY DEF PushInv, PushTypes
<1>2. NoFeed \notin Told /\ \A x \in Told : x.at \in Nat
  BY NoFeedAssumption DEF Told
<1>3. s.wire \in Seq(Told) /\ s.wire # <<>>
  BY <1>1 DEF SocketType, Receive
<1>4. /\ f = s.wire[1] /\ f \in Told /\ 1 \in 1..Len(s.wire)
      /\ Tail(s.wire) \in Seq(Told) /\ Len(Tail(s.wire)) = Len(s.wire) - 1
      /\ \A i \in 1..Len(Tail(s.wire)) : Tail(s.wire)[i] = s.wire[i + 1] /\ i + 1 \in 1..Len(s.wire)
  BY <1>3
<1>5. page' = [page EXCEPT ![p] = to] /\ socket' = [socket EXCEPT ![p] = st]
  BY <1>1, Zenon DEF Receive, PageType, SocketType
<1>6. /\ to \in PageType /\ to.shown = f /\ to.live /\ to.read = g.read
      /\ st \in SocketType /\ st.wire = Tail(s.wire) /\ st.pc = s.pc /\ st.read = s.read
  BY <1>1, <1>4 DEF PageType, SocketType
<1>7. \A i \in 1..Len(s.wire) : f.at <= s.wire[i].at
  BY <1>1, <1>4 DEF InOrder
<1>8. InOrder(st, to, snapshot.at)
  <2> HIDE DEF f, to, st, s, g
  <2>1. \A i \in 1..Len(st.wire) : st.wire[i].at <= snapshot.at /\ f.at <= st.wire[i].at
    BY <1>1, <1>4, <1>6, <1>7 DEF InOrder
  <2>2. \A i, j \in 1..Len(st.wire) : i <= j => st.wire[i].at <= st.wire[j].at
    <3> TAKE i, j \in 1..Len(st.wire)
    <3>1. i + 1 \in 1..Len(s.wire) /\ j + 1 \in 1..Len(s.wire) /\ (i <= j => i + 1 <= j + 1)
      BY <1>4, <1>6
    <3> QED
      BY <1>1, <1>4, <1>6, <3>1 DEF InOrder
  <2>3. f.at <= snapshot.at
    BY <1>1, <1>4 DEF InOrder
  <2>4. s.read # NoFeed => f.at <= s.read.at /\ \A i \in 1..Len(st.wire) : st.wire[i].at <= s.read.at
    BY <1>1, <1>4, <1>6 DEF InOrder
  <2> QED
    BY <1>1, <1>2, <1>4, <1>6, <2>1, <2>2, <2>3, <2>4 DEF InOrder
<1>9. \A q \in Pages : /\ page'[q] = IF q = p THEN to ELSE page[q]
                       /\ socket'[q] = IF q = p THEN st ELSE socket[q]
  BY <1>1, <1>5
<1>10. NoOlder(g, to)
  <2>1. g.live => g.shown.at <= f.at /\ g.shown \in Told
    BY <1>1, <1>4 DEF InOrder, PageType
  <2> HIDE DEF f, to, g
  <2> QED
    BY <2>1, <1>2, <1>4, <1>6 DEF NoOlder
<1>11. \A q \in Pages : NoOlder(page[q], page[q])
  <2> TAKE q \in Pages
  <2>1. page[q].live => page[q].shown.at \in Nat
    BY <1>1, <1>2 DEF PushInv, InOrder, PageType
  <2> QED
    BY <2>1 DEF NoOlder
<1>12. PushTypes'
  <2>1. page' \in [Pages -> PageType] /\ socket' \in [Pages -> SocketType]
    BY <1>1, <1>5, <1>6
  <2> QED
    BY <2>1 DEF PushInv, PushTypes, Receive
<1> HIDE DEF f, to, st
<1> QED
  BY <1>8, <1>9, <1>10, <1>11, <1>12 DEF PushInv, Receive

\* The first paint counts on a page that shows nothing, which a live one does not.
LEMMA PaintKept ==
  ASSUME PushInv, NEW p \in Pages, Paint(p)
  PROVE  PushInv' /\ \A q \in Pages : page[q].live => page'[q].shown = page[q].shown
<1> DEFINE s == socket[p]  g == page[p]
<1>1. s \in SocketType /\ g \in PageType /\ InOrder(s, g, snapshot.at)
      /\ page \in [Pages -> PageType] /\ snapshot \in Told
  BY DEF PushInv, PushTypes
<1>2. NoFeed \notin Told /\ \A x \in Told : x.at \in Nat
  BY NoFeedAssumption DEF Told
<1>3. ASSUME NEW to \in PageType, PageStep(p, to), to.live = g.live,
             to.shown = g.shown \/ (g.shown = NoFeed /\ to.shown = g.read),
             to.read \in {NoFeed, g.read} \/ (to.read \in Told /\ to.read.at = snapshot.at)
      PROVE  PushInv' /\ \A q \in Pages : page[q].live => page'[q].shown = page[q].shown
  <2>1. InOrder(s, to, snapshot.at)
    <3> HIDE DEF s, g
    <3>1. snapshot.at \in Nat
      BY <1>1, <1>2
    <3>2. to.read # NoFeed => to.read.at <= snapshot.at
      BY <1>1, <1>3, <3>1 DEF InOrder
    <3>3. to.shown # NoFeed => to.shown.at <= snapshot.at
      BY <1>1, <1>3 DEF InOrder
    <3>4. to.live => to.shown = g.shown
      BY <1>1, <1>3 DEF InOrder
    <3> QED
      BY <1>1, <1>3, <3>2, <3>3, <3>4 DEF InOrder
  <2>2. PushInv'
    BY <1>3, <2>1, PageKept DEF PageStep
  <2>3. g.live => to.shown = g.shown
    BY <1>1, <1>3 DEF InOrder
  <2> QED
    BY <1>1, <1>3, <2>2, <2>3 DEF PageStep
<1>4. CASE Fetch(p)
  <2> DEFINE r  == Scoped(snapshot)
             to == [g EXCEPT !.fetch = "answered", !.read = r]
  <2>1. r \in Told /\ r.at = snapshot.at
    BY <1>1, ScopedTold
  <2> HIDE DEF r
  <2>2. to \in PageType /\ to.live = g.live /\ to.shown = g.shown /\ to.read = r
    BY <1>1, <2>1 DEF PageType
  <2>3. PageStep(p, to)
    BY <1>4 DEF Fetch, r
  <2> QED
    BY <1>3, <2>1, <2>2, <2>3
<1>5. CASE FetchFailed(p)
  <2> DEFINE to == [g EXCEPT !.fetch = "done", !.read = NoFeed]
  <2>1. to \in PageType /\ to.live = g.live /\ to.shown = g.shown /\ to.read = NoFeed
    BY <1>1 DEF PageType
  <2>2. PageStep(p, to)
    BY <1>5 DEF FetchFailed
  <2> QED
    BY <1>3, <2>1, <2>2
<1>6. CASE FirstPaint(p)
  <2> DEFINE x  == Painted(p)
             to == [g EXCEPT !.fetch = "done", !.read = NoFeed, !.shown = x]
  <2>1. x = IF g.shown = NoFeed THEN g.read ELSE g.shown
    BY DEF Painted
  <2>2. x \in Told \cup {NoFeed}
    BY <1>1, <2>1 DEF PageType
  <2> HIDE DEF x
  <2>3. to \in PageType /\ to.live = g.live /\ to.shown = x /\ to.read = NoFeed
    BY <1>1, <2>2 DEF PageType
  <2>4. PageStep(p, to)
    BY <1>6 DEF FirstPaint, x
  <2> QED
    BY <1>3, <2>1, <2>3, <2>4
<1> QED
  BY <1>4, <1>5, <1>6 DEF Paint

\* Every step keeps the invariant, and takes no live page back.
LEMMA PushStep ==
  ASSUME PushInv, [FeedNext]_feedVars
  PROVE  PushInv' /\ \A p \in Pages : NoOlder(page[p], page'[p])
<1>1. \A p \in Pages : NoOlder(page[p], page[p])
  <2> TAKE p \in Pages
  <2>1. page[p].live => page[p].shown \in Told
    BY DEF PushInv, PushTypes, InOrder, PageType
  <2> QED
    BY <2>1 DEF NoOlder, Told
<1>2. CASE UNCHANGED feedVars
  BY <1>1, <1>2 DEF feedVars, PushInv, PushTypes
<1>3. CASE Outside \/ WatchPods \/ WatchProjects \/ Poll
  BY <1>1, <1>3, OutsideKept
<1>4. CASE Refresh
  BY <1>1, <1>4, RefreshKept
<1>5. ASSUME NEW p \in Pages, Serve(p) \/ Break(p)
      PROVE  PushInv' /\ \A q \in Pages : NoOlder(page[q], page'[q])
  <2>1. CASE Receive(p)
    BY <2>1, ReceiveKept
  <2>2. CASE ~Receive(p)
    BY <1>1, <1>5, <2>2, ServeKept DEF Serve
  <2> QED
    BY <2>1, <2>2
<1>6. ASSUME NEW p \in Pages, Paint(p)
      PROVE  PushInv' /\ \A q \in Pages : NoOlder(page[q], page'[q])
  BY <1>1, <1>6, PaintKept DEF NoOlder
<1> QED
  BY <1>2, <1>3, <1>4, <1>5, <1>6 DEF FeedNext

\* A live page never goes back to an older snapshot than it showed, however many pages
\* and frames there are, and however often a connection breaks.
THEOREM PageNeverGoesBack == FeedSpec => NeverGoesBack
<1>1. FeedInit => PushInv
  BY PushInit
<1>2. PushInv /\ [FeedNext]_feedVars => PushInv'
  BY PushStep
<1>3. PushInv /\ [FeedNext]_feedVars =>
        [\A p \in Pages : page[p].live => page'[p].shown.at >= page[p].shown.at]_feedVars
  BY PushStep DEF NoOlder
<1> QED
  BY <1>1, <1>2, <1>3, PTL DEF FeedSpec, NeverGoesBack

\* What the registry, the sockets and the pages hold is of its type.
THEOREM PushTypeCorrect == FeedSpec => []FeedTypeOK
<1>1. FeedInit => PushInv
  BY PushInit
<1>2. PushInv /\ [FeedNext]_feedVars => PushInv'
  BY PushStep
<1>3. PushInv => FeedTypeOK
  <2> SUFFICES ASSUME PushInv PROVE FeedTypeOK
    OBVIOUS
  <2>1. \A x \in Told : x.at <= snapshot.at => x \in Shown
    BY DEF Told, Shown, PushInv, PushTypes
  <2>2. snapshot.feed \in Feed /\ build.pc \in {"slice", "card", "built", "send"}
    BY DEF PushInv, PushTypes, BuildType, Told
  <2>3. ASSUME NEW p \in Pages
        PROVE  /\ socket[p].queue \in 0..QueueCap
               /\ socket[p].read \in Shown \cup {NoFeed}
               /\ (socket[p].read # NoFeed) = (socket[p].pc = "scoping")
               /\ \A i \in DOMAIN socket[p].wire : socket[p].wire[i] \in Shown
               /\ page[p].shown \in Shown \cup {NoFeed}
               /\ page[p].live => page[p].shown # NoFeed
    <3>1. socket[p] \in SocketType /\ page[p] \in PageType
          /\ InOrder(socket[p], page[p], snapshot.at)
      BY DEF PushInv, PushTypes
    <3>2. socket[p].wire \in Seq(Told)
      BY <3>1 DEF SocketType
    <3>3. DOMAIN socket[p].wire = 1..Len(socket[p].wire)
          /\ \A i \in 1..Len(socket[p].wire) : socket[p].wire[i] \in Told
      BY <3>2
    <3> QED
      BY <2>1, <3>1, <3>3 DEF InOrder, SocketType, PageType
  <2> QED
    BY <2>2, <2>3 DEF FeedTypeOK, PushInv, PushTypes
<1> QED
  BY <1>1, <1>2, <1>3, PTL DEF FeedSpec

-----------------------------------------------------------------------------
(* The edits of a machine's definition. *)

\* Taking out what a list names once leaves the rest, each name once.
LEMMA WithoutOne ==
  ASSUME NEW S, NEW list \in Seq(S), Edit!Distinct(list), NEW n \in Edit!Named(list)
  PROVE  LET rest == Edit!Without(list, n)
         IN  rest \in Seq(S) /\ Edit!Distinct(rest) /\ Edit!Named(rest) = Edit!Named(list) \ {n}
<1> DEFINE kept   == {i \in DOMAIN list : Edit!NameOf(list[i]) # n}
           Places == UNION {[1..k -> kept] : k \in 0..Len(list)}
           Sorted(f) == /\ kept = {f[i] : i \in DOMAIN f}
                        /\ \A i, j \in DOMAIN f : i < j => f[i] < f[j]
           at     == CHOOSE f \in Places : Sorted(f)
           rest   == [i \in DOMAIN at |-> list[at[i]]]
<1>1. DOMAIN list = 1..Len(list) /\ Len(list) \in Nat
  OBVIOUS
<1>2. PICK x \in 1..Len(list) : Edit!NameOf(list[x]) = n
  BY <1>1 DEF Edit!Named
<1>3. kept = (1..Len(list)) \ {x}
  BY <1>1, <1>2 DEF Edit!Distinct
<1>4. \E f \in Places : Sorted(f)
  <2> DEFINE m == Len(list) - 1
             g == [i \in 1..m |-> IF i < x THEN i ELSE i + 1]
  <2>1. m \in 0..Len(list)
    BY <1>1, <1>2
  <2>2. \A i \in 1..m : g[i] \in kept
    BY <1>1, <1>2, <1>3
  <2>3. g \in [1..m -> kept]
    BY <2>2
  <2>4. \A j \in kept : \E i \in 1..m : g[i] = j
    <3> TAKE j \in kept
    <3>1. CASE j < x
      <4>1. j \in 1..m /\ g[j] = j
        BY <1>1, <1>2, <1>3, <3>1
      <4> QED
        BY <4>1
    <3>2. CASE j > x
      <4>1. j - 1 \in 1..m /\ g[j - 1] = j
        BY <1>1, <1>2, <1>3, <3>2
      <4> QED
        BY <4>1
    <3> QED
      BY <1>1, <1>3, <3>1, <3>2
  <2>5. \A i, j \in 1..m : i < j => g[i] < g[j]
    BY <1>1, <1>2
  <2>6. DOMAIN g = 1..m
    OBVIOUS
  <2> HIDE DEF g, m, kept
  <2>7. kept = {g[i] : i \in DOMAIN g}
    BY <2>2, <2>4, <2>6
  <2>8. g \in Places
    BY <2>1, <2>3
  <2>9. Sorted(g)
    BY <2>5, <2>6, <2>7
  <2> QED
    BY <2>8, <2>9
<1>5. at \in Places /\ Sorted(at)
  <2> HIDE DEF Places, Sorted
  <2> QED
    BY <1>4
<1>6. Edit!Without(list, n) = rest
  BY DEF Edit!Without
<1> HIDE DEF at
<1>7. PICK m \in 0..Len(list) : at \in [1..m -> kept]
  BY <1>5
<1>8. m \in Nat /\ DOMAIN at = 1..m /\ \A i \in 1..m : at[i] \in 1..Len(list) /\ at[i] # x
  BY <1>1, <1>3, <1>7
<1>9. rest \in Seq(S) /\ DOMAIN rest = 1..m
  <2>1. \A i \in 1..m : list[at[i]] \in S
    BY <1>8
  <2> QED
    BY <1>8, <2>1
<1>10. Edit!Distinct(rest)
  <2> SUFFICES ASSUME NEW i \in 1..m, NEW j \in 1..m,
                      Edit!NameOf(list[at[i]]) = Edit!NameOf(list[at[j]])
               PROVE  i = j
    BY <1>8, <1>9 DEF Edit!Distinct
  <2>1. at[i] = at[j]
    BY <1>1, <1>8 DEF Edit!Distinct
  <2>2. at[i] \in Int /\ at[j] \in Int /\ ~(at[i] < at[j]) /\ ~(at[j] < at[i])
    BY <1>8, <2>1
  <2>3. \A a, b \in 1..m : a < b => at[a] < at[b]
    <3> HIDE DEF kept, Places
    <3> QED
      BY <1>5, <1>8
  <2>4. ~(i < j) /\ ~(j < i)
    BY <2>2, <2>3
  <2> QED
    BY <1>8, <2>4
<1>11. Edit!Named(rest) = Edit!Named(list) \ {n}
  <2>1. ASSUME NEW y \in Edit!Named(list) \ {n} PROVE y \in Edit!Named(rest)
    <3>1. PICK i \in 1..Len(list) : Edit!NameOf(list[i]) = y
      BY <1>1 DEF Edit!Named
    <3>2. i \in kept
      BY <1>1, <3>1
    <3>3. PICK j \in 1..m : at[j] = i
      BY <1>5, <1>8, <3>2
    <3> QED
      BY <1>8, <1>9, <3>1, <3>3 DEF Edit!Named
  <2>2. ASSUME NEW y \in Edit!Named(rest) PROVE y \in Edit!Named(list) \ {n}
    <3>1. PICK i \in 1..m : y = Edit!NameOf(list[at[i]])
      BY <1>8, <1>9 DEF Edit!Named
    <3>2. at[i] \in kept
      BY <1>7, <1>8
    <3> QED
      BY <1>1, <3>1, <3>2 DEF Edit!Named
  <2> QED
    BY <2>1, <2>2
<1> QED
  BY <1>6, <1>9, <1>10, <1>11

\* Naming one more, under a name the list has not.
LEMMA AppendOne ==
  ASSUME NEW S, NEW list \in Seq(S), Edit!Distinct(list), NEW x \in S, NEW n,
         n = Edit!NameOf(x), n \notin Edit!Named(list)
  PROVE  /\ Append(list, x) \in Seq(S) /\ Edit!Distinct(Append(list, x))
         /\ Edit!Named(Append(list, x)) = Edit!Named(list) \cup {n}
<1> DEFINE more == Append(list, x)
<1>1. /\ more \in Seq(S) /\ Len(list) \in Nat /\ DOMAIN list = 1..Len(list)
      /\ DOMAIN more = 1..(Len(list) + 1) /\ more[Len(list) + 1] = x
      /\ \A i \in 1..Len(list) : more[i] = list[i]
  OBVIOUS
<1> HIDE DEF more
<1>2. \A i \in DOMAIN more : i \in DOMAIN list \/ i = Len(list) + 1
  BY <1>1
<1>3. \A i \in DOMAIN list : i \in DOMAIN more /\ Edit!NameOf(list[i]) \in Edit!Named(list)
  BY <1>1 DEF Edit!Named
<1>4. Edit!Distinct(more)
  BY <1>1, <1>2, <1>3 DEF Edit!Distinct
<1>5. Edit!Named(more) = Edit!Named(list) \cup {Edit!NameOf(x)}
  <2>1. Len(list) + 1 \in DOMAIN more
    BY <1>1
  <2> QED
    BY <1>1, <1>2, <1>3, <2>1 DEF Edit!Named
<1> QED
  BY <1>1, <1>4, <1>5 DEF more

\* Two lists that agree: the same names, none twice, a root among them.
Paired(list, others) ==
  /\ list \in Seq([name : Names \cup {"root", "seed"}, bus : {"virtio"}])
  /\ others \in Seq([name : Names \cup {"root", "seed"}])
  /\ Edit!Distinct(list) /\ Edit!Distinct(others)
  /\ Edit!Named(list) = Edit!Named(others)
  /\ "root" \in Edit!Named(list)

PairedParts(s) == {"disks", "volumes"} \subseteq DOMAIN s /\ Paired(s.disks, s.volumes)

\* A patch says both of the two lists, or neither.
PairedBody(body) ==
  \/ DOMAIN body \cap {"disks", "volumes"} = {}
  \/ PairedParts(body)

LEMMA MergePaired ==
  ASSUME NEW s, PairedParts(s), NEW body, PairedBody(body)
  PROVE  PairedParts(Edit!Merge(s, body))
<1> DEFINE m == Edit!Merge(s, body)
<1>1. /\ DOMAIN m = DOMAIN s
      /\ \A p \in DOMAIN s : m[p] = IF p \in DOMAIN body THEN body[p] ELSE s[p]
  BY DEF Edit!Merge
<1> HIDE DEF m
<1>2. CASE DOMAIN body \cap {"disks", "volumes"} = {}
  <2>1. m.disks = s.disks /\ m.volumes = s.volumes
    BY <1>1, <1>2 DEF PairedParts
  <2> QED
    BY <1>1, <2>1 DEF PairedParts, m
<1>3. CASE PairedParts(body)
  <2>1. m.disks = body.disks /\ m.volumes = body.volumes
    BY <1>1, <1>3 DEF PairedParts
  <2> QED
    BY <1>1, <1>3, <2>1 DEF PairedParts, m
<1> QED
  BY <1>2, <1>3 DEF PairedBody

\* A disk is added with its volume, and under a name neither list has.
LEMMA AddPaired ==
  ASSUME NEW s, PairedParts(s), NEW n \in Names, n \notin Edit!Named(s.volumes)
  PROVE  PairedBody(Edit!AddParts(s, n))
<1> DEFINE All == Names \cup {"root", "seed"}
           d == [name |-> n, bus |-> "virtio"]
           v == [name |-> n]
<1>1. d \in [name : All, bus : {"virtio"}] /\ Edit!NameOf(d) = n
  BY DEF Edit!NameOf
<1>2. v \in [name : All] /\ Edit!NameOf(v) = n
  BY DEF Edit!NameOf
<1>3. Paired(s.disks, s.volumes) /\ n \notin Edit!Named(s.disks)
  BY DEF PairedParts, Paired
<1>4. /\ Append(s.disks, d) \in Seq([name : All, bus : {"virtio"}])
      /\ Edit!Distinct(Append(s.disks, d))
      /\ Edit!Named(Append(s.disks, d)) = Edit!Named(s.disks) \cup {n}
  <2> HIDE DEF d
  <2>1. s.disks \in Seq([name : All, bus : {"virtio"}]) /\ Edit!Distinct(s.disks)
        /\ Edit!NameOf(d) \notin Edit!Named(s.disks)
    BY <1>1, <1>3 DEF Paired
  <2> DEFINE T == [name : All, bus : {"virtio"}]  l == s.disks
  <2>2. l \in Seq(T) /\ d \in T /\ Edit!Distinct(l) /\ Edit!NameOf(d) = n /\ n \notin Edit!Named(l)
    BY <1>1, <2>1
  <2> HIDE DEF T, l
  <2>3. /\ Append(l, d) \in Seq(T) /\ Edit!Distinct(Append(l, d))
        /\ Edit!Named(Append(l, d)) = Edit!Named(l) \cup {n}
    BY <2>2, AppendOne
  <2> QED
    BY <2>3 DEF T, l
<1>5. /\ Append(s.volumes, v) \in Seq([name : All])
      /\ Edit!Distinct(Append(s.volumes, v))
      /\ Edit!Named(Append(s.volumes, v)) = Edit!Named(s.volumes) \cup {n}
  <2> HIDE DEF v
  <2>1. s.volumes \in Seq([name : All]) /\ Edit!Distinct(s.volumes)
        /\ Edit!NameOf(v) \notin Edit!Named(s.volumes)
    BY <1>2, <1>3 DEF Paired
  <2> DEFINE T == [name : All]  l == s.volumes
  <2>2. l \in Seq(T) /\ v \in T /\ Edit!Distinct(l) /\ Edit!NameOf(v) = n /\ n \notin Edit!Named(l)
    BY <1>2, <2>1
  <2> HIDE DEF T, l
  <2>3. /\ Append(l, v) \in Seq(T) /\ Edit!Distinct(Append(l, v))
        /\ Edit!Named(Append(l, v)) = Edit!Named(l) \cup {n}
    BY <2>2, AppendOne
  <2> QED
    BY <2>3 DEF T, l
<1>6. Paired(Append(s.disks, d), Append(s.volumes, v))
  BY <1>3, <1>4, <1>5 DEF Paired
<1> HIDE DEF d, v
<1> QED
  BY <1>6 DEF PairedBody, PairedParts, Edit!AddParts, d, v

\* A disk is taken out with its volume, and the root never.
LEMMA RemovePaired ==
  ASSUME NEW s, PairedParts(s), NEW n, ~Edit!RemoveRefused(s, n)
  PROVE  PairedBody(Edit!RemoveParts(s, n))
<1> DEFINE All == Names \cup {"root", "seed"}
           d == Edit!Without(s.disks, n)
           v == Edit!Without(s.volumes, n)
<1>1. Paired(s.disks, s.volumes) /\ n \in Edit!Named(s.disks) /\ n \in Edit!Named(s.volumes) /\ n # "root"
  BY DEF PairedParts, Paired, Edit!RemoveRefused
<1>2. /\ d \in Seq([name : All, bus : {"virtio"}])
      /\ Edit!Distinct(d) /\ Edit!Named(d) = Edit!Named(s.disks) \ {n}
  BY <1>1, WithoutOne DEF Paired
<1>3. /\ v \in Seq([name : All])
      /\ Edit!Distinct(v) /\ Edit!Named(v) = Edit!Named(s.volumes) \ {n}
  BY <1>1, WithoutOne DEF Paired
<1> HIDE DEF d, v
<1>4. Paired(d, v)
  BY <1>1, <1>2, <1>3 DEF Paired
<1> QED
  BY <1>4 DEF PairedBody, PairedParts, Edit!RemoveParts, d, v

\* What a request sends, where none sets the bus.
LEMMA BodyPaired ==
  ASSUME "bus" \notin Fields, NEW s, PairedParts(s), NEW e \in Edit!Edits,
         Edit!Body(s, e) # None
  PROVE  PairedBody(Edit!Body(s, e))
<1>1. CASE e.kind = "set"
  <2>1. e.field # "bus" /\ Edit!Body(s, e) = Edit!SetParts(s, e.field, e.value)
    BY <1>1 DEF Edit!Body, Edit!Edits
  <2>2. DOMAIN Edit!SetParts(s, e.field, e.value) \cap {"disks", "volumes"} = {}
    BY <2>1 DEF Edit!SetParts
  <2> QED
    BY <2>1, <2>2 DEF PairedBody
<1>2. CASE e.kind = "add"
  <2>1. ~Edit!AddRefused(s, e.value) /\ Edit!Body(s, e) = Edit!AddParts(s, e.value)
    BY <1>2 DEF Edit!Body
  <2>2. e.value \in Names \cup {"root", Bad}
    BY <1>2 DEF Edit!Edits
  <2>3. e.value \in Names /\ e.value \notin Edit!Named(s.volumes)
    BY <2>1, <2>2 DEF Edit!AddRefused, PairedParts, Paired
  <2> QED
    BY <2>1, <2>3, AddPaired
<1>3. CASE e.kind = "remove"
  BY <1>3, RemovePaired DEF Edit!Body
<1>4. CASE e.kind = "keys"
  <2>1. Edit!Body(s, e) = [creds |-> s.creds \cup {e.value}]
    BY <1>4 DEF Edit!Body
  <2> QED
    BY <2>1 DEF PairedBody
<1> QED
  BY <1>1, <1>2, <1>3, <1>4 DEF Edit!Edits

\* Whatever definition the server, the cache or a request has, its lists agree.
PairInv ==
  /\ def # None => PairedParts(def)
  /\ seen # None => PairedParts(seen)
  /\ DOMAIN op = Requests
  /\ \A o \in Requests : op[o].pc = "patch" => PairedBody(op[o].body)

LEMMA PairInit ==
  ASSUME Edit!Init
  PROVE  PairInv
<1> DEFINE madeDisks == <<[name |-> "root", bus |-> "virtio"], [name |-> "seed", bus |-> "virtio"]>>
           volumes == <<[name |-> "root"], [name |-> "seed"]>>
<1>1. Paired(madeDisks, volumes)
  BY DEF Paired, Edit!Distinct, Edit!Named, Edit!NameOf
<1>2. {"disks", "volumes"} \subseteq DOMAIN def /\ def.disks = madeDisks /\ def.volumes = volumes
  BY DEF Edit!Init, Edit!Created
<1>3. PairedParts(def)
  BY <1>1, <1>2 DEF PairedParts
<1> QED
  BY <1>3 DEF PairInv, Edit!Init, Edit!Idle

\* Telling the others is no patch of theirs.
LEMMA DisturbedPaired ==
  ASSUME PairInv, NEW o \in Requests, Edit!Disturbed(op)[o].pc = "patch"
  PROVE  PairedBody(Edit!Disturbed(op)[o].body)
<1>1. Edit!Disturbed(op)[o] = IF op[o].pc = "told" THEN [op[o] EXCEPT !.alone = FALSE] ELSE op[o]
  BY DEF Edit!Disturbed
<1> QED
  BY <1>1 DEF PairInv

LEMMA PairStep ==
  ASSUME "bus" \notin Fields, PairInv, [Edit!Next]_(Edit!vars)
  PROVE  PairInv'
<1>1. CASE UNCHANGED Edit!vars
  BY <1>1 DEF Edit!vars, PairInv
<1>2. CASE Edit!KubeVirt
  BY <1>2 DEF Edit!KubeVirt, Edit!Start, Edit!Stop, PairInv
<1>3. CASE Edit!OutsideEdit
  <2>1. ASSUME NEW body \in Edit!OutsideParts(def), def # None
        PROVE  PairedParts(Edit!Merge(def, body))
    <3>1. PairedBody(body)
      <4>1. CASE \E n \in Names \ Edit!Named(def.volumes) : body = Edit!AddParts(def, n)
        BY <4>1, <2>1, AddPaired DEF PairInv
      <4>2. CASE body = [iface |-> ~def.iface]
        BY <4>2 DEF PairedBody
      <4>3. CASE \E v \in Values : body = [iface |-> TRUE, ifbridge |-> v]
        BY <4>3 DEF PairedBody
      <4> QED
        BY <2>1, <4>1, <4>2, <4>3 DEF Edit!OutsideParts
    <3> QED
      BY <2>1, <3>1, MergePaired DEF PairInv
  <2>2. def' # None => PairedParts(def')
    BY <1>3, <2>1 DEF Edit!OutsideEdit
  <2>3. DOMAIN op' = Requests /\ op' = Edit!Disturbed(op) /\ seen' = seen
    BY <1>3 DEF Edit!OutsideEdit, Edit!Disturbed
  <2> QED
    BY <2>2, <2>3, DisturbedPaired DEF PairInv
<1>4. CASE Edit!WatchDefinition
  BY <1>4 DEF Edit!WatchDefinition, PairInv
<1>5. ASSUME NEW o \in Requests, Edit!Patched(o) \/ Edit!PatchFailed(o)
      PROVE  PairInv'
  <2>1. PairedBody(op[o].body)
    BY <1>5 DEF Edit!Patched, Edit!PatchFailed, Edit!At, PairInv
  <2>2. def' # None => PairedParts(def')
    BY <1>5, <2>1, MergePaired DEF Edit!Patched, Edit!PatchFailed, PairInv
  <2>3. seen' # None => PairedParts(seen')
    BY <1>5, <2>2 DEF Edit!Patched, Edit!PatchFailed, PairInv
  <2>4. \E ops \in {op, Edit!Disturbed(op)}, x \in {Edit!Idle, [pc |-> "told", edit |-> op[o].edit, alone |-> TRUE]} :
          op' = [ops EXCEPT ![o] = x]
    BY <1>5, Zenon DEF Edit!Patched, Edit!PatchFailed, Edit!Fail
  <2>5. DOMAIN Edit!Disturbed(op) = Requests
    BY DEF Edit!Disturbed
  <2>6. /\ DOMAIN op' = Requests
        /\ \A q \in Requests : \/ op'[q].pc # "patch"
                               \/ op'[q] = op[q]
                               \/ op'[q] = Edit!Disturbed(op)[q]
    BY <2>4, <2>5 DEF PairInv, Edit!Idle
  <2> QED
    BY <2>2, <2>3, <2>6, DisturbedPaired DEF PairInv
<1>6. ASSUME NEW o \in Requests, Edit!Leave(o)
      PROVE  PairInv'
  BY <1>6 DEF Edit!Leave, Edit!Fail, Edit!Idle, PairInv
<1>7. ASSUME NEW o \in Requests, NEW e \in Edit!Edits, Edit!Ask(o, e)
      PROVE  PairInv'
  <2> DEFINE body == Edit!Body(seen, e)
  <2>1. seen # None /\ body # None /\ UNCHANGED <<def, seen>>
        /\ op' = [op EXCEPT ![o] = [pc |-> "patch", edit |-> e, body |-> body]]
    BY <1>7 DEF Edit!Ask
  <2>2. PairedBody(body)
    BY <2>1, BodyPaired DEF PairInv
  <2> HIDE DEF body
  <2> QED
    BY <2>1, <2>2 DEF PairInv
<1> QED
  BY <1>1, <1>2, <1>3, <1>4, <1>5, <1>6, <1>7 DEF Edit!Next, Edit!Handler, Edit!Page

-----------------------------------------------------------------------------
(* What an edit said is what the form shows. *)

\* The form's reading of a definition is the value asked for; a floor the size of the
\* machine reads as none.
Fits(e, d) ==
  \/ e.field = "memory_floor" /\ Edit!Asked(e) = Edit!Memory(d)
  \/ Edit!Read(e.field, d) = Edit!Asked(e)

PartNames ==
  {"cores", "guest", "request", "hostname", "screen", "vga", "vgamem", "secure", "node",
   "iface", "bridge", "ifbridge", "net", "disks"}

\* A machine says every part, and how large it is.
Whole(s) == PartNames \subseteq DOMAIN s /\ s.cores # Blank /\ s.guest # Blank

\* A patch leaves no machine without a size; a setting's is the parts of that setting,
\* made of whatever the cache held.
SaysIt(e, body) ==
  /\ "cores" \in DOMAIN body => body.cores # Blank
  /\ "guest" \in DOMAIN body => body.guest # Blank
  /\ e.kind = "set" => /\ e.field \in Edit!AllFields \ {"ssh_key"}
                       /\ \E s : body = Edit!SetParts(s, e.field, e.value)

LEMMA MergeWhole ==
  ASSUME NEW s, Whole(s), NEW body,
         "cores" \in DOMAIN body => body.cores # Blank,
         "guest" \in DOMAIN body => body.guest # Blank
  PROVE  Whole(Edit!Merge(s, body))
  BY DEF Whole, PartNames, Edit!Merge

\* The setting, written, reads as it was asked for - the network's as far as the answer
\* showed it.
LEMMA MergeFits ==
  ASSUME NEW s, Whole(s), NEW e, NEW body, SaysIt(e, body), e.kind = "set",
         Edit!Taken(e, Edit!Merge(s, body))
  PROVE  Fits(e, Edit!Merge(s, body))
<1> DEFINE m == Edit!Merge(s, body)
<1>1. PICK x : body = Edit!SetParts(x, e.field, e.value)
  BY DEF SaysIt
<1>2. /\ \A p \in PartNames : m[p] = IF p \in DOMAIN body THEN body[p] ELSE s[p]
      /\ e.field \in Edit!AllFields \ {"ssh_key"}
  BY DEF Edit!Merge, Whole, SaysIt
<1>3. CASE e.field = "network"
  BY <1>3 DEF Edit!Taken, Fits, Edit!Read, Edit!Asked
<1> HIDE DEF m
<1>4. CASE e.field = "memory"
  <2>1. body = [guest |-> e.value]
    BY <1>1, <1>4 DEF Edit!SetParts
  <2>2. m.guest = e.value /\ e.value # Blank
    BY <1>2, <2>1 DEF PartNames, SaysIt
  <2> QED
    BY <1>4, <2>2 DEF Fits, Edit!Read, Edit!Memory, Edit!Asked, m
<1>5. CASE e.field = "memory_floor"
  <2>1. body = [request |-> e.value]
    BY <1>1, <1>5 DEF Edit!SetParts
  <2>2. m.request = e.value
    BY <1>2, <2>1 DEF PartNames
  <2> QED
    BY <1>5, <2>2 DEF Fits, Edit!Read, Edit!Asked, m
<1>6. CASE e.field = "bus"
  <2>1. body = [disks |-> <<[name |-> None, bus |-> e.value]>>]
    BY <1>1, <1>6 DEF Edit!SetParts
  <2>2. m.disks = <<[name |-> None, bus |-> e.value]>>
    BY <1>2, <2>1 DEF PartNames
  <2>3. m.disks # <<>> /\ m.disks[1].bus = e.value
    BY <2>2
  <2> QED
    BY <1>6, <2>3 DEF Fits, Edit!Read, Edit!Asked, m
<1>7. CASE e.field = "display"
  <2>1. body = [vga |-> e.value, screen |-> e.value # Blank]
    BY <1>1, <1>7 DEF Edit!SetParts
  <2>2. m.vga = e.value /\ m.screen = (e.value # Blank)
    BY <1>2, <2>1 DEF PartNames
  <2> QED
    BY <1>7, <2>2 DEF Fits, Edit!Read, Edit!Asked, m
<1>8. CASE e.field = "secure_boot"
  <2>1. body = [secure |-> e.value \in Values]
    BY <1>1, <1>8 DEF Edit!SetParts
  <2>2. m.secure = (e.value \in Values)
    BY <1>2, <2>1 DEF PartNames
  <2> QED
    BY <1>8, <2>2 DEF Fits, Edit!Read, Edit!Asked, m
<1>9. CASE e.field \in {"cores", "hostname", "node"}
  <2>1. m[e.field] = e.value
    BY <1>1, <1>2, <1>9 DEF PartNames, Edit!SetParts
  <2> QED
    BY <1>9, <2>1, SMTT(30) DEF Fits, Edit!Read, Edit!Asked, m
<1>10. CASE e.field = "vga_memory"
  <2>1. body = [vgamem |-> e.value]
    BY <1>1, <1>10 DEF Edit!SetParts
  <2>2. m.vgamem = e.value
    BY <1>2, <2>1 DEF PartNames
  <2> QED
    BY <1>10, <2>2 DEF Fits, Edit!Read, Edit!Asked, m
<1> QED
  BY <1>2, <1>3, <1>4, <1>5, <1>6, <1>7, <1>8, <1>9, <1>10 DEF Edit!AllFields

ToldOf(es) == [pc : {"told"}, edit : es, alone : BOOLEAN]

\* Who was told, and wrote last, was told what the definition still says.
ShowInv ==
  /\ def # None => Whole(def)
  /\ inst # None => Whole(inst)
  /\ DOMAIN op = Requests
  /\ \A o \in Requests :
       /\ op[o].pc \in {"idle", "patch", "told"}
       /\ op[o].pc = "patch" => SaysIt(op[o].edit, op[o].body)
       /\ op[o].pc = "told" =>
            /\ op[o] \in ToldOf({op[o].edit})
            /\ op[o].edit.kind = "set" =>
                 /\ op[o].edit.field \in Edit!AllFields \ {"ssh_key"}
                 /\ op[o].alone /\ def # None => Fits(op[o].edit, def)

LEMMA ShowInit ==
  ASSUME Edit!Init
  PROVE  ShowInv
<1>1. def.cores \in Sizes /\ def.guest \in Sizes /\ PartNames \subseteq DOMAIN def
  BY DEF Edit!Init, Edit!Created, PartNames
<1>2. Whole(def)
  BY <1>1, EditAssumption DEF Whole
<1> QED
  BY <1>2 DEF Edit!Init, Edit!Idle, ShowInv

\* A request others were told of before the definition was written again is no
\* witness of it.
LEMMA DisturbedTold ==
  ASSUME ShowInv, NEW o \in Requests
  PROVE  LET x == Edit!Disturbed(op)[o]
         IN  /\ x.pc \in {"idle", "patch", "told"}
             /\ x.pc = "patch" => SaysIt(x.edit, x.body)
             /\ x.pc = "told" =>
                  /\ x \in ToldOf({x.edit}) /\ ~x.alone
                  /\ x.edit.kind = "set" => x.edit.field \in Edit!AllFields \ {"ssh_key"}
<1>1. Edit!Disturbed(op)[o] = IF op[o].pc = "told" THEN [op[o] EXCEPT !.alone = FALSE] ELSE op[o]
  BY DEF Edit!Disturbed
<1>2. CASE op[o].pc = "told"
  <2>1. op[o] \in ToldOf({op[o].edit})
    BY <1>2 DEF ShowInv
  <2>2. Edit!Disturbed(op)[o] = [pc |-> "told", edit |-> op[o].edit, alone |-> FALSE]
    BY <1>1, <1>2, <2>1 DEF ToldOf
  <2> QED
    BY <1>2, <2>2 DEF ShowInv, ToldOf
<1>3. CASE op[o].pc # "told"
  BY <1>1, <1>3 DEF ShowInv
<1> QED
  BY <1>2, <1>3

\* What is sent says what was asked.
LEMMA BodySays ==
  ASSUME NEW s, NEW e \in Edit!Edits, Edit!Body(s, e) # None
  PROVE  SaysIt(e, Edit!Body(s, e))
<1>1. CASE e.kind = "set"
  <2>1. e.field \in Fields /\ Edit!Accepted(e.field, e.value)
        /\ Edit!Body(s, e) = Edit!SetParts(s, e.field, e.value)
    BY <1>1 DEF Edit!Body, Edit!Edits
  <2>2. e.field \in Edit!AllFields \ {"ssh_key"}
    BY <2>1, EditAssumption DEF Edit!Accepted
  <2> DEFINE b == Edit!SetParts(s, e.field, e.value)
  <2>3. "cores" \in DOMAIN b => b.cores # Blank
    BY <2>1 DEF Edit!SetParts, Edit!Accepted, Edit!NeedsValue
  <2>4. "guest" \in DOMAIN b => b.guest # Blank
    BY <2>1 DEF Edit!SetParts, Edit!Accepted, Edit!NeedsValue
  <2> HIDE DEF b
  <2> QED
    BY <2>1, <2>2, <2>3, <2>4 DEF SaysIt, b
<1>2. CASE e.kind = "add"
  BY <1>2 DEF Edit!Body, Edit!AddParts, SaysIt
<1>3. CASE e.kind = "remove"
  BY <1>3 DEF Edit!Body, Edit!RemoveParts, SaysIt
<1>4. CASE e.kind = "keys"
  BY <1>4 DEF Edit!Body, SaysIt
<1> QED
  BY <1>1, <1>2, <1>3, <1>4 DEF Edit!Edits

LEMMA ShowStep ==
  ASSUME ShowInv, [Edit!Next]_(Edit!vars)
  PROVE  ShowInv'
<1>1. CASE UNCHANGED Edit!vars
  BY <1>1 DEF Edit!vars, ShowInv
<1>2. CASE Edit!KubeVirt
  BY <1>2 DEF Edit!KubeVirt, Edit!Start, Edit!Stop, ShowInv
<1>3. CASE Edit!WatchDefinition
  BY <1>3 DEF Edit!WatchDefinition, ShowInv
<1>4. CASE Edit!OutsideEdit
  <2>1. def' # None => Whole(def')
    <3>1. ASSUME NEW body \in Edit!OutsideParts(def), def # None
          PROVE  Whole(Edit!Merge(def, body))
      <4>1. "cores" \notin DOMAIN body /\ "guest" \notin DOMAIN body
        <5>1. CASE \E n \in Names : body = Edit!AddParts(def, n)
          BY <5>1 DEF Edit!AddParts
        <5>2. CASE body = [iface |-> ~def.iface]
          BY <5>2
        <5>3. CASE \E v \in Values : body = [iface |-> TRUE, ifbridge |-> v]
          BY <5>3
        <5> QED
          BY <3>1, <5>1, <5>2, <5>3 DEF Edit!OutsideParts
      <4> QED
        BY <3>1, <4>1, MergeWhole DEF ShowInv
    <3> QED
      BY <1>4, <3>1 DEF Edit!OutsideEdit
  <2>2. DOMAIN op' = Requests /\ op' = Edit!Disturbed(op) /\ inst' = inst
    BY <1>4 DEF Edit!OutsideEdit, Edit!Disturbed
  <2> QED
    BY <2>1, <2>2, DisturbedTold DEF ShowInv
<1>5. ASSUME NEW o \in Requests, op[o].pc = "patch", def # None, def' = Edit!Merge(def, op[o].body),
             UNCHANGED inst, NEW x, op' = [Edit!Disturbed(op) EXCEPT ![o] = x],
             \/ x = Edit!Idle
             \/ /\ x = [pc |-> "told", edit |-> op[o].edit, alone |-> TRUE]
                /\ Edit!Taken(op[o].edit, def')
      PROVE  ShowInv'
  <2>1. SaysIt(op[o].edit, op[o].body) /\ Whole(def)
    BY <1>5 DEF ShowInv
  <2>2. Whole(def')
    BY <1>5, <2>1, MergeWhole DEF SaysIt
  <2>3. /\ x.pc \in {"idle", "told"}
        /\ x.pc = "told" => /\ x \in ToldOf({x.edit}) /\ x.edit = op[o].edit
                            /\ x.edit.kind = "set" => Fits(x.edit, def')
                            /\ x.edit.kind = "set" => x.edit.field \in Edit!AllFields \ {"ssh_key"}
    <3>1. CASE x = Edit!Idle
      BY <3>1 DEF Edit!Idle
    <3>2. CASE x = [pc |-> "told", edit |-> op[o].edit, alone |-> TRUE] /\ Edit!Taken(op[o].edit, def')
      <4>1. op[o].edit.kind = "set" => Fits(op[o].edit, def')
        BY <1>5, <2>1, <3>2, MergeFits
      <4>2. x.pc = "told" /\ x.edit = op[o].edit /\ x \in ToldOf({op[o].edit})
        BY <3>2 DEF ToldOf
      <4> QED
        BY <2>1, <4>1, <4>2 DEF SaysIt
    <3> QED
      BY <1>5, <3>1, <3>2
  <2>4. DOMAIN Edit!Disturbed(op) = Requests
    BY DEF Edit!Disturbed
  <2>5. DOMAIN op' = Requests /\ \A q \in Requests : op'[q] = IF q = o THEN x ELSE Edit!Disturbed(op)[q]
    BY <1>5, <2>4
  <2>6. ASSUME NEW q \in Requests
        PROVE  /\ op'[q].pc \in {"idle", "patch", "told"}
               /\ op'[q].pc = "patch" => SaysIt(op'[q].edit, op'[q].body)
               /\ op'[q].pc = "told" =>
                    /\ op'[q] \in ToldOf({op'[q].edit})
                    /\ op'[q].edit.kind = "set" =>
                         /\ op'[q].edit.field \in Edit!AllFields \ {"ssh_key"}
                         /\ op'[q].alone /\ def' # None => Fits(op'[q].edit, def')
    <3>1. CASE q = o
      BY <2>3, <2>5, <3>1
    <3>2. CASE q # o
      BY <2>5, <3>2, DisturbedTold
    <3> QED
      BY <3>1, <3>2
  <2> QED
    BY <1>5, <2>2, <2>5, <2>6 DEF ShowInv
<1>6. ASSUME NEW o \in Requests, NEW x, op' = [op EXCEPT ![o] = x], UNCHANGED <<def, inst>>,
             x = Edit!Idle \/ (x.pc = "patch" /\ SaysIt(x.edit, x.body))
      PROVE  ShowInv'
  <2>1. DOMAIN op' = Requests /\ \A q \in Requests : op'[q] = IF q = o THEN x ELSE op[q]
    BY <1>6 DEF ShowInv
  <2>2. x.pc \in {"idle", "patch"} /\ (x.pc = "patch" => SaysIt(x.edit, x.body))
    BY <1>6 DEF Edit!Idle
  <2> QED
    BY <1>6, <2>1, <2>2 DEF ShowInv
<1>7. ASSUME NEW o \in Requests, Edit!Patched(o)
      PROVE  ShowInv'
  BY <1>5, <1>7 DEF Edit!Patched, Edit!At
<1>8. ASSUME NEW o \in Requests, Edit!PatchFailed(o)
      PROVE  ShowInv'
  BY <1>5, <1>6, <1>8 DEF Edit!PatchFailed, Edit!At, Edit!Fail
<1>9. ASSUME NEW o \in Requests, Edit!Leave(o)
      PROVE  ShowInv'
  BY <1>6, <1>9 DEF Edit!Leave, Edit!Fail
<1>10. ASSUME NEW o \in Requests, NEW e \in Edit!Edits, Edit!Ask(o, e)
       PROVE  ShowInv'
  <2> DEFINE body == Edit!Body(seen, e)
             x    == [pc |-> "patch", edit |-> e, body |-> body]
  <2>1. body # None /\ UNCHANGED <<def, inst>> /\ op' = [op EXCEPT ![o] = x]
    BY <1>10 DEF Edit!Ask
  <2>2. SaysIt(e, body)
    BY <2>1, BodySays
  <2>3. x.pc = "patch" /\ x.edit = e /\ x.body = body
    OBVIOUS
  <2> HIDE DEF body, x
  <2> QED
    BY <1>6, <2>1, <2>2, <2>3
<1> QED
  BY <1>1, <1>2, <1>3, <1>4, <1>7, <1>8, <1>9, <1>10 DEF Edit!Next, Edit!Handler, Edit!Page

\* The form shows it; and where the instance still runs something else, it is pending.
LEMMA ShowIsShown ==
  ASSUME ShowInv
  PROVE  Edit!EditShows
<1> SUFFICES ASSUME NEW o \in Requests, op[o].pc = "told", op[o].alone,
                    op[o].edit.kind = "set", def # None,
                    NEW f, f = op[o].edit.field, NEW v, v = Edit!Asked(op[o].edit)
             PROVE  \/ f = "memory_floor" /\ v = Edit!Memory(def)
                    \/ /\ Edit!Shown(f, def, inst) = v
                       /\ inst # None /\ Edit!Read(f, inst) # v =>
                            f \in Edit!Settings(def, inst, TRUE).pending
  BY DEF Edit!EditShows, Edit!At
<1>1. f \in Edit!AllFields \ {"ssh_key"} /\ Fits(op[o].edit, def)
  BY DEF ShowInv
<1>2. Edit!Shown(f, def, inst) = Edit!Read(f, def)
  BY DEF Edit!Shown
<1>3. ASSUME inst # None, Edit!Read(f, inst) # v, Edit!Shown(f, def, inst) = v
      PROVE  f \in Edit!Settings(def, inst, TRUE).pending
  <2>1. inst.cores # Blank /\ inst.guest # Blank
    BY <1>3 DEF ShowInv, Whole
  <2>2. f \in {"cores", "memory"} => Edit!Read(f, inst) # Blank
    BY <2>1 DEF Edit!Read, Edit!Memory
  <2>3. f \in Edit!Pending(def, inst)
    BY <1>1, <1>3, <2>2 DEF Edit!Pending
  <2> QED
    BY <2>3 DEF Edit!Settings
<1> QED
  BY <1>1, <1>2, <1>3 DEF Fits

LEMMA PairIsPaired ==
  ASSUME PairInv
  PROVE  Edit!DisksPaired
  BY DEF PairInv, PairedParts, Paired, Edit!DisksPaired

-----------------------------------------------------------------------------
(* The root disk of a new machine. *)

FormType ==
  [pc : {"golden", "wait", "place", "made"}, kind : {"reference", "volume", "medium"},
   of : Images \cup Media, pinned : BOOLEAN, disk : {None, "volume", "medium", "local name"}]

\* A choice on its way to a disk: a reference until it is placed, an image's; by
\* then it names a volume, or is the local name on the node it is pinned to, where
\* its copy was asked for when the operator took it.
FormKept ==
  /\ form.pc \in {"golden", "wait"} => form.of \in Images
  /\ form.pc \in {"place", "made"} => (form.disk = "local name" => form.pinned)
  /\ form.pc = "made" /\ form.pinned => form.of \in onNode \cup placing

DiskInv ==
  /\ image \in [Images -> [phase : Disk!Phases, named : BOOLEAN]]
  /\ form = Disk!NoForm \/ form \in FormType
  /\ FormKept
  /\ \A c \in offered : c.kind = "volume" => c.of \in Disk!Sealed

LEMMA DiskInit ==
  ASSUME Disk!Init
  PROVE  DiskInv
  BY DEF Disk!Init, DiskInv, FormKept, Disk!NoForm, Disk!Phases, Disk!Sealed

\* What is sealed stays sealed, whatever happens to an image.
LEMMA SealedStays ==
  ASSUME DiskInv, Disk!Next
  PROVE  Disk!Sealed \subseteq Disk!Sealed' /\ image' \in [Images -> [phase : Disk!Phases, named : BOOLEAN]]
<1> USE DEF DiskInv, Disk!Phases
<1>1. ASSUME NEW i \in Images, NEW to \in [phase : Disk!Phases, named : BOOLEAN],
             image[i].phase # "available" \/ to.phase = "available", image' = [image EXCEPT ![i] = to]
      PROVE  Disk!Sealed \subseteq Disk!Sealed' /\ image' \in [Images -> [phase : Disk!Phases, named : BOOLEAN]]
  BY <1>1 DEF Disk!Sealed
<1>2. ASSUME image' = image
      PROVE  Disk!Sealed \subseteq Disk!Sealed' /\ image' \in [Images -> [phase : Disk!Phases, named : BOOLEAN]]
  BY <1>2 DEF Disk!Sealed
<1>3. ASSUME NEW i \in Images, Disk!Build(i) \/ Disk!BuildFails(i)
      PROVE  Disk!Sealed \subseteq Disk!Sealed' /\ image' \in [Images -> [phase : Disk!Phases, named : BOOLEAN]]
  <2>1. image[i] \in [phase : Disk!Phases, named : BOOLEAN] /\ image[i].phase = "building"
    BY <1>3 DEF Disk!Build, Disk!BuildFails
  <2>2. \E to \in {[image[i] EXCEPT !.named = TRUE], [image[i] EXCEPT !.phase = "available"],
                   [image[i] EXCEPT !.phase = "failed"]} : image' = [image EXCEPT ![i] = to]
    BY <1>3, Zenon DEF Disk!Build, Disk!BuildFails
  <2>3. \A to \in {[image[i] EXCEPT !.named = TRUE], [image[i] EXCEPT !.phase = "available"],
                   [image[i] EXCEPT !.phase = "failed"]} : to \in [phase : Disk!Phases, named : BOOLEAN]
    BY <2>1
  <2> QED
    BY <1>1, <2>1, <2>2, <2>3
<1>4. ASSUME NEW i \in Images, Disk!AskedElsewhere(i)
      PROVE  Disk!Sealed \subseteq Disk!Sealed' /\ image' \in [Images -> [phase : Disk!Phases, named : BOOLEAN]]
  BY <1>1, <1>4 DEF Disk!AskedElsewhere
<1>5. ASSUME Disk!Golden
      PROVE  Disk!Sealed \subseteq Disk!Sealed' /\ image' \in [Images -> [phase : Disk!Phases, named : BOOLEAN]]
  <2>1. form.of \in Images
    BY <1>5 DEF Disk!Golden, FormKept
  <2> QED
    BY <1>1, <1>2, <1>5, <2>1 DEF Disk!Golden
<1> QED
  BY <1>2, <1>3, <1>4, <1>5
     DEF Disk!Next, Disk!Copied, Disk!Poll, Disk!Submit, Disk!WaitDigest, Disk!Deadline,
         Disk!Place, Disk!Leave

\* The list offers what is sealed, or what it offered before.
LEMMA OfferedStays ==
  ASSUME DiskInv, Disk!Next
  PROVE  \A c \in offered' : c.kind = "volume" => c.of \in Disk!Sealed'
<1>1. Disk!Sealed \subseteq Disk!Sealed'
  BY SealedStays
<1>2. CASE Disk!Poll
  BY <1>1, <1>2 DEF DiskInv, Disk!Poll, Disk!Put, Disk!Fetched, Disk!Choice
<1>3. CASE offered' = offered
  BY <1>1, <1>3 DEF DiskInv
<1> QED
  BY <1>2, <1>3
     DEF Disk!Next, Disk!Build, Disk!BuildFails, Disk!AskedElsewhere, Disk!Copied, Disk!Submit,
         Disk!Golden, Disk!WaitDigest, Disk!Deadline, Disk!Place, Disk!Leave

\* A form's step: what it asks to be copied is asked before the machine is made of it.
LEMMA FormStep ==
  ASSUME DiskInv, Disk!Golden \/ Disk!WaitDigest \/ Disk!Deadline \/ Disk!Place \/ Disk!Leave
  PROVE  (form' = Disk!NoForm \/ form' \in FormType) /\ FormKept'
<1>1. CASE form' = Disk!NoForm
  BY <1>1 DEF Disk!NoForm, FormKept
<1>2. CASE form' # Disk!NoForm
  <2>1. form \in FormType
    <3>1. form.pc # "none"
      BY DEF Disk!Golden, Disk!WaitDigest, Disk!Deadline, Disk!Place, Disk!Leave
    <3> QED
      BY <3>1 DEF DiskInv, Disk!NoForm
  <2>2. CASE Disk!Golden
    BY <1>2, <2>1, <2>2 DEF DiskInv, Disk!Golden, Disk!Refuse, FormType, FormKept
  <2>3. CASE Disk!WaitDigest
    BY <1>2, <2>1, <2>3 DEF DiskInv, Disk!WaitDigest, Disk!Named, Disk!Refuse, FormType, FormKept
  <2>4. CASE Disk!Deadline
    BY <1>2, <2>1, <2>4 DEF DiskInv, Disk!Deadline, Disk!Named, Disk!Refuse, FormType, FormKept
  <2>5. CASE Disk!Place
    BY <1>2, <2>1, <2>5 DEF DiskInv, Disk!Place, Disk!Refuse, FormType, FormKept
  <2>6. CASE Disk!Leave
    BY <1>2, <2>6 DEF Disk!Leave, Disk!Refuse
  <2> QED
    BY <2>2, <2>3, <2>4, <2>5, <2>6
<1> QED
  BY <1>1, <1>2

LEMMA DiskStep ==
  ASSUME DiskInv, [Disk!Next]_(Disk!vars)
  PROVE  DiskInv'
<1>1. CASE UNCHANGED Disk!vars
  BY <1>1 DEF Disk!vars, DiskInv, FormKept, Disk!Sealed
<1>2. ASSUME Disk!Next, (form' = Disk!NoForm \/ form' \in FormType) /\ FormKept'
      PROVE  DiskInv'
  BY <1>2, SealedStays, OfferedStays DEF DiskInv
<1>3. ASSUME Disk!Next, UNCHANGED form, onNode \cup placing \subseteq onNode' \cup placing'
      PROVE  DiskInv'
  BY <1>2, <1>3 DEF DiskInv, FormKept
<1>4. ASSUME NEW i \in Images,
             Disk!Build(i) \/ Disk!BuildFails(i) \/ Disk!AskedElsewhere(i) \/ Disk!Copied(i)
      PROVE  DiskInv'
  BY <1>3, <1>4 DEF Disk!Next, Disk!Build, Disk!BuildFails, Disk!AskedElsewhere, Disk!Copied
<1>5. CASE Disk!Poll
  BY <1>3, <1>5 DEF Disk!Next, Disk!Poll
<1>6. ASSUME Disk!Next, NEW k \in {"reference", "volume", "medium"}, NEW x \in Images \cup Media,
             NEW pinned \in BOOLEAN, k = "reference" => x \in Images,
             Disk!Submit(Disk!Choice(k, x), pinned)
      PROVE  DiskInv'
  <2>1. form' \in FormType /\ FormKept'
    BY <1>6 DEF Disk!Submit, Disk!Choice, FormType, FormKept
  <2> QED
    BY <1>2, <1>6, <2>1
<1>7. CASE Disk!Golden \/ Disk!WaitDigest \/ Disk!Deadline \/ Disk!Place \/ Disk!Leave
  BY <1>2, <1>7, FormStep DEF Disk!Next
<1> QED
  BY <1>1, <1>4, <1>5, <1>6, <1>7 DEF Disk!Next

LEMMA MadeIsKept ==
  ASSUME DiskInv
  PROVE  Disk!NamesAVolume
  BY DEF DiskInv, FormKept, Disk!NamesAVolume

LEMMA OfferedIsSealed ==
  ASSUME DiskInv
  PROVE  Disk!OfferedIsTaken
  BY DEF DiskInv, Disk!Sealed, Disk!OfferedIsTaken

-----------------------------------------------------------------------------
(***************************************************************************)
(* What the pages are computed from.                                       *)
(***************************************************************************)

\* A behaviour of the pages that is of one view is one of its module.
LEMMA ViewPage ==
  /\ PagesInit => /\ part = "machine" => Machine!Init
                  /\ part = "cluster" => Cluster!Init
                  /\ part = "drive"   => Drive!Init
                  /\ part = "image"   => Image!Init
                  /\ part = "block"   => Block!Init
                  /\ part = "fleet"   => Fleet!Init
                  /\ part = "pod"     => Pod!Init
                  /\ part = "record"  => Record!Init
                  /\ part = "history" => History!Init
  /\ PagesNext => /\ part = "machine" => Machine!Next
                  /\ part = "cluster" => Cluster!Next
                  /\ part = "drive"   => Drive!Next
                  /\ part = "image"   => Image!Next
                  /\ part = "block"   => Block!Next
                  /\ part = "fleet"   => Fleet!Next
                  /\ part = "pod"     => Pod!Next
                  /\ part = "record"  => Record!Next
                  /\ part = "history" => History!Next
<1>1. ASSUME PagesInit
      PROVE  /\ part = "machine" => Machine!Init
             /\ part = "cluster" => Cluster!Init
             /\ part = "drive"   => Drive!Init
             /\ part = "image"   => Image!Init
             /\ part = "block"   => Block!Init
             /\ part = "fleet"   => Fleet!Init
             /\ part = "pod"     => Pod!Init
             /\ part = "record"  => Record!Init
             /\ part = "history" => History!Init
  BY <1>1 DEF PagesInit, ViewInit
<1>2. ASSUME PagesNext
      PROVE  /\ part = "machine" => Machine!Next
             /\ part = "cluster" => Cluster!Next
             /\ part = "drive"   => Drive!Next
             /\ part = "image"   => Image!Next
             /\ part = "block"   => Block!Next
             /\ part = "fleet"   => Fleet!Next
             /\ part = "pod"     => Pod!Next
             /\ part = "record"  => Record!Next
             /\ part = "history" => History!Next
  BY <1>2 DEF PagesNext, ViewNext
<1> QED
  BY <1>1, <1>2

\* A machine's row is looked at by somebody who sees its project, on a node with stormvm.
MachineInv ==
  card = "row" =>
    /\ {"hidden", "stormvm"} \subseteq DOMAIN world
    /\ world.hidden = FALSE /\ world.stormvm = "up"

LEMMA MachineStep ==
  /\ Machine!Init => MachineInv
  /\ MachineInv /\ Machine!Next => MachineInv'
<1>1. ASSUME Machine!Init PROVE MachineInv
  BY <1>1 DEF Machine!Init, Machine!Quiet, MachineInv
<1>2. ASSUME MachineInv, NEW p \in DOMAIN world, Machine!Event(p) PROVE MachineInv'
  <2>1. PICK v : world' = [world EXCEPT ![p] = v]
    BY <1>2 DEF Machine!Event
  <2>2. card' = card /\ (card = "row" => p \notin {"hidden", "stormvm"})
    BY <1>2 DEF Machine!Event, Machine!Varies
  <2> QED
    BY <1>2, <2>1, <2>2 DEF MachineInv
<1> QED
  BY <1>1, <1>2 DEF Machine!Next

\* A machine's verbs are enabled by what its handlers look at.
LEMMA MachineOffers ==
  ASSUME MachineInv
  PROVE  Machine!OfferedIsTaken
<1> DEFINE w == world
<1>1. ASSUME card = "row", Machine!Row(w) # None
      PROVE  /\ \A v \in Machine!Row(w).verbs \cup {"delete"} : ~Machine!VerbRefused(w, v)
             /\ \A v \in Machine!Row(w).controls : ~Machine!ControlRefused(w, v)
  <2>1. Machine!Rows(w) # 0
    BY <1>1 DEF Machine!Row
  <2>2. Machine!Row(w).verbs = Machine!Verbs(w) /\ Machine!Row(w).controls = Machine!Controls(w)
    BY <2>1 DEF Machine!Row
  <2>3. Machine!Defined(w) \/ Machine!Live(w)
    BY <2>1 DEF Machine!Rows
  <2>4. ~w.hidden /\ w.stormvm # "none"
    BY <1>1 DEF MachineInv
  <2>5. ASSUME NEW v \in Machine!Verbs(w) \cup {"delete"} PROVE ~Machine!VerbRefused(w, v)
    BY <2>3, <2>4, <2>5 DEF Machine!Verbs, Machine!VerbRefused
  <2>6. ASSUME NEW v \in Machine!Controls(w) PROVE ~Machine!ControlRefused(w, v)
    BY <2>4, <2>6 DEF Machine!Controls, Machine!ControlRefused
  <2> QED
    BY <2>2, <2>5, <2>6
<1>2. /\ Machine!RestoreOffered(w) => Machine!RestoreRefusal(w) = None
      /\ Machine!Page(w) # None => (Machine!Page(w).disksEditable => ~Machine!EditRefused(w))
      /\ Machine!Backup(w) # None =>
           ~Machine!TakeRefused(w) /\ \A s \in Machine!Backup(w).snapshots : ~Machine!DeleteSnapRefused(w)
  <2>1. ASSUME Machine!Backup(w) # None
        PROVE  /\ ~Machine!TakeRefused(w)
               /\ \A s \in Machine!Backup(w).snapshots :
                    s = w.snap /\ ~Machine!DeleteSnapRefused(w)
               /\ ~Machine!Backup(w).blocked => Machine!Defined(w) /\ ~Machine!Live(w)
    BY <2>1 DEF Machine!Backup, Machine!TakeRefused, Machine!DeleteSnapRefused
  <2>2. Machine!RestoreOffered(w) => Machine!RestoreRefusal(w) = None
    BY <2>1 DEF Machine!RestoreOffered, Machine!RestoreRefusal, Machine!DeleteSnapRefused
  <2>3. Machine!Page(w) # None => (Machine!Page(w).disksEditable => ~Machine!EditRefused(w))
    BY DEF Machine!Page, Machine!EditRefused
  <2> QED
    BY <2>1, <2>2, <2>3
<1>3. /\ Machine!RdpStatus(w) # None /\ Machine!RdpStatus(w).available =>
           ~Machine!LoginRefused(w) /\ ~Machine!SessionRefused(w)
      /\ ~w.hidden /\ (Machine!Capabilities(w).serial \/ Machine!Capabilities(w).vnc) =>
           /\ Machine!Door(w) # None
           /\ Machine!Capabilities(w).write => "text" \in Machine!Door(w)
  <2>1. Machine!RdpStatus(w) # None /\ Machine!RdpStatus(w).available =>
          ~Machine!LoginRefused(w) /\ ~Machine!SessionRefused(w)
    BY DEF Machine!RdpStatus, Machine!LoginRefused, Machine!SessionRefused
  <2>2. ASSUME ~w.hidden, Machine!Capabilities(w).serial \/ Machine!Capabilities(w).vnc
        PROVE  /\ Machine!Door(w) # None
               /\ Machine!Capabilities(w).write => "text" \in Machine!Door(w)
    <3>1. w.stormvm # "none" /\ (Machine!Capabilities(w).write => w.write)
      BY <2>2 DEF Machine!Capabilities, Machine!Shut
    <3>2. Machine!Door(w) = {m \in {"ping", "pong", "text", "binary"} : Machine!Relayed(w, m)}
      BY <2>2, <3>1 DEF Machine!Door, Machine!DoorRefused
    <3>3. w.write => Machine!Relayed(w, "text")
      BY DEF Machine!Relayed
    <3> QED
      BY <3>1, <3>2, <3>3, NoneAssumption
  <2> QED
    BY <2>1, <2>2
<1> QED
  BY <1>1, <1>2, <1>3 DEF Machine!OfferedIsTaken

\* What a cluster row enables for a viewer, and a page that says it is editable.
LEMMA ClusterOffers == Cluster!OfferedIsTaken
<1> DEFINE w == world
<1>1. ASSUME Cluster!Row(w.obj, w) # None, NEW a \in Cluster!Row(w.obj, w).actions
      PROVE  ~Cluster!ActionRefused(a, w.obj, w)
  <2>1. /\ a \in Cluster!Actions(w.obj, w) /\ Cluster!Offers(a, w)
        /\ ~(w.hidden /\ Cluster!Namespaced(w.obj.kind))
    BY <1>1 DEF Cluster!Row, Cluster!VisibleTo
  <2>2. CASE a \in {"cordon", "uncordon", "drain"}
    BY <2>1, <2>2 DEF Cluster!Offers, Cluster!Need, Cluster!ActionRefused, Cluster!NodeRefused
  <2>3. CASE a = "scale"
    <3>1. w.obj.kind \in {"deploy", "sts"}
      BY <2>1, <2>3 DEF Cluster!Actions, Cluster!Scalable
    <3> QED
      BY <2>1, <2>3, <3>1 DEF Cluster!ActionRefused, Cluster!Namespaced
  <2>4. CASE a \notin {"cordon", "uncordon", "drain", "scale"}
    BY <2>1, <2>4 DEF Cluster!ActionRefused
  <2> QED
    BY <2>2, <2>3, <2>4
<1>2. ASSUME Cluster!ObjectPage(w) # None, Cluster!ObjectPage(w).editable, w.client
      PROVE  Cluster!Save(w, FALSE) \in {"saved", "conflict", "refused", "gone"}
  <2>1. ~Cluster!KeyRefused(w) /\ Cluster!Known(w.kind)
    BY <1>2 DEF Cluster!ObjectPage
  <2> QED
    BY <1>2, <2>1 DEF Cluster!Save
<1> QED
  BY <1>1, <1>2 DEF Cluster!OfferedIsTaken

\* An import's documents are of the kinds a project's import is made of, and a pod has
\* labels if there is one.
ClusterInv ==
  /\ {"docs", "pod", "net", "agent", "eps", "nodes"} \subseteq DOMAIN world
  /\ \A i \in DOMAIN world.docs : world.docs[i] \in Cluster!Docs
  /\ world.pod \in Cluster!ValuesOf("pod")

LEMMA ClusterStep ==
  /\ Cluster!Init => ClusterInv
  /\ ClusterInv /\ Cluster!Next => ClusterInv'
<1>1. ASSUME Cluster!Init PROVE ClusterInv
  <2>1. world = Cluster!Quiet
    BY <1>1 DEF Cluster!Init
  <2>2. /\ {"docs", "pod", "net", "agent", "eps", "nodes"} \subseteq DOMAIN Cluster!Quiet
        /\ Cluster!Quiet.docs = <<"pod">> /\ Cluster!Quiet.pod = [labels |-> {"app"}]
    BY DEF Cluster!Quiet
  <2>3. [labels |-> {"app"}] \in [labels : {{"app"}, {"other"}}]
    OBVIOUS
  <2> QED
    BY <2>1, <2>2, <2>3 DEF Cluster!Docs, Cluster!ValuesOf, ClusterInv
<1>2. ASSUME ClusterInv, NEW p \in DOMAIN world, Cluster!Event(p) PROVE ClusterInv'
  <2>1. PICK v \in Cluster!ValuesOf(p) : world' = [world EXCEPT ![p] = v]
    BY <1>2 DEF Cluster!Event
  <2>2. CASE p = "docs"
    <3>1. v \in {<<>>} \cup {<<a>> : a \in Cluster!Docs} \cup {<<a, b>> : a \in Cluster!Docs, b \in Cluster!Docs}
      BY <2>1, <2>2 DEF Cluster!ValuesOf
    <3>2. \A i \in DOMAIN v : v[i] \in Cluster!Docs
      BY <3>1
    <3> QED
      BY <1>2, <2>1, <2>2, <3>2 DEF ClusterInv
  <2>3. CASE p # "docs"
    <3>1. /\ DOMAIN world' = DOMAIN world /\ world'.docs = world.docs
          /\ world'.pod = IF p = "pod" THEN v ELSE world.pod
      BY <1>2, <2>1, <2>3 DEF ClusterInv
    <3> QED
      BY <1>2, <2>1, <3>1 DEF ClusterInv
  <2> QED
    BY <2>2, <2>3
<1> QED
  BY <1>1, <1>2 DEF Cluster!Next

\* Nothing of a hidden project is in a row, a table, a page or an import's answer.
LEMMA ClusterHides ==
  ASSUME ClusterInv
  PROVE  Cluster!HiddenUnreferenced
<1> DEFINE w == world
<1> SUFFICES ASSUME w.hidden PROVE Cluster!HiddenUnreferenced
  BY DEF Cluster!HiddenUnreferenced
<1>1. ASSUME Cluster!Row(w.obj, w) # None
      PROVE  /\ w.obj.kind # "ns" /\ ~Cluster!Namespaced(w.obj.kind)
             /\ \A r \in Cluster!Row(w.obj, w).relations : r.to # "ns" /\ ~Cluster!Namespaced(r.to)
  BY <1>1 DEF Cluster!Row, Cluster!VisibleTo
<1>2. /\ Cluster!PodNetwork(w) = None /\ Cluster!EndpointRow(w) = None
      /\ Cluster!PolicyRow(w) # None => Cluster!PolicyRow(w).appliesTo = {}
  BY DEF Cluster!PodNetwork, Cluster!EndpointRow, Cluster!PolicyRow
<1>3. /\ w.kind \in {"pod", "ns"} => Cluster!ObjectPage(w) = None /\ Cluster!Save(w, FALSE) = "no project"
      /\ Cluster!ProjectPage(w) = None
      /\ w.kind = "pod" => Cluster!DeleteRaw(w) \in {"no project", "no apiserver"}
      /\ w.kind = "pod" => Cluster!ObjectEvents(w) \in {None, {}} /\ Cluster!Ticker(w) = {}
  <2>1. w.kind \in {"pod", "ns"} => Cluster!KeyRefused(w)
    BY DEF Cluster!KeyRefused, Cluster!Known, Cluster!Namespaced
  <2>2. w.kind \in {"pod", "ns"} => Cluster!ObjectPage(w) = None /\ Cluster!Save(w, FALSE) = "no project"
    BY <2>1 DEF Cluster!ObjectPage, Cluster!Save
  <2>3. Cluster!ProjectPage(w) = None
    BY DEF Cluster!ProjectPage
  <2>4. w.kind = "pod" => Cluster!DeleteRaw(w) \in {"no project", "no apiserver"}
    BY DEF Cluster!DeleteRaw, Cluster!Namespaced
  <2>5. w.kind = "pod" => Cluster!ObjectEvents(w) \in {None, {}} /\ Cluster!Ticker(w) = {}
    BY DEF Cluster!ObjectEvents, Cluster!Ticker, Cluster!Namespaced, Cluster!Known
  <2> QED
    BY <2>2, <2>3, <2>4, <2>5
<1>4. ASSUME NEW i \in DOMAIN Cluster!Import(w).lines, Cluster!Import(w).lines[i] = "created"
      PROVE  w.docs[i] = "clusterrole"
  <2>1. CASE ~w.client \/ w.docs = <<>>
    <3>1. Cluster!Import(w).lines = <<>>
      BY <2>1 DEF Cluster!Import
    <3> QED
      BY <1>4, <3>1
  <2>2. CASE ~(~w.client \/ w.docs = <<>>)
    <3>1. Cluster!Import(w).lines = [j \in DOMAIN w.docs |-> Cluster!DocResult(w.docs[j], w)]
      BY <2>2, Zenon DEF Cluster!Import
    <3>2. w.docs[i] \in Cluster!Docs /\ Cluster!DocResult(w.docs[i], w) = "created"
      BY <1>4, <3>1 DEF ClusterInv
    <3>3. w.docs[i] # "clusterrole" => Cluster!Target(w.docs[i], w) \in {"project", None}
      BY <3>2 DEF Cluster!Target, Cluster!Docs
    <3>4. w.docs[i] = "clusterrole" => Cluster!Target(w.docs[i], w) = "cluster"
      BY DEF Cluster!Target
    <3>5. Cluster!Target(w.docs[i], w) \in {"project", None} => Cluster!DocResult(w.docs[i], w) # "created"
      BY DEF Cluster!DocResult
    <3> QED
      BY <3>2, <3>3, <3>5
  <2> QED
    BY <2>1, <2>2
<1> QED
  BY <1>1, <1>2, <1>3, <1>4 DEF Cluster!HiddenUnreferenced

\* A row of the fleet opens a page, and what a node's page links to is forwarded.
LEMMA FleetOffers == Fleet!OfferedIsTaken
<1> DEFINE w == world
           linked(s) == [port |-> s.port, read |-> TRUE, between |-> FALSE]
<1>1. Fleet!Row(w) => Fleet!Address(w) # None /\ Fleet!Verification(w) # "no node"
  <2>1. Fleet!Row(w) => Fleet!Address(w) \in {"its own", "as configured", ""}
    BY DEF Fleet!Row, Fleet!Address
  <2>2. Fleet!Address(w) # None => Fleet!Verification(w) # "no node"
    BY DEF Fleet!Verification
  <2> QED
    BY <2>1, <2>2, NoneAssumption
<1>2. ASSUME Fleet!NodePage(w).found, NEW s \in Fleet!NodePage(w).services
      PROVE  Fleet!NodeProxy(s.at, linked(s), w) = "forwarded"
  <2>1. Fleet!Address(w) # None
    <3>1. Fleet!Address(w) = None => ~Fleet!NodePage(w).found
      BY NoneAssumption DEF Fleet!NodePage
    <3> QED
      BY <1>2, <3>1
  <2>2. Fleet!Address(w) # ""
    <3>1. Fleet!Address(w) = "" => Fleet!NodePage(w).services = {}
      BY <2>1 DEF Fleet!NodePage
    <3> QED
      BY <1>2, <3>1
  <2>3. s.at = Fleet!Address(w) /\ s.port = w.asked.port /\ s.port # "elsewhere"
    <3> DEFINE services == IF w.asked.port # "elsewhere" /\ Fleet!Probe(w) = "service"
                           THEN {[at |-> Fleet!Address(w), port |-> w.asked.port, health |-> Fleet!Summary(w.feed)]}
                           ELSE {}
    <3>1. Fleet!NodePage(w).services = services
      BY <2>1, <2>2 DEF Fleet!NodePage
    <3> QED
      BY <1>2, <3>1
  <2>4. Fleet!HeardAt(s.at, w)
    BY <2>1, <2>2, <2>3 DEF Fleet!Address, Fleet!HeardAt
  <2>5. Fleet!ProxyAllows(linked(s)) /\ linked(s).port # "elsewhere"
    BY <2>3 DEF Fleet!ProxyAllows
  <2> HIDE DEF linked
  <2> QED
    BY <2>4, <2>5 DEF Fleet!NodeProxy
<1> QED
  BY <1>1, <1>2 DEF Fleet!OfferedIsTaken

\* A terminal that is offered is opened.
LEMMA PodOffers == Pod!OfferedIsTaken
<1> SUFFICES ASSUME Pod!Page(world).door = "pod", Pod!Page(world).answer.terminal = None, world.container
             PROVE  Pod!Session(world) # None
  BY DEF Pod!OfferedIsTaken
<1>1. Pod!ThePod(world) = "pod"
  BY DEF Pod!Page, Pod!Through
<1>2. Pod!ShellRefusal(world) = None
  BY <1>1 DEF Pod!Page, Pod!Through
<1>3. Pod!Exec(world).answer = "upgraded"
  BY <1>1, <1>2 DEF Pod!Exec, Pod!Through
<1>4. Pod!Session(world) \in [says : SUBSET {"failure", "output"}, takes : SUBSET {"stdin", "resize", "ping"}]
  <2>1. Pod!SaidInside(world) \in SUBSET {"failure", "output"}
    BY DEF Pod!SaidInside
  <2>2. {f \in {"stdin", "resize", "ping"} : Pod!FromBrowser(f)} \in SUBSET {"stdin", "resize", "ping"}
    OBVIOUS
  <2> QED
    BY <1>3, <2>1, <2>2 DEF Pod!Session
<1> QED
  BY <1>4, NoneAssumption

\* Of a hidden project's pod no route says anything, and of a flow's hidden end only that.
LEMMA PodHides == Pod!HiddenUnreferenced
<1> DEFINE w == world
<1>1. ASSUME w.hidden
      PROVE  {Pod!Page(w), Pod!EventsRoute(w), Pod!LogRoute(w), Pod!RunRoute(w), Pod!TrafficRoute(w),
              Pod!EnvRoute(w), Pod!Exec(w)} = {[door |-> "no project", answer |-> None]}
  <2>1. Pod!ThePod(w) = "no project"
    BY <1>1 DEF Pod!ThePod
  <2> DEFINE nothing == [door |-> "no project", answer |-> None]
  <2>2. \A answer : Pod!Through(w, answer) = nothing
    BY <2>1 DEF Pod!Through
  <2> HIDE DEF nothing
  <2>3. Pod!Page(w) = nothing
    BY <2>2, Zenon DEF Pod!Page
  <2>4. Pod!LogRoute(w) = nothing /\ Pod!Exec(w) = nothing
    BY <2>2 DEF Pod!LogRoute, Pod!Exec
  <2>5. /\ Pod!EventsRoute(w) = nothing /\ Pod!RunRoute(w) = nothing
        /\ Pod!TrafficRoute(w) = nothing /\ Pod!EnvRoute(w) = nothing
    <3>1. Pod!EventsRoute(w) = nothing
      BY <2>2, Zenon DEF Pod!EventsRoute
    <3>2. Pod!RunRoute(w) = nothing
      BY <2>1 DEF Pod!RunRoute, Pod!Through, nothing
    <3>3. Pod!TrafficRoute(w) = nothing
      BY <2>2, Zenon DEF Pod!TrafficRoute
    <3>4. Pod!EnvRoute(w) = nothing
      BY <2>1 DEF Pod!EnvRoute, Pod!Through, nothing
    <3> QED
      BY <3>1, <3>2, <3>3, <3>4
  <2>6. {Pod!Page(w), Pod!EventsRoute(w), Pod!LogRoute(w), Pod!RunRoute(w), Pod!TrafficRoute(w),
         Pod!EnvRoute(w), Pod!Exec(w)} = {nothing}
    BY <2>3, <2>4, <2>5
  <2> QED
    BY <2>6 DEF nothing
<1>2. ASSUME w.sees # None, NEW row \in Pod!Flows(w).items, NEW side \in {row.source, row.target},
             "end" \in DOMAIN side
      PROVE  Pod!ProjectOf(side.end) \in w.sees \cup {""}
  <2>1. row = Pod!FlowRow(w) /\ row # None
    BY <1>2 DEF Pod!Flows
  <2>2. side \in {Pod!Side(w.source, w.sees), Pod!Side(w.target, w.sees)}
    BY <1>2, <2>1 DEF Pod!FlowRow
  <2>3. \A end : "end" \in DOMAIN Pod!Side(end, w.sees) =>
                   Pod!ProjectOf(Pod!Side(end, w.sees).end) \in w.sees \cup {""}
    BY <1>2 DEF Pod!Side
  <2> QED
    BY <1>2, <2>2, <2>3
<1> QED
  BY <1>1, <1>2 DEF Pod!HiddenUnreferenced

\* What the engine's page shows is of what was polled, which a poll leaves as it is.
BlockInv ==
  card = "poll" =>
    /\ {"vols", "drive", "member", "raid", "page"} \subseteq DOMAIN world
    /\ world.page # None /\ world.page.rows # <<>> =>
         /\ \A v \in Block!Volumes : world.page.rows[v] = Block!VolumeRow(world.vols[v])
         /\ world.page.drive = Block!DriveRow(world.drive)
         /\ world.page.members \subseteq {Block!MemberRow(world.member)}

LEMMA BlockStep ==
  /\ Block!Init => BlockInv
  /\ BlockInv /\ Block!Next => BlockInv'
<1>1. ASSUME Block!Init PROVE BlockInv
  <2>1. card = "poll" => \E a, b, c, d, e : world = Block!Polled(a, b, c, d, e)
    BY <1>1 DEF Block!Init
  <2>2. ASSUME NEW a, NEW b, NEW c, NEW d, NEW e, world = Block!Polled(a, b, c, d, e)
        PROVE  {"vols", "drive", "member", "raid", "page"} \subseteq DOMAIN world /\ world.page = None
    BY <2>2 DEF Block!Polled
  <2> QED
    BY <2>1, <2>2 DEF BlockInv
<1>2. ASSUME BlockInv, Block!Poll PROVE BlockInv'
  <2>1. PICK volumes, arrays, slabs \in BOOLEAN :
          LET sets == IF arrays THEN world.sets ELSE <<>>
              slots == IF slabs THEN world.slabs ELSE <<>>
              rows == [v \in Block!Volumes |-> Block!VolumeRow(world.vols[v])]
          IN  world' = IF ~volumes THEN [world EXCEPT !.page = [health |-> "error", rows |-> <<>>]]
                       ELSE [world EXCEPT
                               !.raid = Block!Worst(sets),
                               !.page = [health |-> Block!EngineHealth(rows, Block!Worst(sets)), rows |-> rows,
                                         raid |-> Block!Worst(sets),
                                         sets |-> [i \in DOMAIN sets |-> Block!RaidHealth(sets[i])],
                                         slabs |-> [i \in DOMAIN slots |-> Block!SlabHealth(slots[i])],
                                         use |-> Block!DriveUse(slots),
                                         drive |-> Block!DriveRow(world.drive),
                                         members |-> IF arrays THEN {Block!MemberRow(world.member)} ELSE {}]]
    BY <1>2, Zenon DEF Block!Poll
  <2>2. \E p, r : /\ world' = [world EXCEPT !.page = p] \/ world' = [world EXCEPT !.raid = r, !.page = p]
                  /\ p.rows # <<>> =>
                       /\ p.rows = [v \in Block!Volumes |-> Block!VolumeRow(world.vols[v])]
                       /\ p.drive = Block!DriveRow(world.drive)
                       /\ p.members \subseteq {Block!MemberRow(world.member)}
    <3>1. CASE ~volumes
      <4> DEFINE p == [health |-> "error", rows |-> <<>>]
      <4>1. world' = [world EXCEPT !.page = p] /\ p.rows = <<>>
        BY <2>1, <3>1
      <4> HIDE DEF p
      <4> QED
        BY <4>1
    <3>2. CASE volumes
      <4> DEFINE sets == IF arrays THEN world.sets ELSE <<>>
                 slots == IF slabs THEN world.slabs ELSE <<>>
                 rows == [v \in Block!Volumes |-> Block!VolumeRow(world.vols[v])]
                 r == Block!Worst(sets)
                 p == [health |-> Block!EngineHealth(rows, Block!Worst(sets)), rows |-> rows,
                       raid |-> Block!Worst(sets),
                       sets |-> [i \in DOMAIN sets |-> Block!RaidHealth(sets[i])],
                       slabs |-> [i \in DOMAIN slots |-> Block!SlabHealth(slots[i])],
                       use |-> Block!DriveUse(slots),
                       drive |-> Block!DriveRow(world.drive),
                       members |-> IF arrays THEN {Block!MemberRow(world.member)} ELSE {}]
      <4>1. world' = [world EXCEPT !.raid = r, !.page = p]
        BY <2>1, <3>2, Zenon
      <4>2. p.rows = rows /\ p.drive = Block!DriveRow(world.drive)
            /\ p.members \subseteq {Block!MemberRow(world.member)}
        OBVIOUS
      <4> HIDE DEF p, r
      <4> QED
        BY <4>1, <4>2
    <3> QED
      BY <3>1, <3>2
  <2>3. card = "poll" /\ card' = card
    BY <1>2 DEF Block!Poll
  <2>4. {"vols", "drive", "member", "raid", "page"} \subseteq DOMAIN world
    BY <1>2, <2>3 DEF BlockInv
  <2>5. ASSUME NEW p, NEW r,
               world' = [world EXCEPT !.page = p] \/ world' = [world EXCEPT !.raid = r, !.page = p]
        PROVE  /\ DOMAIN world' = DOMAIN world /\ world'.page = p
               /\ world'.vols = world.vols /\ world'.drive = world.drive /\ world'.member = world.member
    BY <2>4, <2>5
  <2> QED
    BY <2>2, <2>3, <2>4, <2>5, ZenonT(40) DEF BlockInv
<1>3. ASSUME Block!Next, ~Block!Poll PROVE card # "poll" /\ card' = card
  BY <1>3 DEF Block!Next, Block!Move, Block!ReadList, Block!RaidAnswer, Block!AskPlacement,
              Block!PlacementAges, Block!MayAsk, Block!Digest, Block!Started, Block!Tick
<1> QED
  BY <1>1, <1>2, <1>3 DEF BlockInv

\* The engine takes what its rows offer.
LEMMA BlockOffers ==
  ASSUME BlockInv
  PROVE  Block!OfferedIsTaken
<1> SUFFICES ASSUME card = "poll", world.page # None, world.page.rows # <<>>
             PROVE  /\ \A v \in Block!Volumes : world.page.rows[v].delete => ~(world.vols[v].use = TRUE)
                    /\ \A m \in world.page.members : m.fail => world.member = "active"
                    /\ world.page.drive.format => world.drive.offer \notin {None, "ours"} /\ ~world.drive.system
  BY DEF Block!OfferedIsTaken, Block!Reached
<1>1. ASSUME NEW v \in Block!Volumes, world.page.rows[v].delete
      PROVE  ~(world.vols[v].use = TRUE)
  <2>1. world.page.rows[v] = Block!VolumeRow(world.vols[v])
    BY DEF BlockInv
  <2>2. \A x : Block!VolumeRow(x).delete = (x.use # TRUE)
    BY Zenon DEF Block!VolumeRow
  <2> QED
    BY <1>1, <2>1, <2>2, Zenon
<1>2. ASSUME NEW m \in world.page.members, m.fail
      PROVE  world.member = "active"
  <2>1. m = Block!MemberRow(world.member)
    BY <1>2 DEF BlockInv
  <2>2. Block!MemberRow(world.member).fail = (world.member = "active")
    BY Zenon DEF Block!MemberRow
  <2> QED
    BY <1>2, <2>1, <2>2, Zenon
<1>3. ASSUME world.page.drive.format
      PROVE  world.drive.offer \notin {None, "ours"} /\ ~world.drive.system
  <2>1. world.page.drive = Block!DriveRow(world.drive)
    BY DEF BlockInv
  <2>2. Block!DriveRow(world.drive).format =
          (world.drive.offer \in {"blank", "foreign"} /\ world.drive.confirm /\ ~world.drive.system)
    BY Zenon DEF Block!DriveRow
  <2>3. world.drive.offer \in {"blank", "foreign"} /\ ~world.drive.system
    BY <1>3, <2>1, <2>2, Zenon
  <2> QED
    BY <2>3, NoneAssumption
<1> QED
  BY <1>1, <1>2, <1>3

\* What is kept of a drive's volumes is what the node said, whoever asked; the page is
\* made of it for the one it is for.
Consumers == {"volume", "unclaimed", "none here", "not reported", "no answer"}

DriveInv ==
  card = "usage" =>
    /\ {"hidden", "consumer", "cache", "reader", "page"} \subseteq DOMAIN world
    /\ world.consumer \in Consumers
    /\ world.cache = None \/ \E c \in Consumers : world.cache = Drive!NodeAnswer(c)
    /\ world.page # None =>
         \E c \in Consumers : world.page.shows = Drive!ForViewer(Drive!NodeAnswer(c), world.page.for.hidden)

LEMMA DriveStep ==
  /\ Drive!Init => DriveInv
  /\ DriveInv /\ Drive!Next => DriveInv'
<1>1. ASSUME Drive!Init PROVE DriveInv
  <2>1. card = "usage" => world = Drive!NoUsage
    BY <1>1 DEF Drive!Init
  <2>2. LET u == Drive!NoUsage
        IN  /\ DOMAIN u = {"hidden", "consumer", "cache", "reader", "page"}
            /\ u.consumer = "volume" /\ u.cache = None /\ u.page = None
    BY DEF Drive!NoUsage
  <2> QED
    BY <2>1, <2>2 DEF DriveInv, Consumers
<1>2. ASSUME DriveInv, Drive!Hide \/ Drive!Reports \/ Drive!AskUsage \/ Drive!UsageAges PROVE DriveInv'
  <2>1. CASE Drive!Hide
    BY <1>2, <2>1 DEF DriveInv, Drive!Hide
  <2>2. CASE Drive!Reports
    BY <1>2, <2>2 DEF DriveInv, Drive!Reports, Consumers
  <2>3. CASE Drive!AskUsage
    BY <1>2, <2>3 DEF DriveInv, Drive!AskUsage
  <2>4. CASE Drive!UsageAges
    BY <1>2, <2>4 DEF DriveInv, Drive!UsageAges
  <2> QED
    BY <1>2, <2>1, <2>2, <2>3, <2>4
<1>3. ASSUME DriveInv, Drive!AnswerUsage PROVE DriveInv'
  <2> DEFINE answer == IF world.cache # None THEN world.cache ELSE Drive!NodeAnswer(world.consumer)
             sent   == [for |-> world.reader, shows |-> Drive!ForViewer(answer, world.reader.hidden)]
  <2>1. card = "usage" /\ card' = card
        /\ world' = [world EXCEPT !.cache = answer, !.reader = None, !.page = sent]
    BY <1>3, Zenon DEF Drive!AnswerUsage
  <2>2. PICK c \in Consumers : answer = Drive!NodeAnswer(c)
    BY <1>3, <2>1 DEF DriveInv
  <2>3. sent.shows = Drive!ForViewer(answer, sent.for.hidden)
    OBVIOUS
  <2> HIDE DEF answer, sent
  <2>4. /\ DOMAIN world' = DOMAIN world /\ world'.cache = answer /\ world'.page = sent
        /\ world'.consumer = world.consumer
    BY <1>3, <2>1 DEF DriveInv
  <2> QED
    BY <1>3, <2>1, <2>2, <2>3, <2>4 DEF DriveInv
<1>4. ASSUME Drive!Next, ~(Drive!Hide \/ Drive!Reports \/ Drive!AskUsage \/ Drive!UsageAges), ~Drive!AnswerUsage
      PROVE  card # "usage" /\ card' = card
  BY <1>4 DEF Drive!Next, Drive!Discover, Drive!Refresh, Drive!PollFeed, Drive!Swap, Drive!Leave,
              Drive!OpenPage, Drive!PageRead, Drive!CacheAges, Drive!AskFormat, Drive!CheckFormat,
              Drive!SendFormat, Drive!AnswerFormat
<1> QED
  BY <1>1, <1>2, <1>3, <1>4 DEF DriveInv

LEMMA DriveHides ==
  ASSUME DriveInv
  PROVE  Drive!ConsumersHidden
<1> SUFFICES ASSUME card = "usage", world.page # None
             PROVE  /\ world.page.for.hidden => world.page.shows # [ok |-> TRUE, volumes |-> "volume"]
                    /\ ~world.page.for.hidden => world.page.shows # [ok |-> TRUE, volumes |-> "of a hidden project"]
  BY DEF Drive!ConsumersHidden
<1> DEFINE hidden == world.page.for.hidden
           named == [ok |-> TRUE, volumes |-> "volume"]
           withheld == [ok |-> TRUE, volumes |-> "of a hidden project"]
<1>0. /\ named.ok /\ named.volumes = "volume"
      /\ withheld.ok /\ withheld.volumes = "of a hidden project"
  OBVIOUS
<1>1. PICK c \in Consumers : world.page.shows = Drive!ForViewer(Drive!NodeAnswer(c), hidden)
  BY DEF DriveInv
<1>2. CASE c = "no answer"
  <2>1. Drive!NodeAnswer(c) = [ok |-> FALSE]
    BY <1>2 DEF Drive!NodeAnswer
  <2>2. world.page.shows = [ok |-> FALSE]
    BY <1>1, <2>1 DEF Drive!ForViewer
  <2>3. ~world.page.shows.ok
    BY <2>2
  <2> HIDE DEF named, withheld
  <2>4. world.page.shows # named /\ world.page.shows # withheld
    BY <1>0, <2>3, Zenon
  <2> QED
    BY <2>4, Zenon DEF named, withheld
<1>3. CASE c # "no answer"
  <2> DEFINE answer == [ok |-> TRUE, volumes |-> c]
  <2>1. Drive!NodeAnswer(c) = answer /\ c # "of a hidden project"
    BY <1>3 DEF Drive!NodeAnswer, Consumers
  <2>2. world.page.shows = IF c = "volume" /\ hidden THEN [answer EXCEPT !.volumes = "of a hidden project"] ELSE answer
    <3>1. answer.ok = TRUE /\ answer.volumes = c
      OBVIOUS
    <3> HIDE DEF answer
    <3> QED
      BY <1>1, <2>1, <3>1, Zenon DEF Drive!ForViewer
  <2>3. [answer EXCEPT !.volumes = "of a hidden project"].volumes = "of a hidden project" /\ answer.volumes = c
    OBVIOUS
  <2>4. (hidden => world.page.shows.volumes # "volume") /\ (~hidden => world.page.shows.volumes # "of a hidden project")
    <3> HIDE DEF answer
    <3> QED
      BY <2>1, <2>2, <2>3
  <2> HIDE DEF named, withheld
  <2>5. (hidden => world.page.shows # named) /\ (~hidden => world.page.shows # withheld)
    BY <1>0, <2>4, Zenon
  <2> QED
    BY <2>5, Zenon DEF named, withheld
<1> QED
  BY <1>2, <1>3

\* What is kept of who holds what is made of the volumes as they are.
ImageInv ==
  card = "holdings" =>
    /\ {"vols", "kept"} \subseteq DOMAIN world
    /\ world.kept # None /\ ~world.kept.error =>
         \E hosts \in BOOLEAN : world.kept.holdings = Image!Build(world.vols, hosts)

LEMMA ImageStep ==
  /\ Image!Init => ImageInv
  /\ ImageInv /\ Image!Next => ImageInv'
<1>1. ASSUME Image!Init PROVE ImageInv
  BY <1>1 DEF Image!Init, ImageInv
<1>2. ASSUME ImageInv, Image!ReadHoldings PROVE ImageInv'
  <2>1. PICK engine, hosts \in BOOLEAN :
          world' = [world EXCEPT !.kept = IF engine THEN [error |-> FALSE, noted |-> ~hosts,
                                                          holdings |-> Image!Build(world.vols, hosts)]
                                                    ELSE [error |-> TRUE]]
    BY <1>2, Zenon DEF Image!ReadHoldings
  <2>2. card = "holdings" /\ card' = card
    BY <1>2 DEF Image!ReadHoldings
  <2>3. /\ DOMAIN world' = DOMAIN world /\ world'.vols = world.vols
        /\ world'.kept.error \/ world'.kept.holdings = Image!Build(world.vols, hosts)
    BY <1>2, <2>1, <2>2 DEF ImageInv
  <2> QED
    BY <1>2, <2>2, <2>3 DEF ImageInv
<1>3. ASSUME ImageInv, Image!HoldingsAge PROVE ImageInv'
  BY <1>3 DEF ImageInv, Image!HoldingsAge
<1>4. ASSUME Image!PollRegistry PROVE card # "holdings" /\ card' = card
  BY <1>4 DEF Image!PollRegistry
<1> QED
  BY <1>1, <1>2, <1>3, <1>4 DEF ImageInv, Image!Next

\* Whoever holds a clone in a hidden project is counted and not named.
LEMMA ImageHides ==
  ASSUME ImageInv
  PROVE  Image!HoldersHidden
<1> DEFINE h == world.kept.holdings
           scrub(c, hidden) == IF hidden /\ c.holder = "hidden"
                  THEN [c EXCEPT !.name = None, !.via = {}, !.holder = "somebody", !.withheld = TRUE] ELSE c
<1> SUFFICES ASSUME Image!Answered
             PROVE  /\ \A c \in Image!ForViewer(h, TRUE).clones \cup Image!ForViewer(h, TRUE).unparented :
                         c.name # None => world.vols[c.name].held # "hidden"
                    /\ Image!ForViewer(h, TRUE).images = h.images
                    /\ {<<c.id, c.image>> : c \in Image!ForViewer(h, TRUE).clones} = {<<c.id, c.image>> : c \in h.clones}
                    /\ Image!ForViewer(h, FALSE) = h
  BY DEF Image!HoldersHidden
<1>1. PICK hosts \in BOOLEAN : h = Image!Build(world.vols, hosts)
  BY DEF ImageInv, Image!Answered
<1>2. /\ h = [clones |-> h.clones, images |-> h.images, unparented |-> h.unparented]
      /\ h.unparented \subseteq h.clones
      /\ \A c \in h.clones :
           /\ DOMAIN c = {"id", "name", "image", "via", "holder", "withheld"}
           /\ c.name = c.id /\ c.holder = Image!Holder(world.vols, hosts, c.id)
  BY <1>1 DEF Image!Build
<1> HIDE DEF h
<1>3. ASSUME NEW hidden
      PROVE  Image!ForViewer(h, hidden) =
               [h EXCEPT !.clones = {scrub(c, hidden) : c \in h.clones},
                         !.unparented = {scrub(c, hidden) : c \in h.unparented}]
  BY Zenon DEF Image!ForViewer
<1>4. ASSUME NEW c \in h.clones
      PROVE  /\ scrub(c, TRUE).id = c.id /\ scrub(c, TRUE).image = c.image
             /\ scrub(c, TRUE).name # None => world.vols[scrub(c, TRUE).name].held # "hidden"
             /\ scrub(c, FALSE) = c
  BY <1>2 DEF Image!Holder
<1> HIDE DEF scrub
<1>5. /\ {scrub(c, FALSE) : c \in h.clones} = h.clones
      /\ {scrub(c, FALSE) : c \in h.unparented} = h.unparented
  BY <1>2, <1>4
<1>6. Image!ForViewer(h, FALSE) = h
  <2>1. Image!ForViewer(h, FALSE) = [h EXCEPT !.clones = h.clones, !.unparented = h.unparented]
    BY <1>3, <1>5, Zenon
  <2>2. [h EXCEPT !.clones = h.clones, !.unparented = h.unparented] = h
    BY <1>2
  <2> QED
    BY <2>1, <2>2, Zenon
<1>7. /\ Image!ForViewer(h, TRUE).clones = {scrub(c, TRUE) : c \in h.clones}
      /\ Image!ForViewer(h, TRUE).unparented = {scrub(c, TRUE) : c \in h.unparented}
      /\ Image!ForViewer(h, TRUE).images = h.images
  <2>1. {"clones", "images", "unparented"} \subseteq DOMAIN h
    BY <1>2
  <2> QED
    BY <1>3, <2>1
<1>8. {<<c.id, c.image>> : c \in Image!ForViewer(h, TRUE).clones} = {<<c.id, c.image>> : c \in h.clones}
  <2> DEFINE shown == Image!ForViewer(h, TRUE).clones
             pairs(S) == {<<c.id, c.image>> : c \in S}
  <2>1. \A c \in h.clones : scrub(c, TRUE) \in shown /\ <<scrub(c, TRUE).id, scrub(c, TRUE).image>> = <<c.id, c.image>>
    BY <1>4, <1>7
  <2>2. \A d \in shown : \E c \in h.clones : d = scrub(c, TRUE)
    BY <1>7
  <2> HIDE DEF shown
  <2>3. ASSUME NEW p \in pairs(shown) PROVE p \in pairs(h.clones)
    <3>1. PICK d \in shown : p = <<d.id, d.image>>
      OBVIOUS
    <3>2. PICK c \in h.clones : d = scrub(c, TRUE)
      BY <2>2
    <3>3. p = <<c.id, c.image>>
      BY <2>1, <3>1, <3>2, Zenon
    <3> QED
      BY <3>3
  <2>4. ASSUME NEW p \in pairs(h.clones) PROVE p \in pairs(shown)
    <3>1. PICK c \in h.clones : p = <<c.id, c.image>>
      OBVIOUS
    <3>2. scrub(c, TRUE) \in shown /\ p = <<scrub(c, TRUE).id, scrub(c, TRUE).image>>
      BY <2>1, <3>1, Zenon
    <3> QED
      BY <3>2, Zenon
  <2>5. pairs(shown) = pairs(h.clones)
    <3> HIDE DEF pairs
    <3> QED
      BY <2>3, <2>4
  <2> QED
    BY <2>5, Zenon DEF shown
<1> QED
  BY <1>2, <1>4, <1>6, <1>7, <1>8


-----------------------------------------------------------------------------
(* A format of drives. *)

\* The sequence of a finite set has each of its elements and no other.
LEMMA ListOf ==
  ASSUME NEW S, IsFiniteSet(S)
  PROVE  Drive!SetToSeq(S) \in Seq(S) /\ Drive!ToSet(Drive!SetToSeq(S)) = S
<1> DEFINE n == Cardinality(S)
           f == Drive!SetToSeq(S)
<1>1. n \in Nat /\ ExistsBijection(1..n, S)
  BY FS_CardinalityType
<1>2. PICK g : g \in Bijection(1..n, S)
  BY <1>1 DEF ExistsBijection
<1>3. g \in [1..n -> S] /\ Drive!IsInjective(g)
  BY <1>2, Zenon DEF Bijection, Injection, IsInjective, Drive!IsInjective
<1>4. f = CHOOSE h \in [1..n -> S] : Drive!IsInjective(h)
  BY Zenon DEF Drive!SetToSeq, Drive!Cardinality, Cardinality
<1>5. f \in [1..n -> S] /\ Drive!IsInjective(f)
  BY <1>3, <1>4, Zenon
<1> HIDE DEF f
<1>6. f \in Injection(1..n, S)
  BY <1>5, Zenon DEF Injection, IsInjective, Drive!IsInjective
<1>7. IsFiniteSet(1..n) /\ Cardinality(1..n) = n
  BY <1>1, FS_Interval
<1>8. f \in Surjection(1..n, S)
  BY <1>6, <1>7, FS_Injection
<1>9. \A s \in S : \E i \in 1..n : f[i] = s
  BY <1>8 DEF Surjection
<1>10. f \in Seq(S)
  BY <1>1, <1>5
<1> QED
  BY <1>5, <1>9, <1>10 DEF f, Drive!ToSet

LEMMA ThreeAreFinite ==
  ASSUME NEW a, NEW b, NEW c
  PROVE  IsFiniteSet({a, b, c})
<1>1. IsFiniteSet({a})
  BY FS_Singleton
<1>2. IsFiniteSet({a} \cup {b})
  BY <1>1, FS_AddElement
<1>3. IsFiniteSet(({a} \cup {b}) \cup {c})
  BY <1>2, FS_AddElement
<1>4. {a, b, c} = ({a} \cup {b}) \cup {c}
  OBVIOUS
<1> QED
  BY <1>3, <1>4

\* Drives of one node, to be formatted alike.
Alike(batch, fmt) == \A d, e \in batch : <<Drive!Home[d], fmt.as[d]>> = <<Drive!Home[e], fmt.as[e]>>

\* Every drive asked for is still to be asked of its node, was, or is of a node that had left.
Covered(fmt) ==
  \A d \in Drive!ToSet(fmt.ids) :
    \/ \E i \in DOMAIN fmt.left : d \in fmt.left[i]
    \/ \E i \in DOMAIN fmt.results : d \in fmt.results[i].drives
    \/ Drive!Home[d] # "here"

FormatShape(fmt) ==
  /\ {"stage", "ids", "as", "left", "results", "confirm"} \subseteq DOMAIN fmt
  /\ fmt.ids \in Seq(Drive!Drive)
  /\ fmt.left \in Seq((SUBSET Drive!Drive) \ {{}})
  /\ fmt.results \in Seq([drives : SUBSET Drive!Drive, ok : BOOLEAN])
  /\ \A i \in DOMAIN fmt.left : Alike(fmt.left[i], fmt) /\ fmt.left[i] \subseteq Drive!ToSet(fmt.ids)
  /\ \A i \in DOMAIN fmt.results : Alike(fmt.results[i].drives, fmt)

\* Nothing is begun but what was asked for and, but for a bay whose drive is another one
\* since, held against its serial.
Begun(fmt, drives, moved) ==
  /\ fmt.stage \in {"none", "asked", "404", "428"} => fmt.results = <<>>
  /\ fmt.stage \in {"none", "asked", "404", "428", "sending", "200", "207"}
  /\ fmt.stage = "sending" /\ Len(fmt.ids) = 1 => fmt.confirm = drives[fmt.ids[1]].serial \/ fmt.ids[1] \in moved
  /\ \A d \in Drive!Drive : drives[d].state = "formatting" =>
       /\ fmt.stage \in {"sending", "200", "207"} /\ d \in Drive!ToSet(fmt.ids)
       /\ Len(fmt.ids) = 1 => fmt.confirm = drives[d].serial \/ d \in moved
  /\ \A i \in DOMAIN fmt.results : fmt.results[i].ok =>
       \A d \in fmt.results[i].drives : drives[d].state = "formatting" \/ d \in moved

\* Where the answer was given.
Reported(fmt) ==
  /\ fmt.stage = "sending" => Covered(fmt)
  /\ fmt.stage = "200" => Covered(fmt) /\ fmt.left = <<>> /\ \A i \in DOMAIN fmt.results : fmt.results[i].ok

\* A page of drives, after the answer with what was begun, but for what was pulled since.
Shows(shown, fmt, moved) ==
  shown # None =>
    /\ DOMAIN shown \subseteq Drive!Drive
    /\ fmt.stage \in {"200", "207"} =>
         \A i \in DOMAIN fmt.results : fmt.results[i].ok =>
           \A d \in fmt.results[i].drives \cap DOMAIN shown : shown[d].state # "idle" \/ d \in moved

Format(w) ==
  /\ {"drives", "known", "up", "cache", "reader", "page", "moved", "op"} \subseteq DOMAIN w
  /\ DOMAIN w.drives = Drive!Drive
  /\ \A d \in Drive!Drive : {"serial", "state"} \subseteq DOMAIN w.drives[d]
  /\ "here" \in w.known
  /\ FormatShape(w.op) /\ Begun(w.op, w.drives, w.moved) /\ Reported(w.op)
  /\ Shows(w.cache, w.op, w.moved) /\ Shows(w.reader, w.op, w.moved) /\ Shows(w.page, w.op, w.moved)

FormatInv == card = "format" => Format(world)

LEMMA EmptyList ==
  (\A S : <<>> \in Seq(S)) /\ DOMAIN <<>> = {}
<1>1. \A S : <<>> \in Seq(S)
  BY EmptySeq
<1>2. <<>> \in Seq({}) /\ Len(<<>>) = 0
  BY EmptySeq
<1> QED
  BY <1>1, <1>2, LenProperties

LEMMA FormatInit == Drive!Init => FormatInv
<1> SUFFICES ASSUME card = "format", NEW d \in {"db", "dc"}, NEW is \in {"idle", "in the fleet"},
                    world = [Drive!NoFormat EXCEPT !.drives[d].state = is]
             PROVE  Format(world)
  BY Zenon DEF Drive!Init, FormatInv
<1> DEFINE fresh == [e \in Drive!Drive |-> [serial |-> <<e, 1>>, state |-> "idle"]]
           fmt == [stage |-> "none", ids |-> <<>>, as |-> <<>>, left |-> <<>>, results |-> <<>>, confirm |-> 0]
<1>1. world = [Drive!NoFormat EXCEPT !.drives = [fresh EXCEPT ![d] = [@ EXCEPT !.state = is]]]
  BY DEF Drive!NoFormat
<1>2. /\ DOMAIN world = {"drives", "known", "up", "cache", "reader", "page", "moved", "op"}
      /\ world.drives = [fresh EXCEPT ![d] = [@ EXCEPT !.state = is]]
      /\ world.known = Drive!Hosts /\ world.op = fmt
      /\ world.cache = None /\ world.reader = None /\ world.page = None
  BY <1>1 DEF Drive!NoFormat
<1>3. /\ DOMAIN world.drives = Drive!Drive
      /\ \A e \in Drive!Drive : {"serial", "state"} \subseteq DOMAIN world.drives[e] /\ world.drives[e].state # "formatting"
  <2>1. ASSUME NEW e \in Drive!Drive
        PROVE  /\ {"serial", "state"} \subseteq DOMAIN fresh[e] /\ fresh[e].state = "idle"
               /\ {"serial", "state"} \subseteq DOMAIN [fresh[e] EXCEPT !.state = is]
               /\ [fresh[e] EXCEPT !.state = is].state = is
    OBVIOUS
  <2>2. \A e \in Drive!Drive : world.drives[e] \in {fresh[e], [fresh[e] EXCEPT !.state = is]}
    <3>1. DOMAIN fresh = Drive!Drive
      OBVIOUS
    <3> HIDE DEF fresh
    <3> QED
      BY <1>2, <3>1
  <2>3. DOMAIN world.drives = Drive!Drive
    BY <1>2, Zenon
  <2> QED
    BY <2>1, <2>2, <2>3, ZenonT(40)
<1>4. /\ {"stage", "ids", "as", "left", "results", "confirm"} \subseteq DOMAIN fmt
      /\ fmt.stage = "none" /\ fmt.ids = <<>> /\ fmt.left = <<>> /\ fmt.results = <<>>
  OBVIOUS
<1> HIDE DEF fmt, fresh
<1>5. (\A S : <<>> \in Seq(S)) /\ DOMAIN <<>> = {}
  BY EmptyList
<1>6. FormatShape(fmt)
  BY <1>4, <1>5, Zenon DEF FormatShape
<1>7. Begun(fmt, world.drives, world.moved) /\ Reported(fmt)
  <2>1. fmt.results = <<>> /\ fmt.stage = "none" /\ \A i \in DOMAIN fmt.results : FALSE
    BY <1>4, <1>5
  <2> QED
    BY <1>3, <2>1 DEF Begun, Reported
<1> QED
  BY <1>2, <1>3, <1>6, <1>7 DEF Format, Shows, Drive!Hosts

\* What is not of the operation nor of the drives.
LEMMA FormatPages ==
  ASSUME Format(world), NEW w, DOMAIN w = DOMAIN world, w.drives = world.drives, w.op = world.op, "here" \in w.known,
         w.moved = world.moved,
         Shows(w.cache, world.op, w.moved), Shows(w.reader, world.op, w.moved), Shows(w.page, world.op, w.moved)
  PROVE  Format(w)
  BY DEF Format

LEMMA FormatIsSeen ==
  ASSUME Format(world)
  PROVE  Shows(Drive!Reduced(world), world.op, world.moved)
  BY DEF Format, Begun, FormatShape, Shows, Drive!Reduced

LEMMA FormatPagesStep ==
  ASSUME card = "format", Format(world), Drive!Leave \/ Drive!OpenPage \/ Drive!PageRead \/ Drive!CacheAges
  PROVE  Format(world')
<1> DEFINE moved == world.moved
<1>1. /\ {"drives", "op", "known", "up", "cache", "reader", "page", "moved"} \subseteq DOMAIN world /\ "here" \in world.known
      /\ Shows(world.cache, world.op, moved) /\ Shows(world.reader, world.op, moved) /\ Shows(world.page, world.op, moved)
  BY DEF Format
<1>2. Shows(None, world.op, moved) /\ Shows(Drive!Reduced(world), world.op, moved)
  BY FormatIsSeen DEF Shows
<1>3. CASE Drive!Leave
  <2>1. \E hosts : \/ world' = [world EXCEPT !.known = hosts \cup {"here"}]
                  \/ world' = [world EXCEPT !.up = hosts \cup {"here"}]
    BY <1>3 DEF Drive!Leave
  <2>2. /\ DOMAIN world' = DOMAIN world /\ world'.drives = world.drives /\ world'.op = world.op
        /\ "here" \in world'.known /\ world'.moved = moved
        /\ world'.cache = world.cache /\ world'.reader = world.reader /\ world'.page = world.page
    BY <1>1, <2>1
  <2> QED
    BY <1>1, <2>2, FormatPages
<1>4. CASE Drive!OpenPage
  <2> DEFINE reduced == Drive!Reduced(world)
  <2>1. world' = [world EXCEPT !.page = world.cache] \/ world' = [world EXCEPT !.reader = reduced]
    BY <1>4 DEF Drive!OpenPage
  <2> HIDE DEF reduced
  <2>2. DOMAIN world' = DOMAIN world /\ world'.drives = world.drives /\ world'.op = world.op
        /\ world'.known = world.known /\ world'.cache = world.cache /\ world'.moved = moved
    BY <1>1, <2>1
  <2>4. \/ world'.page = world.cache /\ world'.reader = world.reader
        \/ world'.page = world.page /\ world'.reader = reduced
    BY <1>1, <2>1
  <2>3. Shows(world'.cache, world.op, moved) /\ Shows(world'.reader, world.op, moved) /\ Shows(world'.page, world.op, moved)
    BY <1>1, <1>2, <2>2, <2>4 DEF reduced
  <2> QED
    BY <1>1, <2>2, <2>3, FormatPages
<1>5. CASE Drive!PageRead
  <2>1. /\ DOMAIN world' = DOMAIN world /\ world'.drives = world.drives /\ world'.op = world.op
        /\ world'.known = world.known /\ world'.moved = moved
        /\ world'.cache = world.reader /\ world'.reader = None /\ world'.page = world.reader
    BY <1>1, <1>5 DEF Drive!PageRead
  <2> QED
    BY <1>1, <1>2, <2>1, FormatPages
<1>6. CASE Drive!CacheAges
  <2>1. /\ DOMAIN world' = DOMAIN world /\ world'.drives = world.drives /\ world'.op = world.op
        /\ world'.known = world.known /\ world'.moved = moved
        /\ world'.cache = None /\ world'.reader = world.reader /\ world'.page = world.page
    BY <1>1, <1>6 DEF Drive!CacheAges
  <2> QED
    BY <1>1, <1>2, <2>1, FormatPages
<1> QED
  BY <1>3, <1>4, <1>5, <1>6

LEMMA ResultsAreOfDrives ==
  ASSUME NEW fmt, FormatShape(fmt)
  PROVE  \A i \in DOMAIN fmt.results : fmt.results[i].drives \in SUBSET Drive!Drive
<1> DEFINE results == fmt.results
           kinds == [drives : SUBSET Drive!Drive, ok : BOOLEAN]
<1>1. results \in Seq(kinds)
  BY DEF FormatShape
<1>2. \A r \in kinds : r.drives \in SUBSET Drive!Drive
  OBVIOUS
<1> HIDE DEF results, kinds
<1>3. \A i \in DOMAIN results : results[i] \in kinds
  BY <1>1
<1> QED
  BY <1>2, <1>3 DEF results

\* Another drive in the bay, at whatever stage the format is.
LEMMA FormatSwap ==
  ASSUME card = "format", Format(world), Drive!Swap
  PROVE  Format(world')
<1> DEFINE another(d) == [serial |-> <<d, 2>>, state |-> "idle"]
           since(d) == IF Drive!Checked(world) THEN world.moved \cup {d} ELSE world.moved
<1>1. PICK d \in Drive!Drive : world' = [world EXCEPT !.drives = [@ EXCEPT ![d] = another(d)], !.moved = since(d)]
  <2>1. PICK d \in {"da", "dc"} :
          world' = [world EXCEPT !.drives[d] = [serial |-> <<d, 2>>, state |-> "idle"],
                                 !.moved = IF Drive!Checked(world) THEN @ \cup {d} ELSE @]
    BY Zenon DEF Drive!Swap
  <2> QED
    BY <2>1, Zenon DEF Drive!Drive
<1> DEFINE put == another(d)
           moved == since(d)
<1>2. {"serial", "state"} \subseteq DOMAIN put /\ put.state = "idle"
  OBVIOUS
<1>3. /\ world.moved \subseteq moved
      /\ world.op.stage \notin {"none", "asked"} => d \in moved
  BY DEF Drive!Checked, Drive!Stage
<1>3a. world' = [world EXCEPT !.drives = [@ EXCEPT ![d] = put], !.moved = moved]
  BY <1>1
<1> HIDE DEF another, since, put, moved
<1>4. /\ {"drives", "known", "up", "cache", "reader", "page", "moved", "op"} \subseteq DOMAIN world
      /\ DOMAIN world.drives = Drive!Drive
  BY DEF Format
<1>5. /\ DOMAIN world' = DOMAIN world /\ world'.known = world.known /\ world'.op = world.op
      /\ world'.cache = world.cache /\ world'.reader = world.reader /\ world'.page = world.page
      /\ world'.drives = [world.drives EXCEPT ![d] = put] /\ world'.moved = moved
  BY <1>3a, <1>4
<1>6. /\ DOMAIN world'.drives = Drive!Drive /\ world'.drives[d] = put
      /\ \A e \in Drive!Drive : e # d => world'.drives[e] = world.drives[e]
  BY <1>4, <1>5
<1>7. Begun(world.op, world.drives, world.moved) /\ FormatShape(world.op)
  BY DEF Format
<1>8. Begun(world.op, world'.drives, moved)
  <2>1. /\ world.op.stage = "sending" /\ Len(world.op.ids) = 1
             => world.op.confirm = world'.drives[world.op.ids[1]].serial \/ world.op.ids[1] \in moved
    <3>1. Len(world.op.ids) = 1 => world.op.ids[1] \in Drive!Drive
      BY <1>7 DEF FormatShape
    <3> QED
      BY <1>3, <1>6, <1>7, <3>1 DEF Begun
  <2>2. \A e \in Drive!Drive : world'.drives[e].state = "formatting" => world'.drives[e] = world.drives[e]
    BY <1>2, <1>6
  <2>3. ASSUME NEW i \in DOMAIN world.op.results, world.op.results[i].ok, NEW e \in world.op.results[i].drives
        PROVE  world'.drives[e].state = "formatting" \/ e \in moved
    <3>1. e \in Drive!Drive
      BY <1>7, <2>3, ResultsAreOfDrives
    <3>2. world.op.stage \notin {"none", "asked"}
      BY <1>7, <2>3, EmptyList DEF Begun
    <3> QED
      BY <1>3, <1>6, <1>7, <2>3, <3>1, <3>2 DEF Begun
  <2> QED
    BY <1>3, <1>7, <2>1, <2>2, <2>3 DEF Begun
<1>9. \A shown : Shows(shown, world.op, world.moved) => Shows(shown, world.op, moved)
  BY <1>3 DEF Shows
<1> QED
  BY <1>2, <1>5, <1>6, <1>8, <1>9 DEF Format

\* What changes of the format that is asked for.
LEMMA FormatMoves ==
  ASSUME Format(world), NEW w, NEW fmt, w = [world EXCEPT !.op = fmt],
         FormatShape(fmt), Begun(fmt, world.drives, world.moved), Reported(fmt), fmt.stage \notin {"200", "207"}
  PROVE  Format(w)
<1>1. /\ DOMAIN w = DOMAIN world /\ w.drives = world.drives /\ w.known = world.known /\ w.op = fmt
      /\ w.moved = world.moved
      /\ w.cache = world.cache /\ w.reader = world.reader /\ w.page = world.page
  BY DEF Format
<1> QED
  BY <1>1 DEF Format, Shows

LEMMA FormatAsked ==
  ASSUME card = "format", Format(world), Drive!AskFormat
  PROVE  Format(world')
<1> DEFINE fmt(ids, as, confirm) == [stage |-> "asked", ids |-> Drive!SetToSeq(ids), as |-> as, left |-> <<>>,
                                     results |-> <<>>, confirm |-> confirm]
<1>1. \E ids \in SUBSET DOMAIN world.page : \E as, confirm : world' = [world EXCEPT !.op = fmt(ids, as, confirm)]
  <2>1. PICK ids \in (SUBSET {d \in DOMAIN world.page : ~Drive!WhyNot(world.page[d])}) \ {{}}, one \in Drive!Formats :
          LET ask == Drive!SetToSeq(ids)
              as == [d \in ids |-> IF d = "db" THEN one ELSE "4096"]
          IN  world' = [world EXCEPT !.op = [stage |-> "asked", ids |-> ask, as |-> as, left |-> <<>>, results |-> <<>>,
                                             confirm |-> Drive!Phrase([i \in DOMAIN ask |-> world.page[ask[i]].serial])]]
    BY Zenon DEF Drive!AskFormat
  <2> DEFINE ask == Drive!SetToSeq(ids)
  <2>2. world' = [world EXCEPT !.op = fmt(ids, [d \in ids |-> IF d = "db" THEN one ELSE "4096"],
                                          Drive!Phrase([i \in DOMAIN ask |-> world.page[ask[i]].serial]))]
    BY <2>1, Zenon
  <2>3. ids \in SUBSET DOMAIN world.page
    BY <2>1
  <2> QED
    BY <2>2, <2>3, Zenon
<1>2. PICK ids \in SUBSET DOMAIN world.page : \E as, confirm : world' = [world EXCEPT !.op = fmt(ids, as, confirm)]
  BY <1>1
<1>3. PICK as, confirm : world' = [world EXCEPT !.op = fmt(ids, as, confirm)]
  BY <1>2
<1> DEFINE new == fmt(ids, as, confirm)
<1>4. ids \subseteq Drive!Drive
  BY <1>2 DEF Drive!AskFormat, Format, Shows
<1>5. Drive!SetToSeq(ids) \in Seq(Drive!Drive)
  <2>1. IsFiniteSet(Drive!Drive)
    BY ThreeAreFinite DEF Drive!Drive
  <2>2. IsFiniteSet(ids)
    BY <1>4, <2>1, FS_Subset
  <2> QED
    BY <1>4, <2>2, ListOf
<1>6. /\ {"stage", "ids", "as", "left", "results", "confirm"} \subseteq DOMAIN new
      /\ new.stage = "asked" /\ new.ids \in Seq(Drive!Drive) /\ new.left = <<>> /\ new.results = <<>>
  BY <1>5
<1>7. world' = [world EXCEPT !.op = new]
  BY <1>3
<1> HIDE DEF new
<1>8. (\A S : <<>> \in Seq(S)) /\ DOMAIN <<>> = {}
  BY EmptyList
<1>9. FormatShape(new)
  BY <1>6, <1>8, Zenon DEF FormatShape
<1>10. \A d \in Drive!Drive : world.drives[d].state # "formatting"
  BY DEF Drive!AskFormat, Drive!Stage, Format, Begun
<1>11. Begun(new, world.drives, world.moved) /\ Reported(new)
  <2>1. \A i \in DOMAIN new.results : FALSE
    BY <1>6, <1>8
  <2> QED
    BY <1>6, <1>10, <2>1 DEF Begun, Reported
<1> QED
  BY <1>6, <1>7, <1>9, <1>11, FormatMoves

\* One request for each node and format, with every drive that was asked for.
LEMMA BatchesOf ==
  ASSUME NEW fmt, fmt.ids \in Seq(Drive!Drive)
  PROVE  LET left == Drive!Batches(fmt.ids, fmt.as) IN
         /\ left \in Seq((SUBSET Drive!Drive) \ {{}})
         /\ \A i \in DOMAIN left : Alike(left[i], fmt) /\ left[i] \subseteq Drive!ToSet(fmt.ids)
         /\ \A d \in Drive!ToSet(fmt.ids) : \E i \in DOMAIN left : d \in left[i]
<1> DEFINE ids == Drive!ToSet(fmt.ids)
           batch(d) == {e \in ids : Drive!Home[e] = Drive!Home[d] /\ fmt.as[e] = fmt.as[d]}
           batches == {batch(d) : d \in ids}
           left == Drive!SetToSeq(batches)
<1>1. ids \subseteq Drive!Drive
  BY DEF Drive!ToSet
<1>2. IsFiniteSet(batches)
  <2>1. batches \subseteq {batch("da"), batch("db"), batch("dc")}
    BY <1>1 DEF Drive!Drive
  <2> HIDE DEF batches, batch
  <2>2. IsFiniteSet({batch("da"), batch("db"), batch("dc")})
    BY ThreeAreFinite
  <2> QED
    BY <2>1, <2>2, FS_Subset
<1>3. left \in Seq(batches) /\ Drive!ToSet(left) = batches
  BY <1>2, ListOf
<1>4. \A d \in ids : d \in batch(d)
  OBVIOUS
<1>5. \A b \in batches : b \in (SUBSET Drive!Drive) \ {{}} /\ b \subseteq ids /\ Alike(b, fmt)
  BY <1>1, <1>4 DEF Alike
<1>6. Drive!Batches(fmt.ids, fmt.as) = left
  BY Zenon DEF Drive!Batches
<1> HIDE DEF ids, batch, batches, left
<1>7. \A i \in DOMAIN left : left[i] \in batches
  BY <1>3
<1>8. left \in Seq((SUBSET Drive!Drive) \ {{}})
  BY <1>3, <1>5
<1>9. \A d \in ids : \E i \in DOMAIN left : d \in left[i]
  <2>1. \A b \in batches : \E i \in DOMAIN left : left[i] = b
    BY <1>3 DEF Drive!ToSet
  <2> QED
    BY <1>4, <2>1, Zenon DEF batches
<1> QED
  BY <1>5, <1>6, <1>7, <1>8, <1>9, Zenon DEF ids

\* The phrase is held against the drives that are read again.
LEMMA FormatChecked ==
  ASSUME card = "format", Format(world), Drive!CheckFormat
  PROVE  Format(world')
<1> DEFINE fmt == world.op
           now == Drive!Reduced(world)
           left == Drive!Batches(fmt.ids, fmt.as)
           phrase == Drive!Phrase([i \in DOMAIN fmt.ids |-> now[fmt.ids[i]].serial])
           refused(stage) == [fmt EXCEPT !.stage = stage]
           begins == [fmt EXCEPT !.stage = "sending", !.left = left]
<1>1. fmt.stage = "asked"
  BY DEF Drive!CheckFormat, Drive!Stage
<1>2. \/ world' = [world EXCEPT !.op = refused("404")]
      \/ world' = [world EXCEPT !.op = refused("428")]
      \/ world' = [world EXCEPT !.op = begins] /\ Drive!ToSet(fmt.ids) \subseteq DOMAIN now /\ fmt.confirm = phrase
  <2>1. world' = [world EXCEPT !.op = IF ~(Drive!ToSet(fmt.ids) \subseteq DOMAIN now) THEN [@ EXCEPT !.stage = "404"]
                                      ELSE IF fmt.confirm # phrase THEN [@ EXCEPT !.stage = "428"]
                                      ELSE [@ EXCEPT !.stage = "sending", !.left = left]]
    BY Zenon DEF Drive!CheckFormat
  <2>2. CASE ~(Drive!ToSet(fmt.ids) \subseteq DOMAIN now)
    BY <2>1, <2>2, Zenon
  <2>3. CASE Drive!ToSet(fmt.ids) \subseteq DOMAIN now /\ fmt.confirm # phrase
    BY <2>1, <2>3, Zenon
  <2>4. CASE Drive!ToSet(fmt.ids) \subseteq DOMAIN now /\ fmt.confirm = phrase
    BY <2>1, <2>4, Zenon
  <2> QED
    BY <2>2, <2>3, <2>4, Zenon
<1>3. /\ FormatShape(fmt) /\ Begun(fmt, world.drives, world.moved)
      /\ fmt.results = <<>> /\ \A i \in DOMAIN fmt.results : FALSE
      /\ \A d \in Drive!Drive : world.drives[d].state # "formatting"
  BY <1>1, EmptyList DEF Format, Begun
<1>4. ASSUME NEW stage \in {"404", "428"}, world' = [world EXCEPT !.op = refused(stage)]
      PROVE  Format(world')
  <2> DEFINE new == refused(stage)
  <2>1. /\ DOMAIN new = DOMAIN fmt /\ new.stage = stage /\ new.ids = fmt.ids /\ new.as = fmt.as
        /\ new.left = fmt.left /\ new.results = fmt.results
    BY <1>3 DEF FormatShape
  <2> HIDE DEF new, fmt
  <2>2. FormatShape(new)
    BY <1>3, <2>1 DEF FormatShape, Alike
  <2>3. Begun(new, world.drives, world.moved) /\ Reported(new)
    BY <1>3, <2>1 DEF Begun, Reported
  <2> QED
    BY <1>4, <2>1, <2>2, <2>3, FormatMoves DEF new
<1>5. ASSUME world' = [world EXCEPT !.op = begins], Drive!ToSet(fmt.ids) \subseteq DOMAIN now, fmt.confirm = phrase
      PROVE  Format(world')
  <2> DEFINE new == begins
  <2>1. /\ DOMAIN new = DOMAIN fmt /\ new.stage = "sending" /\ new.ids = fmt.ids /\ new.as = fmt.as
        /\ new.left = left /\ new.results = fmt.results /\ new.confirm = fmt.confirm
    BY <1>3 DEF FormatShape
  <2>2. fmt.ids \in Seq(Drive!Drive)
    BY <1>3 DEF FormatShape
  <2>3. Len(fmt.ids) = 1 => fmt.confirm = world.drives[fmt.ids[1]].serial
    <3> SUFFICES ASSUME Len(fmt.ids) = 1
                 PROVE  phrase = world.drives[fmt.ids[1]].serial
      BY <1>5
    <3> DEFINE serials == [i \in DOMAIN fmt.ids |-> now[fmt.ids[i]].serial]
    <3>1. DOMAIN fmt.ids = 1..1
      BY <2>2
    <3>2. Len(serials) = 1 /\ serials[1] = now[fmt.ids[1]].serial
      BY <3>1
    <3>3. fmt.ids[1] \in DOMAIN now
      BY <1>5, <3>1 DEF Drive!ToSet
    <3>4. now[fmt.ids[1]] = world.drives[fmt.ids[1]]
      BY <3>3 DEF Drive!Reduced
    <3> HIDE DEF serials, now
    <3>5. Drive!Phrase(serials) = serials[1]
      BY <3>2 DEF Drive!Phrase
    <3> QED
      BY <3>2, <3>4, <3>5 DEF serials
  <2>4. /\ left \in Seq((SUBSET Drive!Drive) \ {{}})
        /\ \A i \in DOMAIN left : Alike(left[i], fmt) /\ left[i] \subseteq Drive!ToSet(fmt.ids)
        /\ \A d \in Drive!ToSet(fmt.ids) : \E i \in DOMAIN left : d \in left[i]
    BY <2>2, BatchesOf
  <2> HIDE DEF new, fmt, left, phrase
  <2>5. FormatShape(new)
    BY <1>3, <2>1, <2>4 DEF FormatShape, Alike
  <2>6. Begun(new, world.drives, world.moved) /\ Reported(new)
    BY <1>3, <2>1, <2>3, <2>4 DEF Begun, Reported, Covered
  <2> QED
    BY <1>5, <2>1, <2>5, <2>6, FormatMoves DEF new
<1> QED
  BY <1>2, <1>4, <1>5

\* What the next request leaves: it was passed over, or was answered, with or without it
\* having begun.
LEMMA FormatSentTo ==
  ASSUME card = "format", Format(world), Drive!SendFormat
  PROVE  LET batch == Head(world.op.left)
             fmt == world.op
             over == [world EXCEPT !.op = [fmt EXCEPT !.left = Tail(fmt.left)]]
             said(ok) == [world EXCEPT !.op = [fmt EXCEPT !.left = Tail(fmt.left),
                                                          !.results = Append(fmt.results, [drives |-> batch, ok |-> ok])]]
             begun == [d \in Drive!Drive |-> IF d \in batch THEN [world.drives[d] EXCEPT !.state = "formatting"]
                                             ELSE world.drives[d]]
         IN  /\ world.op.stage = "sending" /\ world.op.left # <<>>
             /\ \/ world' = over /\ \A d \in batch : Drive!Home[d] # "here"
                \/ world' = said(FALSE)
                \/ \E ok \in BOOLEAN : world' = [said(ok) EXCEPT !.drives = begun]
<1> DEFINE batch == Head(world.op.left)
           node == Drive!Home[CHOOSE d \in batch : TRUE]
           said(ok) == [world EXCEPT !.op.left = Tail(@), !.op.results = Append(@, [drives |-> batch, ok |-> ok])]
           begun == [d \in Drive!Drive |-> IF d \in batch THEN [world.drives[d] EXCEPT !.state = "formatting"]
                                           ELSE world.drives[d]]
<1>1. world.op.stage = "sending" /\ world.op.left # <<>>
  BY DEF Drive!SendFormat, Drive!Stage
<1>2. \/ node \notin world.known /\ world' = [world EXCEPT !.op.left = Tail(@)]
      \/ world' = said(FALSE)
      \/ world' = [said(TRUE) EXCEPT !.drives = begun]
      \/ world' = [said(FALSE) EXCEPT !.drives = begun]
  BY Zenon DEF Drive!SendFormat
<1>3. node \notin world.known => \A d \in batch : Drive!Home[d] # "here"
  <2>1. /\ world.op.left \in Seq((SUBSET Drive!Drive) \ {{}}) /\ "here" \in world.known
        /\ \A i \in DOMAIN world.op.left : Alike(world.op.left[i], world.op)
    BY DEF Format, FormatShape
  <2>2. 1 \in DOMAIN world.op.left /\ batch = world.op.left[1]
    BY <1>1, <2>1
  <2>3. \A d, e \in batch : Drive!Home[d] = Drive!Home[e]
    BY <2>1, <2>2, SMTT(30) DEF Alike
  <2> QED
    BY <2>1, <2>3
<1> QED
  BY <1>1, <1>2, <1>3, Zenon

\* A request that was sent: what it says of its drives, and what they are.
LEMMA FormatSent ==
  ASSUME card = "format", Format(world), Drive!SendFormat
  PROVE  Format(world')
<1> DEFINE fmt == world.op
           batch == Head(fmt.left)
           result(ok) == [drives |-> batch, ok |-> ok]
           passed == [fmt EXCEPT !.left = Tail(fmt.left)]
           told(ok) == [fmt EXCEPT !.left = Tail(fmt.left), !.results = Append(fmt.results, result(ok))]
           begun == [d \in Drive!Drive |-> IF d \in batch THEN [world.drives[d] EXCEPT !.state = "formatting"]
                                           ELSE world.drives[d]]
<1>1. /\ fmt.stage = "sending" /\ fmt.left # <<>>
      /\ \/ world' = [world EXCEPT !.op = passed] /\ \A d \in batch : Drive!Home[d] # "here"
         \/ world' = [world EXCEPT !.op = told(FALSE)]
         \/ \E ok \in BOOLEAN : world' = [[world EXCEPT !.op = told(ok)] EXCEPT !.drives = begun]
  BY FormatSentTo, Zenon
<1>2. /\ FormatShape(fmt) /\ Begun(fmt, world.drives, world.moved) /\ Covered(fmt)
      /\ DOMAIN world.drives = Drive!Drive
      /\ \A d \in Drive!Drive : {"serial", "state"} \subseteq DOMAIN world.drives[d]
  BY <1>1 DEF Format, Reported
<1>3. /\ fmt.left \in Seq((SUBSET Drive!Drive) \ {{}}) /\ Tail(fmt.left) \in Seq((SUBSET Drive!Drive) \ {{}})
      /\ batch \in SUBSET Drive!Drive
      /\ 1 \in DOMAIN fmt.left /\ batch = fmt.left[1]
      /\ \A i \in DOMAIN Tail(fmt.left) : i + 1 \in DOMAIN fmt.left /\ Tail(fmt.left)[i] = fmt.left[i + 1]
      /\ \A i \in DOMAIN fmt.left : i # 1 => i - 1 \in DOMAIN Tail(fmt.left) /\ Tail(fmt.left)[i - 1] = fmt.left[i]
  <2> DEFINE left == fmt.left
  <2>1. left \in Seq((SUBSET Drive!Drive) \ {{}}) /\ left # <<>>
    BY <1>1, <1>2 DEF FormatShape
  <2> HIDE DEF left
  <2>2. /\ Tail(left) \in Seq((SUBSET Drive!Drive) \ {{}}) /\ Len(Tail(left)) = Len(left) - 1
        /\ Len(left) \in Nat /\ Len(left) >= 1 /\ Head(left) = left[1] /\ left[1] \in (SUBSET Drive!Drive) \ {{}}
        /\ DOMAIN left = 1..Len(left) /\ DOMAIN Tail(left) = 1..Len(Tail(left))
        /\ \A i \in 1..Len(Tail(left)) : Tail(left)[i] = left[i + 1]
    BY <2>1, HeadTailProperties, LenProperties, EmptySeq
  <2>3. \A i \in DOMAIN left : i # 1 => i - 1 \in 1..Len(Tail(left)) /\ left[(i - 1) + 1] = left[i]
    BY <2>2
  <2> QED
    BY <2>1, <2>2, <2>3, SMTT(30) DEF left
<1>4. Alike(batch, fmt) /\ batch \subseteq Drive!ToSet(fmt.ids)
  BY <1>2, <1>3 DEF FormatShape
<1>5. ASSUME NEW left, left = Tail(fmt.left)
      PROVE  \A i \in DOMAIN left : Alike(left[i], fmt) /\ left[i] \subseteq Drive!ToSet(fmt.ids)
  BY <1>2, <1>3, <1>5 DEF FormatShape
<1>6. \A d \in Drive!ToSet(fmt.ids) :
        \/ d \in batch \/ \E i \in DOMAIN Tail(fmt.left) : d \in Tail(fmt.left)[i]
        \/ \E i \in DOMAIN fmt.results : d \in fmt.results[i].drives
        \/ Drive!Home[d] # "here"
  BY <1>2, <1>3 DEF Covered
<1>6a. \A i \in DOMAIN fmt.results : fmt.results[i].drives \in SUBSET Drive!Drive
  BY <1>2, ResultsAreOfDrives
<1>7. ASSUME world' = [world EXCEPT !.op = passed], \A d \in batch : Drive!Home[d] # "here"
      PROVE  Format(world')
  <2> DEFINE new == passed
  <2>1. /\ DOMAIN new = DOMAIN fmt /\ new.stage = "sending" /\ new.ids = fmt.ids /\ new.as = fmt.as
        /\ new.left = Tail(fmt.left) /\ new.results = fmt.results /\ new.confirm = fmt.confirm
    BY <1>1, <1>2 DEF FormatShape
  <2> HIDE DEF new, fmt, batch
  <2>2. FormatShape(new)
    BY <1>2, <1>3, <1>5, <2>1 DEF FormatShape, Alike
  <2>3. Covered(new)
    BY <1>6, <1>7, <2>1, SMTT(30) DEF Covered
  <2>4. Begun(new, world.drives, world.moved) /\ Reported(new)
    BY <1>1, <1>2, <2>1, <2>3 DEF Begun, Reported
  <2> QED
    BY <1>7, <2>1, <2>2, <2>4, FormatMoves DEF new
<1>8. ASSUME NEW ok \in BOOLEAN
      PROVE  LET new == told(ok) IN
             /\ DOMAIN new = DOMAIN fmt /\ new.stage = "sending" /\ new.ids = fmt.ids /\ new.as = fmt.as
             /\ new.left = Tail(fmt.left) /\ new.confirm = fmt.confirm
             /\ DOMAIN fmt.results \subseteq DOMAIN new.results
             /\ \A i \in DOMAIN fmt.results : new.results[i] = fmt.results[i]
             /\ \A i \in DOMAIN new.results \ DOMAIN fmt.results : new.results[i] = result(ok)
             /\ \E i \in DOMAIN new.results : new.results[i].drives = batch
             /\ FormatShape(new) /\ Covered(new)
  <2> DEFINE new == told(ok)
  <2>1. /\ DOMAIN new = DOMAIN fmt /\ new.stage = "sending" /\ new.ids = fmt.ids /\ new.as = fmt.as
        /\ new.left = Tail(fmt.left) /\ new.results = Append(fmt.results, result(ok)) /\ new.confirm = fmt.confirm
    BY <1>1, <1>2, Zenon DEF FormatShape
  <2> DEFINE r == result(ok)
  <2>2. r \in [drives : SUBSET Drive!Drive, ok : BOOLEAN] /\ r.drives = batch
    BY <1>3
  <2>3. fmt.results \in Seq([drives : SUBSET Drive!Drive, ok : BOOLEAN])
    BY <1>2 DEF FormatShape
  <2> HIDE DEF new, r, fmt, batch
  <2>4. /\ new.results \in Seq([drives : SUBSET Drive!Drive, ok : BOOLEAN])
        /\ DOMAIN fmt.results \subseteq DOMAIN new.results
        /\ \A i \in DOMAIN fmt.results : new.results[i] = fmt.results[i]
        /\ \A i \in DOMAIN new.results \ DOMAIN fmt.results : new.results[i] = r
        /\ Len(fmt.results) + 1 \in DOMAIN new.results /\ new.results[Len(fmt.results) + 1] = r
    BY <2>1, <2>2, <2>3, AppendProperties DEF r
  <2>5. \E i \in DOMAIN new.results : new.results[i].drives = batch
    BY <2>2, <2>4
  <2>6. FormatShape(new)
    <3>1. \A i \in DOMAIN new.results : Alike(new.results[i].drives, fmt)
      BY <1>2, <1>4, <2>2, <2>4 DEF FormatShape
    <3> QED
      BY <1>2, <1>3, <1>5, <2>1, <2>4, <3>1 DEF FormatShape, Alike
  <2>7. Covered(new)
    BY <1>6, <2>1, <2>4, <2>5 DEF Covered
  <2> QED
    BY <2>1, <2>4, <2>5, <2>6, <2>7 DEF new, r
<1>9. ASSUME world' = [world EXCEPT !.op = told(FALSE)]
      PROVE  Format(world')
  <2> DEFINE new == told(FALSE)
  <2>1. result(FALSE).ok = FALSE
    OBVIOUS
  <2> HIDE DEF new
  <2>2. /\ new.stage = "sending" /\ new.ids = fmt.ids /\ new.confirm = fmt.confirm
        /\ \A i \in DOMAIN new.results : \/ i \in DOMAIN fmt.results /\ new.results[i] = fmt.results[i]
                                         \/ ~new.results[i].ok
        /\ FormatShape(new) /\ Covered(new)
    BY <1>8, <2>1 DEF new
  <2>3. Begun(new, world.drives, world.moved) /\ Reported(new)
    BY <1>1, <1>2, <2>2 DEF Begun, Reported
  <2> QED
    BY <1>9, <2>2, <2>3, FormatMoves DEF new
<1>10. ASSUME NEW ok \in BOOLEAN, world' = [[world EXCEPT !.op = told(ok)] EXCEPT !.drives = begun]
       PROVE  Format(world')
  <2> DEFINE new == told(ok)
             r == result(ok)
  <2>1. r.drives = batch
    OBVIOUS
  <2>2. /\ DOMAIN begun = Drive!Drive
        /\ \A d \in Drive!Drive : /\ DOMAIN begun[d] = DOMAIN world.drives[d] /\ begun[d].serial = world.drives[d].serial
                                  /\ begun[d].state = IF d \in batch THEN "formatting" ELSE world.drives[d].state
    BY <1>2
  <2>3. /\ new.stage = "sending" /\ new.ids = fmt.ids /\ new.confirm = fmt.confirm
        /\ \A i \in DOMAIN new.results : \/ i \in DOMAIN fmt.results /\ new.results[i] = fmt.results[i]
                                         \/ new.results[i] = r
        /\ FormatShape(new) /\ Covered(new)
    BY <1>8
  <2> HIDE DEF new, r, begun
  <2>4. /\ DOMAIN world' = DOMAIN world /\ world'.known = world.known /\ world'.op = new /\ world'.drives = begun
        /\ world'.moved = world.moved
        /\ world'.cache = world.cache /\ world'.reader = world.reader /\ world'.page = world.page
    BY <1>10 DEF Format, new
  <2> HIDE DEF fmt, batch
  <2>5. Begun(new, begun, world.moved)
    <3>1. \A d \in Drive!Drive : begun[d].state = "formatting" =>
            d \in Drive!ToSet(new.ids) /\ (Len(new.ids) = 1 => new.confirm = begun[d].serial \/ d \in world.moved)
      <4>1. ASSUME NEW d \in batch, Len(fmt.ids) = 1 PROVE d = fmt.ids[1]
        <5>1. fmt.ids \in Seq(Drive!Drive) /\ d \in Drive!ToSet(fmt.ids)
          BY <1>2, <1>4 DEF FormatShape
        <5> QED
          BY <4>1, <5>1 DEF Drive!ToSet
      <4> QED
        BY <1>1, <1>2, <1>3, <1>4, <2>2, <2>3, <4>1 DEF Begun
    <3>2. \A i \in DOMAIN new.results : new.results[i].ok =>
            \A d \in new.results[i].drives : begun[d].state = "formatting" \/ d \in world.moved
      <4> SUFFICES ASSUME NEW i \in DOMAIN new.results, new.results[i].ok, NEW d \in new.results[i].drives
                   PROVE  begun[d].state = "formatting" \/ d \in world.moved
        OBVIOUS
      <4>1. CASE new.results[i] = r
        BY <1>3, <2>1, <2>2, <4>1
      <4>2. CASE i \in DOMAIN fmt.results /\ new.results[i] = fmt.results[i]
        <5>1. d \in Drive!Drive /\ (world.drives[d].state = "formatting" \/ d \in world.moved)
          <6>1. fmt.results[i].ok /\ d \in fmt.results[i].drives
            BY <4>2, SMTT(30)
          <6> QED
            BY <1>2, <1>6a, <4>2, <6>1 DEF Begun
        <5> QED
          BY <2>2, <5>1
      <4> QED
        BY <2>3, <4>1, <4>2
    <3>3. Len(new.ids) = 1 => new.confirm = begun[new.ids[1]].serial \/ new.ids[1] \in world.moved
      <4>1. Len(fmt.ids) = 1 => fmt.ids[1] \in Drive!Drive
        BY <1>2 DEF FormatShape
      <4> QED
        BY <1>1, <1>2, <2>2, <2>3, <4>1 DEF Begun
    <3> QED
      BY <2>3, <3>1, <3>2, <3>3 DEF Begun
  <2> QED
    BY <1>2, <2>2, <2>3, <2>4, <2>5 DEF Format, Reported, Shows
<1> QED
  BY <1>1, <1>7, <1>9, <1>10

\* The answer, and the page that is read after it.
LEMMA FormatAnswered ==
  ASSUME card = "format", Format(world), Drive!AnswerFormat
  PROVE  Format(world')
<1> DEFINE fmt == world.op
           all == \A i \in DOMAIN fmt.results : fmt.results[i].ok
           new == [fmt EXCEPT !.stage = IF all THEN "200" ELSE "207"]
<1>1. /\ fmt.stage = "sending" /\ fmt.left = <<>>
      /\ world' = [world EXCEPT !.cache = None, !.page = None, !.op = new]
      /\ world.reader = None
  <2>1. fmt.stage = "sending" /\ fmt.left = <<>> /\ world.reader = None
    BY DEF Drive!AnswerFormat, Drive!Stage
  <2>2. world' = [world EXCEPT !.cache = None, !.page = None, !.op.stage = IF all THEN "200" ELSE "207"]
    BY Zenon DEF Drive!AnswerFormat
  <2> QED
    BY <2>1, <2>2, Zenon
<1>2. FormatShape(fmt) /\ Begun(fmt, world.drives, world.moved) /\ Covered(fmt)
  BY <1>1 DEF Format, Reported
<1>3. /\ DOMAIN new = DOMAIN fmt /\ new.stage \in {"200", "207"}
      /\ new.stage = "200" => all
      /\ new.ids = fmt.ids /\ new.as = fmt.as /\ new.left = fmt.left /\ new.results = fmt.results
      /\ new.confirm = fmt.confirm
  <2> HIDE DEF all
  <2> QED
    BY <1>2 DEF FormatShape
<1> HIDE DEF new
<1>4. /\ DOMAIN world' = DOMAIN world /\ world'.known = world.known /\ world'.op = new /\ world'.drives = world.drives
      /\ world'.moved = world.moved
      /\ world'.cache = None /\ world'.reader = None /\ world'.page = None
  BY <1>1 DEF Format
<1> HIDE DEF fmt
<1>5. FormatShape(new)
  BY <1>2, <1>3 DEF FormatShape, Alike
<1>6. Begun(new, world.drives, world.moved)
  BY <1>1, <1>2, <1>3 DEF Begun
<1>7. Reported(new)
  BY <1>1, <1>2, <1>3 DEF Reported, Covered
<1> QED
  BY <1>4, <1>5, <1>6, <1>7 DEF Format, Shows, fmt

LEMMA FormatStep ==
  /\ Drive!Init => FormatInv
  /\ FormatInv /\ Drive!Next => FormatInv'
<1>1. ASSUME FormatInv, Drive!Next PROVE FormatInv'
  <2>1. card' = card
    BY <1>1 DEF Drive!Next, Drive!Discover, Drive!Refresh, Drive!PollFeed, Drive!Swap, Drive!Leave, Drive!OpenPage,
                Drive!PageRead, Drive!CacheAges, Drive!AskFormat, Drive!CheckFormat, Drive!SendFormat,
                Drive!AnswerFormat, Drive!Hide, Drive!Reports, Drive!AskUsage, Drive!AnswerUsage, Drive!UsageAges
  <2>2. card = "format" =>
          \/ Drive!Swap \/ Drive!Leave \/ Drive!OpenPage \/ Drive!PageRead \/ Drive!CacheAges
          \/ Drive!AskFormat \/ Drive!CheckFormat \/ Drive!SendFormat \/ Drive!AnswerFormat
    BY <1>1 DEF Drive!Next, Drive!Discover, Drive!Refresh, Drive!PollFeed, Drive!Hide, Drive!Reports, Drive!AskUsage,
                Drive!AnswerUsage, Drive!UsageAges
  <2>3. card = "format" => Format(world')
    BY <1>1, <2>2, FormatSwap, FormatPagesStep, FormatAsked, FormatChecked, FormatSent, FormatAnswered DEF FormatInv
  <2> QED
    BY <2>1, <2>3 DEF FormatInv, Format
<1> QED
  BY <1>1, FormatInit

LEMMA FormatTold ==
  ASSUME FormatInv
  PROVE  Drive!FormatIsTrue
<1> DEFINE fmt == world.op
           asked == Drive!ToSet(fmt.ids)
           ok == UNION {fmt.results[i].drives : i \in {j \in DOMAIN fmt.results : fmt.results[j].ok}}
           told == UNION {fmt.results[i].drives : i \in DOMAIN fmt.results}
<1> SUFFICES ASSUME card = "format", Drive!Stage(world) # "none"
             PROVE  /\ \A i \in DOMAIN fmt.results : \A d, e \in fmt.results[i].drives :
                         <<Drive!Home[d], fmt.as[d]>> = <<Drive!Home[e], fmt.as[e]>>
                    /\ \A d \in Drive!Drive : world.drives[d].state = "formatting" =>
                         d \in asked /\ (Len(fmt.ids) = 1 => fmt.confirm = world.drives[d].serial \/ d \in world.moved)
                    /\ \A d \in ok : world.drives[d].state = "formatting" \/ d \in world.moved
                    /\ fmt.stage = "200" => \A d \in asked : d \in ok \/ (d \notin told /\ Drive!Home[d] # "here")
                    /\ fmt.stage \in {"200", "207"} /\ world.page # None =>
                         \A d \in ok \cap DOMAIN world.page : Drive!WhyNot(world.page[d]) \/ d \in world.moved
  BY Zenon DEF Drive!FormatIsTrue
<1>1. FormatShape(fmt) /\ Begun(fmt, world.drives, world.moved) /\ Reported(fmt) /\ Shows(world.page, fmt, world.moved)
  BY DEF FormatInv, Format
<1> HIDE DEF fmt
<1>2. \A i \in DOMAIN fmt.results : Alike(fmt.results[i].drives, fmt)
  BY <1>1 DEF FormatShape
<1>3. \A d \in ok : \E i \in DOMAIN fmt.results : fmt.results[i].ok /\ d \in fmt.results[i].drives
  OBVIOUS
<1>4. \A d \in told : \E i \in DOMAIN fmt.results : d \in fmt.results[i].drives
  OBVIOUS
<1>5. \A i \in DOMAIN fmt.results : \A d \in fmt.results[i].drives : d \in told /\ (fmt.results[i].ok => d \in ok)
  OBVIOUS
<1> HIDE DEF ok, told
<1>6. \A d \in ok : world.drives[d].state = "formatting" \/ d \in world.moved
  BY <1>1, <1>3 DEF Begun
<1>7. fmt.stage = "200" => \A d \in asked : d \in ok \/ (d \notin told /\ Drive!Home[d] # "here")
  <2> SUFFICES ASSUME fmt.stage = "200", NEW d \in asked
               PROVE  d \in ok \/ (d \notin told /\ Drive!Home[d] # "here")
    OBVIOUS
  <2>1. /\ \A i \in DOMAIN fmt.results : fmt.results[i].ok
        /\ \A i \in DOMAIN fmt.left : FALSE
        /\ Covered(fmt)
    BY <1>1, EmptyList DEF Reported
  <2>2. d \in told => d \in ok
    BY <1>4, <1>5, <2>1
  <2> QED
    BY <1>5, <2>1, <2>2 DEF Covered
<1>8. fmt.stage \in {"200", "207"} /\ world.page # None =>
        \A d \in ok \cap DOMAIN world.page : Drive!WhyNot(world.page[d]) \/ d \in world.moved
  BY <1>1, <1>3 DEF Shows, Drive!WhyNot
<1> QED
  BY <1>1, <1>2, <1>6, <1>7, <1>8 DEF Begun, Alike

\* A machine's row has an endpoint exactly where policy reaches its address, and its guest
\* is answered for by its own addresses only.
LEMMA MachineSays == Machine!FenceIsReal /\ Machine!AnsweredIsOwn
<1> DEFINE w == world
<1>1. ASSUME card = "row", Machine!Live(w), Machine!Reach(w, FALSE) \in {"nat", "segment", "pod"}
      PROVE  "endpoint" \in Machine!Row(w).relations <=> Machine!Reach(w, FALSE) = "pod"
  <2>1. Machine!Row(w).relations = Machine!Relations(w)
    BY <1>1 DEF Machine!Row, Machine!Rows
  <2>2. "endpoint" \in Machine!Relations(w) <=> Machine!OutsidePolicy(w) = None
    BY <1>1 DEF Machine!Relations
  <2>3. Machine!OutsidePolicy(w) = None <=> Machine!Reach(w, FALSE) = "pod"
    BY <1>1, NoneAssumption DEF Machine!OutsidePolicy, Machine!Reach, Machine!AskedBridge
  <2> QED
    BY <2>1, <2>2, <2>3
<1>2. ASSUME Machine!Identity(w) = "answered"
      PROVE  "another" \notin Machine!IdentityRows(w)
  <2>1. Machine!Identity(w) \in {None, Machine!Verdict(FALSE, {}), Machine!Verdict(TRUE, Machine!IdentityRows(w))}
    BY DEF Machine!Identity
  <2>2. None # "answered" /\ Machine!Verdict(FALSE, {}) # "answered"
    BY NoneAssumption DEF Machine!Verdict
  <2>3. Machine!Verdict(TRUE, Machine!IdentityRows(w)) = "answered"
    BY <1>2, <2>1, <2>2
  <2> QED
    BY <2>3 DEF Machine!Verdict
<1> QED
  BY <1>1, <1>2 DEF Machine!FenceIsReal, Machine!AnsweredIsOwn

\* A node is read where it is said to be, and its rows came from there.
NodesInv ==
  card = "nodes" =>
    /\ {"at", "static", "feed", "rows"} \subseteq DOMAIN world
    /\ world.feed # None =>
         /\ {"base", "rows"} \subseteq DOMAIN world.feed
         /\ world.feed.rows \in {{}, {<<"drive", world.feed.base>>}}

LEMMA NodesStep ==
  /\ Drive!Init => NodesInv
  /\ NodesInv /\ Drive!Next => NodesInv'
<1>1. ASSUME Drive!Init PROVE NodesInv
  <2>1. card = "nodes" => \E static : world = [Drive!NoNodes EXCEPT !.static = static]
    BY <1>1 DEF Drive!Init
  <2> QED
    BY <2>1 DEF NodesInv, Drive!NoNodes
<1>2. ASSUME NodesInv, Drive!Discover PROVE NodesInv'
  <2>1. PICK at : world' = [world EXCEPT !.at = at]
    BY <1>2 DEF Drive!Discover
  <2>2. card = "nodes" /\ card' = card
    BY <1>2 DEF Drive!Discover
  <2>3. DOMAIN world' = DOMAIN world /\ world'.feed = world.feed
    BY <1>2, <2>1, <2>2 DEF NodesInv
  <2> QED
    BY <1>2, <2>2, <2>3 DEF NodesInv
<1>3. ASSUME NodesInv, Drive!Refresh PROVE NodesInv'
  <2> DEFINE fresh == [base |-> Drive!Wanted(world), rows |-> {}]
  <2>1. card = "nodes" /\ card' = card
    BY <1>3 DEF Drive!Refresh
  <2>2. PICK put \in {None, world.feed, fresh} : world' = [world EXCEPT !.feed = put]
    BY <1>3 DEF Drive!Refresh
  <2>3. DOMAIN fresh = {"base", "rows"} /\ fresh.rows = {}
    OBVIOUS
  <2> HIDE DEF fresh
  <2>4. DOMAIN world' = DOMAIN world /\ world'.feed = put
    BY <1>3, <2>1, <2>2 DEF NodesInv
  <2> QED
    BY <1>3, <2>1, <2>2, <2>3, <2>4 DEF NodesInv
<1>4. ASSUME NodesInv, Drive!PollFeed PROVE NodesInv'
  <2>1. card = "nodes" /\ card' = card /\ world.feed # None
    BY <1>4 DEF Drive!PollFeed
  <2>2. PICK rows \in {{}, {<<"drive", world.feed.base>>}} : world' = [world EXCEPT !.feed = [@ EXCEPT !.rows = rows]]
    BY <1>4 DEF Drive!PollFeed
  <2> DEFINE asked == [world.feed EXCEPT !.rows = rows]
  <2>3. DOMAIN asked = DOMAIN world.feed /\ asked.base = world.feed.base /\ asked.rows = rows
    BY <1>4, <2>1 DEF NodesInv
  <2>4. world' = [world EXCEPT !.feed = asked]
    BY <2>2
  <2> HIDE DEF asked
  <2>5. DOMAIN world' = DOMAIN world /\ world'.feed = asked
    BY <1>4, <2>1, <2>4 DEF NodesInv
  <2> QED
    BY <1>4, <2>1, <2>3, <2>5 DEF NodesInv
<1>5. ASSUME Drive!Next, ~(Drive!Discover \/ Drive!Refresh \/ Drive!PollFeed)
      PROVE  card # "nodes" /\ card' = card
  BY <1>5 DEF Drive!Next, Drive!Swap, Drive!Leave, Drive!OpenPage, Drive!PageRead, Drive!CacheAges, Drive!AskFormat,
              Drive!CheckFormat, Drive!SendFormat, Drive!AnswerFormat, Drive!Hide, Drive!Reports, Drive!AskUsage,
              Drive!AnswerUsage, Drive!UsageAges
<1> QED
  BY <1>1, <1>2, <1>3, <1>4, <1>5 DEF NodesInv

LEMMA NodesReached ==
  ASSUME NodesInv
  PROVE  Drive!RowsAreReached
<1> SUFFICES ASSUME card = "nodes"
             PROVE  /\ \A c \in Drive!Components(world) : Drive!ProxyBase(world, c.node) = c.from
                    /\ Cardinality(Drive!Components(world)) = Drive!Answering(world)
                    /\ Drive!Silent(world) \in 0..1
  BY Zenon DEF Drive!RowsAreReached, Drive!Cardinality, Cardinality
<1> DEFINE here == [id |-> "here", node |-> "here", from |-> 0]
           there == [id |-> "there", node |-> "there", from |-> world.feed.base]
           heard == world.feed # None /\ world.feed.rows # {}
<1>1. here.node = "here" /\ there.node = "there" /\ here.from = 0 /\ there.from = world.feed.base
  OBVIOUS
<1>2. here # there
  <2> HIDE DEF here, there
  <2> QED
    BY <1>1
<1>3. Drive!Components(world) = IF heard THEN {here, there} ELSE {here}
  <2>1. CASE heard
    <3>1. world.feed.rows = {<<"drive", world.feed.base>>}
      BY <2>1 DEF NodesInv
    <3> QED
      BY <2>1, <3>1 DEF Drive!Components
  <2>2. CASE ~heard
    BY <2>2 DEF Drive!Components
  <2> QED
    BY <2>1, <2>2
<1> HIDE DEF here, there
<1>4. Cardinality({here}) = 1 /\ Cardinality({here, there}) = 2
  <2>1. IsFiniteSet({here}) /\ Cardinality({here}) = 1
    BY FS_Singleton
  <2>2. Cardinality({here} \cup {there}) = 2
    BY <1>2, <2>1, FS_AddElement
  <2>3. {here, there} = {here} \cup {there}
    OBVIOUS
  <2> QED
    BY <2>1, <2>2, <2>3
<1>5. Cardinality(Drive!Components(world)) = Drive!Answering(world)
  BY <1>3, <1>4 DEF Drive!Answering
<1>6. Drive!Silent(world) \in 0..1
  BY DEF Drive!Silent, Drive!Answering
<1>7. \A c \in Drive!Components(world) : Drive!ProxyBase(world, c.node) = c.from
  BY <1>1, <1>3 DEF Drive!ProxyBase
<1> QED
  BY <1>5, <1>6, <1>7

\* What refuses is noted, and a fetch is on one row.
LEMMA RegistryStep ==
  /\ Image!Init => Image!RefusalIsSaid
  /\ Image!RefusalIsSaid /\ Image!Next => Image!RefusalIsSaid'
<1>1. ASSUME Image!Init PROVE Image!RefusalIsSaid
  BY <1>1 DEF Image!Init, Image!RefusalIsSaid
<1>2. ASSUME Image!PollRegistry PROVE Image!RefusalIsSaid'
  <2>1. card = "registry" /\ card' = card
    BY <1>2 DEF Image!PollRegistry
  <2>2. PICK ready \in {"ready", "warming", "step failed", "not ready", "unreachable"},
             catalog \in {"listed", "without it", "predates", "refused", "failing", "silent"},
             jobs \in {"listed", "refused", "silent"}, job \in {"fetching", "failed", "done"},
             lists \in {"listed", "refused"}, sealed \in BOOLEAN, engine \in BOOLEAN :
          LET repos == Image!RepositoryRows(engine)
              known == catalog = "listed"
              fetched == Image!Items(jobs, job, "done")
              note == Image!CatalogNote(catalog) \/ Image!Refused(jobs) \/ Image!Refused(lists)
              said == [ready |-> ready, catalog |-> catalog, jobs |-> jobs, job |-> job, lists |-> lists, engine |-> engine]
          IN  world' = IF ready = "unreachable"
                         THEN [health |-> "error", note |-> FALSE, rows |-> repos, said |-> said]
                         ELSE [health |-> IF note /\ Image!Readiness(ready) = "ok" THEN "warn" ELSE Image!Readiness(ready), note |-> note,
                               rows |-> repos \cup (IF known THEN {Image!ImageRow(sealed, fetched)} ELSE {}) \cup Image!OrphanJob(fetched, known),
                               said |-> said]
    BY <1>2 DEF Image!PollRegistry
  <2> DEFINE repos == Image!RepositoryRows(engine)
             known == catalog = "listed"
             fetched == Image!Items(jobs, job, "done")
             note == Image!CatalogNote(catalog) \/ Image!Refused(jobs) \/ Image!Refused(lists)
             said == [ready |-> ready, catalog |-> catalog, jobs |-> jobs, job |-> job, lists |-> lists, engine |-> engine]
             health == IF note /\ Image!Readiness(ready) = "ok" THEN "warn" ELSE Image!Readiness(ready)
             rows == repos \cup (IF known THEN {Image!ImageRow(sealed, fetched)} ELSE {}) \cup Image!OrphanJob(fetched, known)
             refusedOf == {catalog, jobs, lists} \cap {"refused", "failing", "predates"} # {}
  <2>3. /\ said.ready = ready /\ said.catalog = catalog /\ said.jobs = jobs /\ said.job = job
        /\ said.lists = lists /\ said.engine = engine
    OBVIOUS
  <2>4. engine => \E r \in repos : r.row = "repository"
    BY DEF Image!RepositoryRows
  <2>5. refusedOf => note /\ health # "ok"
    BY DEF Image!CatalogNote, Image!Refused, Image!Readiness
  <2>6. ASSUME jobs = "listed", Image!Active(job)
        PROVE  \E one : {r \in rows : r.job} = {one} /\ one.health = Image!Progress(job)
    <3>1. fetched = job
      BY <2>6 DEF Image!Items
    <3>2. \A r \in repos : r.job = FALSE
      <4> DEFINE repository == [row |-> "repository", job |-> FALSE, health |-> "ok"]
      <4>1. repos \subseteq {repository}
        BY DEF Image!RepositoryRows
      <4>2. repository.job = FALSE
        OBVIOUS
      <4> HIDE DEF repos, repository
      <4>3. \A r \in repos : r = repository
        BY <4>1
      <4> QED
        BY <4>2, <4>3
    <3>3. Image!ImageRow(sealed, job).job = TRUE /\ Image!ImageRow(sealed, job).health = Image!Progress(job)
      BY <2>6 DEF Image!ImageRow
    <3> DEFINE orphan == [row |-> "job", job |-> TRUE, health |-> Image!Progress(job)]
    <3>4. Image!OrphanJob(job, known) = IF known THEN {} ELSE {orphan}
      BY <2>6 DEF Image!OrphanJob
    <3>5. orphan.job = TRUE /\ orphan.health = Image!Progress(job)
      OBVIOUS
    <3> HIDE DEF orphan, repos
    <3>6. CASE known
      <4>1. {r \in rows : r.job} = {Image!ImageRow(sealed, job)}
        BY <3>1, <3>2, <3>3, <3>4, <3>6
      <4> QED
        BY <3>3, <4>1
    <3>7. CASE ~known
      <4>1. {r \in rows : r.job} = {orphan}
        BY <3>1, <3>2, <3>4, <3>5, <3>7
      <4> QED
        BY <3>5, <4>1
    <3> QED
      BY <3>6, <3>7
  <2>7. CASE ready = "unreachable"
    <3> DEFINE new == [health |-> "error", note |-> FALSE, rows |-> repos, said |-> said]
    <3>1. world' = new
      BY <2>2, <2>7
    <3>2. new.health = "error" /\ new.rows = repos /\ new.said = said
      OBVIOUS
    <3> HIDE DEF new, said, repos
    <3> QED
      BY <2>1, <2>3, <2>4, <2>7, <3>1, <3>2 DEF Image!RefusalIsSaid
  <2>8. CASE ready # "unreachable"
    <3> DEFINE new == [health |-> health, note |-> note, rows |-> rows, said |-> said]
    <3>1. world' = new
      BY <2>2, <2>8
    <3>2. new.health = health /\ new.note = note /\ new.rows = rows /\ new.said = said
      OBVIOUS
    <3>3. engine => \E r \in rows : r.row = "repository"
      BY <2>4
    <3>4. \A one : Cardinality({one}) = 1
      BY FS_Singleton
    <3> HIDE DEF new, said, repos, health, note, rows
    <3>5. jobs = "listed" /\ Image!Active(job) =>
            Cardinality({r \in rows : r.job}) = 1 /\ \A r \in rows : r.job => r.health = Image!Progress(job)
      <4> SUFFICES ASSUME jobs = "listed", Image!Active(job)
                   PROVE  Cardinality({r \in rows : r.job}) = 1 /\ \A r \in rows : r.job => r.health = Image!Progress(job)
        OBVIOUS
      <4>1. PICK one : {r \in rows : r.job} = {one} /\ one.health = Image!Progress(job)
        BY <2>6
      <4>2. Cardinality({r \in rows : r.job}) = 1
        BY <3>4, <4>1
      <4>3. \A r \in rows : r.job => r = one
        BY <4>1
      <4> QED
        BY <4>1, <4>2, <4>3
    <3>6. Image!RefusalIsSaid'
          <=> (card' = "registry" /\ world'.said # None =>
                LET s == world'.said IN
                /\ s.ready # "unreachable" /\ {s.catalog, s.jobs, s.lists} \cap {"refused", "failing", "predates"} # {}
                     => world'.note /\ world'.health # "ok"
                /\ s.ready = "unreachable" => world'.health = "error"
                /\ s.ready # "unreachable" /\ s.jobs = "listed" /\ Image!Active(s.job)
                     => Cardinality({r \in world'.rows : r.job}) = 1 /\ \A r \in world'.rows : r.job => r.health = Image!Progress(s.job)
                /\ s.engine => \E r \in world'.rows : r.row = "repository")
      BY Zenon DEF Image!RefusalIsSaid, Image!Cardinality, Cardinality
    <3>7. world'.health = health /\ world'.note = note /\ world'.rows = rows /\ world'.said = said
      BY <3>1, <3>2
    <3> QED
      BY <2>3, <2>5, <2>8, <3>3, <3>5, <3>6, <3>7
  <2> QED
    BY <2>7, <2>8
<1>3. ASSUME Image!ReadHoldings \/ Image!HoldingsAge PROVE card' # "registry"
  BY <1>3 DEF Image!ReadHoldings, Image!HoldingsAge
<1> QED
  BY <1>1, <1>2, <1>3 DEF Image!Next, Image!RefusalIsSaid

-----------------------------------------------------------------------------
(* What is said of a pod. *)

\* What a card does not vary is as it was, and a variable is one of a container's entries.
PodInv ==
  /\ DOMAIN world = DOMAIN Pod!Quiet
  /\ card \in {"under", "over"} => world.hidden = FALSE /\ world.there = TRUE
  /\ world.claim \in Pod!ValuesOf("claim")
  /\ world.owner \in Pod!ValuesOf("owner")
  /\ world.first \in {None} \cup Pod!Entries /\ world.second \in {None} \cup Pod!Entries
  /\ world.from \in Pod!ValuesOf("from")

LEMMA PodStep ==
  /\ Pod!Init => PodInv
  /\ PodInv /\ Pod!Next => PodInv'
<1>1. ASSUME Pod!Init PROVE PodInv
  <2>1. world = Pod!Quiet
    BY <1>1 DEF Pod!Init
  <2>2. /\ Pod!Quiet.hidden = FALSE /\ Pod!Quiet.there = TRUE
        /\ Pod!Quiet.claim = None /\ Pod!Quiet.owner = <<>>
        /\ Pod!Quiet.first = None /\ Pod!Quiet.second = None /\ Pod!Quiet.from = <<>>
    BY DEF Pod!Quiet
  <2> QED
    BY <2>1, <2>2 DEF PodInv, Pod!ValuesOf
<1>2. ASSUME PodInv, NEW p \in DOMAIN world, Pod!Event(p) PROVE PodInv'
  <2>1. PICK v \in Pod!ValuesOf(p) : world' = [world EXCEPT ![p] = v]
    BY <1>2 DEF Pod!Event
  <2>2. card' = card /\ (card \in {"under", "over"} => p \notin {"hidden", "there"})
    BY <1>2 DEF Pod!Event, Pod!Varies
  <2>3. {"hidden", "there", "claim", "owner", "first", "second", "from"} \subseteq DOMAIN world
    BY <1>2 DEF PodInv, Pod!Quiet
  <2>4. p \in {"first", "second"} => v \in {None} \cup Pod!Entries
    BY <2>1 DEF Pod!ValuesOf
  <2>5. /\ DOMAIN world' = DOMAIN world
        /\ p # "hidden" => world'.hidden = world.hidden
        /\ p # "there" => world'.there = world.there
        /\ world'.claim = IF p = "claim" THEN v ELSE world.claim
        /\ world'.owner = IF p = "owner" THEN v ELSE world.owner
        /\ world'.first = IF p = "first" THEN v ELSE world.first
        /\ world'.second = IF p = "second" THEN v ELSE world.second
        /\ world'.from = IF p = "from" THEN v ELSE world.from
    BY <1>2, <2>1, <2>3
  <2> QED
    BY <1>2, <2>1, <2>2, <2>4, <2>5 DEF PodInv
<1> QED
  BY <1>1, <1>2 DEF Pod!Next

\* A variable is not there or is made of one thing, which is not a Secret's.
PodVars == {None} \cup [value : {None} \cup {{s} : s \in {"map", "text", "field", "$(A)"}}, hidden : BOOLEAN]

LEMMA EntrySets ==
  ASSUME NEW known \in [{"A", "B"} -> PodVars], NEW e \in {None} \cup Pod!Entries
  PROVE  /\ Pod!SetVar(known, e, world) \in [{"A", "B"} -> PodVars]
         /\ e = None => Pod!SetVar(known, e, world) = known
         /\ e # None => /\ e.name \in {"A", "B"}
                        /\ \A n \in {"A", "B"} \ {e.name} : Pod!SetVar(known, e, world)[n] = known[n]
                        /\ e.how = "text" => Pod!SetVar(known, e, world)[e.name] = [value |-> {"text"}, hidden |-> FALSE]
                        /\ e.how = "secret" => Pod!SetVar(known, e, world)[e.name] = [value |-> None, hidden |-> TRUE]
<1>1. CASE e = None
  BY <1>1 DEF Pod!SetVar
<1>2. CASE e # None
  <2> DEFINE made == Pod!Made(e, known, world)
  <2>1. e \in Pod!Entries
    BY <1>2
  <2>2. e.name \in {"A", "B"} /\ e.how \in {"text", "$(A)", "$$(A)", "secret", "map", "no key", "field"}
    BY <2>1 DEF Pod!Entries
  <2>3. Pod!Expand(known) \in {None} \cup {{s} : s \in {"map", "text", "field", "$(A)"}}
    BY DEF Pod!Expand, PodVars
  <2>4. made \in PodVars
    <3>1. \A x \in {None} \cup {{s} : s \in {"map", "text", "field", "$(A)"}}, h \in BOOLEAN : Pod!Var(x, h) \in PodVars
      BY DEF Pod!Var, PodVars
    <3>2. made \in {Pod!Var(Pod!Expand(known), FALSE), Pod!Var(None, TRUE), Pod!Var(None, FALSE), Pod!Var({"map"}, FALSE),
                    Pod!Var({"text"}, FALSE), Pod!Var({"field"}, FALSE), Pod!Var({"$(A)"}, FALSE)}
      BY <2>2 DEF Pod!Made, Pod!NotShown
    <3> QED
      BY <2>3, <3>1, <3>2
  <2>5. /\ e.how = "text" => made = [value |-> {"text"}, hidden |-> FALSE]
        /\ e.how = "secret" => made = [value |-> None, hidden |-> TRUE]
    BY DEF Pod!Made, Pod!Var, Pod!NotShown
  <2>6. Pod!SetVar(known, e, world) = [known EXCEPT ![e.name] = made]
    BY <1>2 DEF Pod!SetVar
  <2> HIDE DEF made
  <2> QED
    BY <1>2, <2>2, <2>4, <2>5, <2>6
<1> QED
  BY <1>1, <1>2

LEMMA EnvironmentSays ==
  ASSUME PodInv, NEW n \in {"A", "B"}, Pod!Environment(world)[n] # None
  PROVE  /\ Pod!Environment(world)[n].value # None => "secret" \notin Pod!Environment(world)[n].value
         /\ Pod!Entry(world, n) # None /\ Pod!Entry(world, n).how = "secret" => Pod!Environment(world)[n].hidden
         /\ Pod!Entry(world, n) # None /\ Pod!Entry(world, n).how = "text" => Pod!Environment(world)[n].value = {"text"}
<1> DEFINE w == world
           one == IF Len(w.from) > 0 THEN Pod!FromAll(Pod!Empty, w.from[1], w) ELSE Pod!Empty
           all == IF Len(w.from) > 1 THEN Pod!FromAll(one, w.from[2], w) ELSE one
           before == Pod!SetVar(all, w.first, w)
           known == Pod!SetVar(before, w.second, w)
<1>1. /\ w.first \in {None} \cup Pod!Entries /\ w.second \in {None} \cup Pod!Entries
      /\ w.from \in {<<>>, <<"secret">>, <<"map">>, <<"secret", "map">>, <<"map", "secret">>}
  BY DEF PodInv, Pod!ValuesOf
<1>2. all \in [{"A", "B"} -> PodVars]
  <2>1. ASSUME NEW vars0 \in [{"A", "B"} -> PodVars], NEW source \in {"map", "secret"}
        PROVE  Pod!FromAll(vars0, source, w) \in [{"A", "B"} -> PodVars]
    <3>1. Pod!Var({"map"}, FALSE) \in PodVars /\ Pod!NotShown \in PodVars
      BY DEF Pod!Var, Pod!NotShown, PodVars
    <3> QED
      BY <2>1, <3>1 DEF Pod!FromAll
  <2>2. Pod!Empty \in [{"A", "B"} -> PodVars]
    BY DEF Pod!Empty, PodVars
  <2>3. one \in [{"A", "B"} -> PodVars]
    <3>1. Len(w.from) > 0 => w.from[1] \in {"map", "secret"}
      BY <1>1
    <3> QED
      BY <2>1, <2>2, <3>1
  <2>4. Len(w.from) > 1 => w.from[2] \in {"map", "secret"}
    BY <1>1
  <2> HIDE DEF one
  <2> QED
    BY <2>1, <2>3, <2>4
<1>3. Pod!Environment(w) = known
  BY Zenon DEF Pod!Environment
<1> HIDE DEF all
<1>4. before \in [{"A", "B"} -> PodVars]
  BY <1>1, <1>2, EntrySets
<1> HIDE DEF before
<1>5. known \in [{"A", "B"} -> PodVars]
  BY <1>1, <1>4, EntrySets
<1>6. known[n] # None => known[n].value \in {None} \cup {{s} : s \in {"map", "text", "field", "$(A)"}}
  <2> HIDE DEF known
  <2> QED
    BY <1>5 DEF PodVars
<1>7. known[n] # None /\ known[n].value # None => "secret" \notin known[n].value
  BY <1>6
<1>8. ASSUME NEW e, e = Pod!Entry(w, n), e # None
      PROVE  /\ e.how = "text" => known[n] = [value |-> {"text"}, hidden |-> FALSE]
             /\ e.how = "secret" => known[n] = [value |-> None, hidden |-> TRUE]
  <2>1. \/ w.second # None /\ w.second.name = n /\ e = w.second
        \/ (w.second = None \/ w.second.name # n) /\ w.first # None /\ w.first.name = n /\ e = w.first
    BY <1>8 DEF Pod!Entry
  <2>2. CASE w.second # None /\ w.second.name = n /\ e = w.second
    BY <1>1, <1>4, <2>2, EntrySets
  <2>3. CASE (w.second = None \/ w.second.name # n) /\ w.first # None /\ w.first.name = n /\ e = w.first
    <3>1. /\ e.how = "text" => before[n] = [value |-> {"text"}, hidden |-> FALSE]
          /\ e.how = "secret" => before[n] = [value |-> None, hidden |-> TRUE]
      BY <1>1, <1>2, <2>3, EntrySets DEF before
    <3>2. known[n] = before[n]
      BY <1>1, <1>4, <2>3, EntrySets
    <3> QED
      BY <3>1, <3>2
  <2> QED
    BY <2>1, <2>2, <2>3
<1> HIDE DEF known
<1> QED
  BY <1>3, <1>7, <1>8

\* What the pod's page says is so.
LEMMA PodSays ==
  ASSUME PodInv
  PROVE  Pod!SaidIsSo
<1> DEFINE w == world
<1>1. ASSUME NEW p \in {"startup", "liveness", "readiness"}
      PROVE  /\ Pod!Probe(w, p) = "failing" /\ w.state \in {"running", "terminated"} => w.failure.in = "this run"
             /\ p = "readiness" => (Pod!Probe(w, p) = "passing" <=> w.ready)
  <2>1. Pod!Probe(w, p) = "failing" => Pod!FailingNow(w, p)
    BY <1>1 DEF Pod!Probe
  <2>2. w.state \in {"running", "terminated"} => w.state \notin {None, "waiting"}
    BY NoneAssumption
  <2>3. p = "readiness" => (Pod!Probe(w, p) = "passing" <=> w.ready)
    BY DEF Pod!Probe
  <2> QED
    BY <2>1, <2>2, <2>3 DEF Pod!FailingNow
<1>2. ASSUME NEW g, g = Pod!Container(w).golden, g # None, g.confirmed
      PROVE  g.name = w.cloned
  <2>1. g = Pod!Golden(w)
    BY <1>2 DEF Pod!Container
  <2> QED
    BY <1>2, <2>1 DEF Pod!Golden
<1>3. card \in {"under", "over"} => /\ Pod!Page(w).answer.owners = Pod!OwnerChain(w)
                                    /\ Pod!Page(w).answer.volume = Pod!Volume(w)
  BY DEF PodInv, Pod!Page, Pod!Through, Pod!ThePod
<1>4. ASSUME NEW i \in DOMAIN Pod!OwnerChain(w), i < Len(Pod!OwnerChain(w))
      PROVE  Pod!FollowedUp(Pod!OwnerChain(w)[i])
  <2> DEFINE stop == {j \in DOMAIN w.owner : ~Pod!FollowedUp(w.owner[j])}
             first == CHOOSE j \in stop : \A k \in stop : j <= k
  <2> DEFINE kinds == {"ReplicaSet", "Deployment", "Job", "CronJob", "Machine"}
  <2>1. w.owner \in Seq(kinds) /\ Len(w.owner) <= 2
    <3>1. w.owner \in {<<>>, <<"ReplicaSet">>, <<"ReplicaSet", "Deployment">>, <<"Job", "CronJob">>, <<"Machine", "Deployment">>}
      BY DEF PodInv, Pod!ValuesOf
    <3>2. \A a, b \in kinds : /\ <<>> \in Seq(kinds) /\ <<a>> \in Seq(kinds) /\ <<a, b>> \in Seq(kinds)
                            /\ Len(<<>>) <= 2 /\ Len(<<a>>) <= 2 /\ Len(<<a, b>>) <= 2
      OBVIOUS
    <3> QED
      BY <3>1, <3>2
  <2>2. CASE stop = {}
    <3>1. Pod!OwnerChain(w) = w.owner
      BY <2>2 DEF Pod!OwnerChain
    <3> QED
      BY <1>4, <2>2, <3>1
  <2>3. CASE stop # {}
    <3>1. Pod!OwnerChain(w) = SubSeq(w.owner, 1, first)
      BY <2>3 DEF Pod!OwnerChain
    <3>2. \E j \in stop : \A k \in stop : j <= k
      BY <2>1, <2>3
    <3>3. first \in stop /\ \A k \in stop : first <= k
      BY <3>2
    <3> HIDE DEF first
    <3>4. first \in 1..Len(w.owner)
      BY <2>1, <3>3
    <3>5. Len(SubSeq(w.owner, 1, first)) = first /\ \A j \in 1..first : SubSeq(w.owner, 1, first)[j] = w.owner[j]
      BY <2>1, <3>4
    <3>6. i \in 1..first /\ i < first
      BY <1>4, <2>1, <3>1, <3>4, <3>5
    <3>7. i \notin stop /\ i \in DOMAIN w.owner
      BY <2>1, <3>3, <3>4, <3>6
    <3> QED
      BY <3>1, <3>5, <3>6, <3>7
  <2> QED
    BY <2>2, <2>3
<1>5. ASSUME NEW v, v = Pod!Volume(w), v # None, v.volume
      PROVE  v.found
  <2>1. w.claim \in [found : BOOLEAN, volume : BOOLEAN, mounts : SUBSET {"init", "app", "debug"}]
    BY <1>5 DEF PodInv, Pod!ValuesOf, Pod!Volume, Pod!Flag
  <2>2. v = [found |-> w.claim.found, volume |-> w.claim.found /\ w.claim.volume, mounts |-> w.claim.mounts \ {"debug"}]
    BY <1>5, Zenon DEF Pod!Volume
  <2>3. v.volume = (w.claim.found /\ w.claim.volume) /\ v.found = w.claim.found
    BY <2>2
  <2> QED
    BY <1>5, <2>3, Zenon
<1>6. ASSUME NEW s \in Pod!Services(w), s # None
      PROVE  s.thisPod = "ready" <=> "this ready" \in w.eps
  <2>1. s = Pod!EndpointsSummary(w) /\ w.eps # None
    BY <1>6 DEF Pod!Services, Pod!EndpointsSummary
  <2>2. s.thisPod = CASE "this ready" \in w.eps -> "ready"
                       [] "this ready" \notin w.eps /\ "this not ready" \in w.eps -> "notReady"
                       [] OTHER -> "absent"
    BY <2>1 DEF Pod!EndpointsSummary
  <2> QED
    BY <2>2
<1> QED
  BY EnvironmentSays, <1>1, <1>2, <1>3, <1>4, <1>5, <1>6 DEF Pod!SaidIsSo

\* What the cluster's pages say is so.
LEMMA ClusterSays ==
  ASSUME ClusterInv
  PROVE  Cluster!SaidIsSo
<1> DEFINE w == world
<1>1. ASSUME Cluster!CniCard(w) # None, w.net = "cilium", w.agent \in {"Error", "Warn", "Idle"}
      PROVE  Cluster!Severity(Cluster!CniCard(w)) <= Cluster!Severity(w.agent)
  <2>1. ASSUME NEW u, u.net = "cilium", u.agent = w.agent
        PROVE  Cluster!Severity(Cluster!CniHealth(u)) <= Cluster!Severity(w.agent)
    <3>1. Cluster!AgentSays(u) = w.agent /\ Cluster!AgentSays(u) \notin {None, "Ok", "Unknown"}
      BY <1>1, <2>1, NoneAssumption DEF Cluster!AgentSays
    <3>2. Cluster!ObjectsSay(u) \in {"Idle", "Error", "Warn", "Ok"}
      BY DEF Cluster!ObjectsSay
    <3>3. Cluster!Severity(u.agent) \in Nat /\ Cluster!Severity(Cluster!ObjectsSay(u)) \in Nat
      BY <1>1, <2>1, <3>2 DEF Cluster!Severity
    <3> QED
      BY <2>1, <3>1, <3>3 DEF Cluster!CniHealth
  <2> DEFINE alone == [w EXCEPT !.eps = [ready |-> 0, others |-> {}], !.nodes = 0]
  <2>2. alone.net = "cilium" /\ alone.agent = w.agent
    BY <1>1 DEF ClusterInv
  <2> HIDE DEF alone
  <2>3. \A u \in {alone, w} : Cluster!Severity(Cluster!CniHealth(u)) <= Cluster!Severity(w.agent)
    BY <1>1, <2>1, <2>2
  <2> QED
    BY <1>1, <2>3 DEF Cluster!CniCard, alone
<1>2. ASSUME w.pod # None, w.cid = w.pod.labels, Cluster!EndpointSeen(w), w.ep.id,
             w.policy # None, ~w.policy.many, ~w.hidden
      PROVE  Cluster!RowPolicies(w) = 1 <=> Cluster!PolicyRow(w).appliesTo = {"pod"}
  <2> DEFINE chosen == w.policy.scope # "another" /\ Cluster!Selects(w.policy, w.pod.labels)
  <2>1. w.pod.labels \in {{"app"}, {"other"}}
    BY <1>2 DEF ClusterInv, Cluster!ValuesOf
  <2>2. w.cid # None
    BY <1>2, <2>1, NoneAssumption
  <2>3. Cluster!RowPolicies(w) = 1 <=> chosen
    BY <1>2, <2>2 DEF Cluster!RowPolicies
  <2>4. Cluster!PolicyRow(w).appliesTo = IF chosen THEN {"pod"} ELSE {}
    BY <1>2 DEF Cluster!PolicyRow
  <2> QED
    BY <2>3, <2>4
<1>3. Cluster!Import(w).failed <=>
        (~w.client \/ w.docs = <<>> \/ \E i \in DOMAIN Cluster!Import(w).lines : Cluster!Import(w).lines[i] # "created")
  <2>1. CASE ~w.client \/ w.docs = <<>>
    <3>1. Cluster!Import(w) = [refused |-> TRUE, lines |-> <<>>, failed |-> TRUE]
      BY <2>1 DEF Cluster!Import
    <3> QED
      BY <2>1, <3>1
  <2>2. CASE ~(~w.client \/ w.docs = <<>>)
    <3> DEFINE lines == [i \in DOMAIN w.docs |-> Cluster!DocResult(w.docs[i], w)]
               failed == \E i \in DOMAIN lines : lines[i] # "created"
    <3>1. Cluster!Import(w) = [refused |-> FALSE, lines |-> lines, failed |-> failed]
      BY <2>2, Zenon DEF Cluster!Import
    <3> HIDE DEF lines
    <3>2. Cluster!Import(w).lines = lines /\ Cluster!Import(w).failed = failed
      BY <3>1
    <3> QED
      BY <2>2, <3>2, Zenon
  <2> QED
    BY <2>1, <2>2
<1> QED
  BY <1>1, <1>2, <1>3 DEF Cluster!SaidIsSo

-----------------------------------------------------------------------------
(* What is said of the machines. *)

\* A port is read or refused; a machine is listed or it is not, and a name is heard; and a
\* port that is remembered to be plain was asked where TLS is not required.
FleetInv ==
  /\ DOMAIN world = DOMAIN Fleet!Quiet
  /\ card = "daemon" => ~(world.refused /\ world.service # None)
  /\ card = "names" => DOMAIN world.members = {"k", "m"} /\ DOMAIN world.lines = {"here", "m", "old"}
  /\ card = "dial" =>
       /\ world.dial \in Fleet!Dials /\ world.memory \in {None} \cup BOOLEAN
       /\ world.dial.files = "read" /\ world.dial.require /\ world.memory # None => world.memory

LEMMA FleetInit == Fleet!Init => FleetInv
<1> SUFFICES ASSUME Fleet!Init PROVE FleetInv
  OBVIOUS
<1>1. /\ Fleet!Quiet.refused = FALSE /\ Fleet!Quiet.memory = None
      /\ DOMAIN Fleet!Quiet.members = {"k", "m"} /\ DOMAIN Fleet!Quiet.lines = {"here", "m", "old"}
      /\ {"dial", "refused", "memory"} \subseteq DOMAIN Fleet!Quiet
  BY DEF Fleet!Quiet
<1>2. CASE card # "dial"
  BY <1>1, <1>2 DEF Fleet!Init, FleetInv
<1>3. CASE card = "dial"
  <2>1. PICK d \in Fleet!Dials : world = [Fleet!Quiet EXCEPT !.dial = d]
    BY <1>3 DEF Fleet!Init
  <2>2. DOMAIN world = DOMAIN Fleet!Quiet /\ world.dial = d /\ world.memory = None
    BY <1>1, <2>1
  <2> QED
    BY <1>3, <2>2 DEF FleetInv
<1> QED
  BY <1>2, <1>3

\* What asking a port comes to.
LEMMA RouteSays ==
  ASSUME NEW w, w.dial \in Fleet!Dials, w.memory \in {None} \cup BOOLEAN,
         w.dial.files = "read" /\ w.dial.require /\ w.memory # None => w.memory
  PROVE  LET r == Fleet!Route(w) IN
         /\ r.memory \in {None} \cup BOOLEAN
         /\ w.dial.files = "read" /\ w.dial.require /\ r.memory # None => r.memory
         /\ w.dial.files = "read" /\ w.dial.require /\ r.to = "plain" => Fleet!AskedSecurely(w.serves) = "down"
         /\ w.dial.files = "read" /\ w.serves = "untrusted" /\ r.to # "refused" => w.memory # None
<1> DEFINE tls == Fleet!AskedSecurely(w.serves)
           r == Fleet!Route(w)
<1>1. w.dial.files \in {"none", "unreadable", "read"} /\ w.dial.require \in BOOLEAN /\ w.dial.https \in BOOLEAN
  BY DEF Fleet!Dials, Fleet!Flag
<1>2. tls \in {"answered", "untrusted", "down", "other"} /\ (w.serves = "untrusted" => tls = "untrusted")
  BY DEF Fleet!AskedSecurely
<1>3. CASE w.dial.files # "read"
  BY <1>1, <1>3 DEF Fleet!Route
<1>4. CASE w.dial.files = "read" /\ w.memory # None
  <2>1. r = [to |-> IF w.memory THEN "secure" ELSE Fleet!AsGiven(w), memory |-> w.memory]
    BY <1>4 DEF Fleet!Route
  <2>2. r.to = (IF w.memory THEN "secure" ELSE Fleet!AsGiven(w)) /\ r.memory = w.memory
    BY <2>1
  <2> QED
    BY <1>4, <2>2
<1>5. CASE w.dial.files = "read" /\ w.memory = None
  <2> DEFINE given(to, memory) == [to |-> to, memory |-> memory]
  <2>1. \/ tls = "answered" /\ r = given("secure", TRUE)
        \/ tls = "down" /\ r = given(Fleet!AsGiven(w), None)
        \/ tls = "untrusted" /\ r = given("refused", None)
        \/ tls = "other" /\ (w.dial.require \/ w.serves # "plain") /\ r = given("refused", None)
        \/ tls = "other" /\ ~(w.dial.require \/ w.serves # "plain") /\ r = given(Fleet!AsGiven(w), FALSE)
    BY <1>2, <1>5 DEF Fleet!Route
  <2>2. \A to, memory : r = given(to, memory) => r.to = to /\ r.memory = memory
    <3> HIDE DEF r
    <3> QED
      OBVIOUS
  <2> HIDE DEF given, r, tls
  <2>3. \/ tls = "answered" /\ r.to = "secure" /\ r.memory = TRUE
        \/ tls = "down" /\ r.memory = None
        \/ tls = "untrusted" /\ r.to = "refused" /\ r.memory = None
        \/ tls = "other" /\ (w.dial.require \/ w.serves # "plain") /\ r.to = "refused" /\ r.memory = None
        \/ tls = "other" /\ ~w.dial.require /\ r.memory = FALSE
    BY <2>1, <2>2, ZenonT(60)
  <2>4. /\ r.memory \in {None} \cup BOOLEAN
        /\ w.dial.require /\ r.memory # None => r.memory
        /\ w.dial.require /\ r.to = "plain" => tls = "down"
        /\ tls = "untrusted" => r.to = "refused"
    <3>1. CASE tls = "answered" /\ r.to = "secure" /\ r.memory = TRUE
      BY <3>1
    <3>2. CASE tls = "down" /\ r.memory = None
      BY <3>2
    <3>3. CASE r.to = "refused" /\ r.memory = None
      BY <3>3
    <3>4. CASE tls = "other" /\ ~w.dial.require /\ r.memory = FALSE
      BY <3>4
    <3> QED
      BY <2>3, <3>1, <3>2, <3>3, <3>4
  <2> QED
    BY <1>2, <1>5, <2>4 DEF r, tls
<1> QED
  BY <1>3, <1>4, <1>5

LEMMA FleetStep == FleetInv /\ Fleet!Next => FleetInv'
<1> SUFFICES ASSUME FleetInv, Fleet!Next PROVE FleetInv'
  OBVIOUS
<1>0. {"refused", "service", "members", "lines", "dial", "memory", "verified"} \subseteq DOMAIN world
  BY DEF FleetInv, Fleet!Quiet
<1>1. ASSUME NEW p \in DOMAIN world, Fleet!Event(p) PROVE FleetInv'
  <2>1. PICK v \in Fleet!ValuesOf(p) : world' = [world EXCEPT ![p] = v]
    BY <1>1 DEF Fleet!Event
  <2>2. /\ card' = card
        /\ card = "daemon" => p \notin {"refused", "service"}
        /\ card = "dial" => p \notin {"dial", "memory"}
    BY <1>1 DEF Fleet!Event, Fleet!Varies
  <2>3. \A q \in DOMAIN world : world'[q] = IF q = p THEN v ELSE world[q]
    BY <2>1
  <2>4. /\ DOMAIN world' = DOMAIN world
        /\ p \notin {"refused", "service"} => world'.refused = world.refused /\ world'.service = world.service
        /\ p \notin {"dial", "memory"} => world'.dial = world.dial /\ world'.memory = world.memory
        /\ world'.members = IF p = "members" THEN v ELSE world.members
        /\ world'.lines = IF p = "lines" THEN v ELSE world.lines
    BY <1>0, <2>1, <2>3
  <2>5. /\ p = "members" => DOMAIN v = {"k", "m"}
        /\ p = "lines" => DOMAIN v = {"here", "m", "old"}
    BY <2>1 DEF Fleet!ValuesOf
  <2> QED
    BY <2>2, <2>4, <2>5 DEF FleetInv
<1>2. ASSUME Fleet!PollVerification PROVE FleetInv'
  <2>1. card = "row" /\ card' = card /\ \E v : world' = [world EXCEPT !.verified = v]
    BY <1>2 DEF Fleet!PollVerification
  <2>2. DOMAIN world' = DOMAIN world
    BY <2>1
  <2> QED
    BY <2>1, <2>2 DEF FleetInv
<1>3. ASSUME Fleet!Discover PROVE FleetInv'
  <2>1. card = "daemon" /\ card' = card /\ world.service = None
    BY <1>3 DEF Fleet!Discover
  <2>2. \/ world' = [world EXCEPT !.refused = TRUE]
        \/ \E s : world' = [world EXCEPT !.refused = FALSE, !.service = s]
    BY <1>3 DEF Fleet!Discover
  <2>3. DOMAIN world' = DOMAIN world /\ (world'.refused = FALSE \/ world'.service = None)
    BY <1>0, <2>1, <2>2
  <2> QED
    BY <2>1, <2>3 DEF FleetInv
<1>4. ASSUME Fleet!Ask \/ Fleet!Forget PROVE FleetInv'
  <2>1. card = "dial" /\ card' = card
    BY <1>4 DEF Fleet!Ask, Fleet!Forget
  <2>2. PICK m \in {None, Fleet!Route(world).memory} : world' = [world EXCEPT !.memory = m]
    BY <1>4 DEF Fleet!Ask, Fleet!Forget
  <2>3. DOMAIN world' = DOMAIN world /\ world'.dial = world.dial /\ world'.memory = m
    BY <1>0, <2>2
  <2>4. /\ m \in {None} \cup BOOLEAN
        /\ world.dial.files = "read" /\ world.dial.require /\ m # None => m
    BY <2>1, <2>2, RouteSays DEF FleetInv
  <2> QED
    BY <2>1, <2>3, <2>4 DEF FleetInv
<1> QED
  BY <1>1, <1>2, <1>3, <1>4 DEF Fleet!Next

\* The worst of what is told is as bad as any of it.
LEMMA WorstIsWorst ==
  ASSUME NEW hs, NEW none, NEW x \in hs
  PROVE  Fleet!Rank(Fleet!Worst(hs, none)) <= Fleet!Rank(x)
<1>1. \A h : Fleet!Rank(h) \in 0..4
  BY DEF Fleet!Rank
<1> DEFINE at(r) == \E h \in hs : Fleet!Rank(h) = r
<1>2. \E h \in hs : \A y \in hs : Fleet!Rank(h) <= Fleet!Rank(y)
  <2>1. at(0) \/ at(1) \/ at(2) \/ at(3) \/ at(4)
    BY <1>1
  <2>2. \E r \in 0..4 : at(r) /\ \A q \in 0..4 : q < r => ~at(q)
    BY <2>1
  <2> QED
    BY <1>1, <2>2
<1>3. Fleet!Worst(hs, none) = CHOOSE h \in hs : \A y \in hs : Fleet!Rank(h) <= Fleet!Rank(y)
  BY DEF Fleet!Worst
<1> QED
  BY <1>2, <1>3

\* A name is of the node that has its address, and a node is of its own name.
LEMMA NamesMean ==
  ASSUME FleetInv, card = "names"
  PROVE  /\ \A n : Fleet!NodeOf(n, world) # None => Fleet!NodeOf(n, world) \in Fleet!Nodes(world)
         /\ \A v \in Fleet!Nodes(world) : Fleet!NodeOf(v, world) = v
         /\ \A n \in Fleet!Heards(world) : world.lines[n] # "" =>
              IF Fleet!NodesAt(world.lines[n], world) = {} THEN Fleet!NodeOf(n, world) = None
              ELSE Fleet!NodeOf(n, world) \in Fleet!NodesAt(world.lines[n], world)
<1> DEFINE w == world
           Own == Fleet!Own(w)
<1>1. /\ Fleet!Members(w) \subseteq {"k", "m"}
      /\ DOMAIN w.lines = {"here", "m", "old"} /\ Fleet!Here = "here"
  BY DEF FleetInv, Fleet!Members, Fleet!Here
<1>2. /\ DOMAIN Own = Fleet!Members(w) \cup {"here"} /\ Own["here"] = "here"
      /\ \A m \in Fleet!Members(w) : Own[m] = Fleet!NameOf(m, w) /\ Own[m] \in {"here", m}
  BY <1>1 DEF Fleet!Own, Fleet!NameOf
<1>3. /\ \A n \in DOMAIN Own : Own[n] \in Fleet!Nodes(w)
      /\ Fleet!Nodes(w) = {Fleet!NameOf(m, w) : m \in Fleet!Members(w)} \cup {"here"}
  BY <1>1, <1>2 DEF Fleet!Nodes
<1> HIDE DEF Own
<1>4. ASSUME NEW x, x # ""
      PROVE  /\ Fleet!HolderOf(x, w) # None => Fleet!HolderOf(x, w) \in Fleet!Nodes(w)
             /\ IF Fleet!NodesAt(x, w) = {} THEN Fleet!HolderOf(x, w) = None
                ELSE Fleet!HolderOf(x, w) \in Fleet!NodesAt(x, w)
  <2> DEFINE listed == {m \in Fleet!Members(w) : x \in w.members[m]}
             heardAt == {n \in Fleet!Heards(w) \cap DOMAIN Own : w.lines[n] = x}
  <2>1. Fleet!NodesAt(x, w) = {Fleet!NameOf(m, w) : m \in listed} \cup {Own[n] : n \in heardAt}
    BY DEF Fleet!NodesAt, Own
  <2>2. CASE Fleet!HeardFrom(Fleet!Here, w) = x
    <3>1. Fleet!HolderOf(x, w) = "here"
      BY <1>1, <1>4, <2>2 DEF Fleet!HolderOf
    <3>2. "here" \in Fleet!Heards(w) /\ w.lines["here"] = x
      BY <1>1, <1>4, <2>2 DEF Fleet!HeardFrom
    <3>3. "here" \in heardAt
      BY <1>2, <3>2
    <3> QED
      BY <1>2, <1>3, <2>1, <3>1, <3>3
  <2>3. CASE Fleet!HeardFrom(Fleet!Here, w) # x /\ listed # {}
    <3> DEFINE holder == IF "m" \in listed THEN "m" ELSE "k"
    <3>1. Fleet!HolderOf(x, w) = Fleet!NameOf(holder, w)
      BY <1>4, <2>3 DEF Fleet!HolderOf
    <3>2. holder \in listed
      BY <1>1, <2>3
    <3> HIDE DEF holder
    <3> QED
      BY <1>2, <1>3, <2>1, <3>1, <3>2
  <2>4. CASE Fleet!HeardFrom(Fleet!Here, w) # x /\ listed = {} /\ heardAt # {}
    <3>1. Fleet!HolderOf(x, w) = Own[CHOOSE n \in heardAt : TRUE]
      BY <1>4, <2>4 DEF Fleet!HolderOf, Own
    <3>2. (CHOOSE n \in heardAt : TRUE) \in heardAt
      BY <2>4
    <3> QED
      BY <1>3, <2>1, <3>1, <3>2
  <2>5. CASE Fleet!HeardFrom(Fleet!Here, w) # x /\ listed = {} /\ heardAt = {}
    <3>1. Fleet!HolderOf(x, w) = None
      BY <1>4, <2>5 DEF Fleet!HolderOf, Own
    <3> QED
      BY <2>1, <2>5, <3>1
  <2> QED
    BY <2>2, <2>3, <2>4, <2>5
<1>5. ASSUME NEW n
      PROVE  Fleet!NodeOf(n, w) # None => Fleet!NodeOf(n, w) \in Fleet!Nodes(w)
  <2>1. Fleet!HolderOf("", w) = None
    BY DEF Fleet!HolderOf
  <2> QED
    BY <1>3, <1>4, <2>1 DEF Fleet!NodeOf, Own
<1>6. ASSUME NEW v \in Fleet!Nodes(w)
      PROVE  Fleet!NodeOf(v, w) = v
  <2>1. CASE v = "here"
    BY <1>2, <2>1 DEF Fleet!NodeOf, Own
  <2>2. CASE v # "here"
    <3>1. PICK m \in Fleet!Members(w) : v = Fleet!NameOf(m, w)
      BY <1>3, <2>2
    <3>2. v = m /\ Own[m] = v
      BY <1>2, <2>2, <3>1
    <3> QED
      BY <1>2, <3>2 DEF Fleet!NodeOf, Own
  <2> QED
    BY <2>1, <2>2
<1>7. ASSUME NEW n \in Fleet!Heards(w), w.lines[n] # ""
      PROVE  IF Fleet!NodesAt(w.lines[n], w) = {} THEN Fleet!NodeOf(n, w) = None
             ELSE Fleet!NodeOf(n, w) \in Fleet!NodesAt(w.lines[n], w)
  <2>1. CASE n \in DOMAIN Own
    <3>1. Fleet!NodeOf(n, w) = Own[n]
      BY <2>1 DEF Fleet!NodeOf, Own
    <3>2. Own[n] \in Fleet!NodesAt(w.lines[n], w)
      BY <1>7, <2>1 DEF Fleet!NodesAt, Own
    <3> QED
      BY <3>1, <3>2
  <2>2. CASE n \notin DOMAIN Own
    <3>1. Fleet!NodeOf(n, w) = Fleet!HolderOf(w.lines[n], w)
      BY <1>7, <2>2 DEF Fleet!NodeOf, Own
    <3> QED
      BY <1>4, <1>7, <3>1
  <2> QED
    BY <2>1, <2>2
<1> QED
  BY <1>5, <1>6, <1>7

\* What the fleet's pages say is so.
LEMMA FleetSays ==
  ASSUME FleetInv
  PROVE  Fleet!SaidIsSo
<1> DEFINE w == world
<1>1. \A h \in Fleet!Told(w) : Fleet!Rank(Fleet!RowHealth(w)) <= Fleet!Rank(h)
  BY WorstIsWorst DEF Fleet!RowHealth
<1>2. card = "daemon" => /\ ~(w.refused /\ w.service # None)
                         /\ w.refused => Fleet!Rank(Fleet!FleetHealth(w)) <= Fleet!Rank("Warn")
  <2>1. w.refused /\ w.service = None => Fleet!FleetHealth(w) = "Warn"
    BY DEF Fleet!FleetHealth
  <2>2. Fleet!Rank("Warn") <= Fleet!Rank("Warn")
    BY DEF Fleet!Rank
  <2> QED
    BY <2>1, <2>2 DEF FleetInv
<1>3. ASSUME card = "names"
      PROVE  /\ \A line \in Fleet!Heards(w) :
                  Fleet!NodeOf(line, w) # None <=>
                    \E r \in Fleet!RowNames(w) : line \in Fleet!RowOf(r, w).lines /\ Fleet!Admits(line, r, w)
             /\ \A line \in Fleet!Heards(w) : \A host \in DOMAIN w.lines \cup {"k", None} :
                  Fleet!Admits(line, host, w) <=> Fleet!Streams(line, host, w)
             /\ Fleet!RowNames(w) \subseteq Fleet!Nodes(w)
             /\ \A n, m \in Fleet!Nodes(w) : n # m => Fleet!BeaconOf(n, w) \cap Fleet!BeaconOf(m, w) = {}
  <2>1. \A r : Fleet!RowOf(r, w).lines = Fleet!NamesOf(r, w)
    BY DEF Fleet!RowOf
  <2>2. ASSUME NEW line \in Fleet!Heards(w), Fleet!NodeOf(line, w) # None
        PROVE  \E r \in Fleet!RowNames(w) : line \in Fleet!RowOf(r, w).lines /\ Fleet!Admits(line, r, w)
    <3> DEFINE r == Fleet!NodeOf(line, w)
    <3>1. r \in Fleet!RowNames(w) /\ line \in Fleet!NamesOf(r, w)
      BY <2>2 DEF Fleet!RowNames, Fleet!NamesOf
    <3>2. Fleet!NodeOf(r, w) = r
      BY <1>3, <2>2, NamesMean
    <3> QED
      BY <2>1, <2>2, <3>1, <3>2 DEF Fleet!Admits
  <2>3. \A line, host : Fleet!Admits(line, host, w) <=> Fleet!Streams(line, host, w)
    BY DEF Fleet!Admits, Fleet!Streams
  <2>4. Fleet!RowNames(w) \subseteq Fleet!Nodes(w)
    BY <1>3, NamesMean DEF Fleet!RowNames, Fleet!Nodes
  <2>5. \A n : Fleet!BeaconOf(n, w) \subseteq Fleet!NamesOf(n, w)
    BY DEF Fleet!BeaconOf
  <2>6. \A n, m : n # m => Fleet!NamesOf(n, w) \cap Fleet!NamesOf(m, w) = {}
    BY DEF Fleet!NamesOf
  <2> QED
    BY <2>2, <2>3, <2>4, <2>5, <2>6 DEF Fleet!Admits
<1>4. ASSUME card = "dial"
      PROVE  /\ w.dial.files = "read" /\ w.dial.require /\ Fleet!Route(w).to = "plain" =>
                  Fleet!AskedSecurely(w.serves) = "down"
             /\ w.dial.files = "read" /\ w.serves = "untrusted" /\ Fleet!Route(w).to # "refused" => w.memory # None
             /\ Fleet!Reach(w).bearer => Fleet!Reach(w).to = "secure" \/ w.dial.loopback
  <2>1. Fleet!Reach(w).bearer => Fleet!MayCarry(Fleet!Reach(w).to, w)
    <3> DEFINE to == Fleet!Route(w).to
    <3>1. CASE to = "refused"
      BY <3>1 DEF Fleet!Reach
    <3>2. CASE to # "refused"
      <4>1. Fleet!Reach(w) = [to |-> to, bearer |-> w.word /\ Fleet!MayCarry(to, w), withheld |-> w.word /\ ~Fleet!MayCarry(to, w)]
        BY <3>2, Zenon DEF Fleet!Reach
      <4>2. Fleet!Reach(w).to = to /\ Fleet!Reach(w).bearer = (w.word /\ Fleet!MayCarry(to, w))
        BY <4>1
      <4> QED
        BY <4>2, Zenon
    <3> QED
      BY <3>1, <3>2
  <2> QED
    BY <1>4, <2>1, RouteSays DEF FleetInv, Fleet!MayCarry
<1> QED
  BY <1>1, <1>2, <1>3, <1>4, NamesMean DEF Fleet!SaidIsSo

-----------------------------------------------------------------------------
(* What is kept of a pod. *)

\* The last `most` of a sequence with one more: it is moved up, and ends with the new one.
LastOf(seq, x, most) ==
  LET all == Append(seq, x) IN SubSeq(all, IF Len(all) > most THEN Len(all) - most + 1 ELSE 1, Len(all))

Gone(seq, most) == IF Len(seq) + 1 > most THEN Len(seq) + 1 - most ELSE 0

LEMMA LastAreKept ==
  ASSUME NEW S, NEW seq \in Seq(S), NEW x \in S, NEW most \in Nat \ {0}
  PROVE  /\ LastOf(seq, x, most) \in Seq(S)
         /\ Gone(seq, most) \in Nat /\ Gone(seq, most) <= Len(seq)
         /\ Len(LastOf(seq, x, most)) = Len(seq) + 1 - Gone(seq, most)
         /\ \A i \in 1..Len(LastOf(seq, x, most)) :
              LastOf(seq, x, most)[i] = IF i + Gone(seq, most) <= Len(seq) THEN seq[i + Gone(seq, most)] ELSE x
         /\ Gone(seq, most) > 0 => Gone(seq, most) = Len(seq) + 1 - most
         /\ Len(LastOf(seq, x, most)) <= most
<1> DEFINE all == Append(seq, x)
           n == Len(seq)
           gone == Gone(seq, most)
<1>1. /\ all \in Seq(S) /\ Len(all) = n + 1 /\ n \in Nat
      /\ \A i \in 1..n + 1 : all[i] = IF i <= n THEN seq[i] ELSE x
  OBVIOUS
<1> HIDE DEF all
<1>2. gone \in Nat /\ gone <= n
  BY <1>1 DEF Gone
<1>3. LastOf(seq, x, most) = SubSeq(all, gone + 1, n + 1)
  <2>1. (IF Len(all) > most THEN Len(all) - most + 1 ELSE 1) = gone + 1
    BY <1>1 DEF Gone
  <2> QED
    BY <1>1, <2>1 DEF LastOf, all
<1>4. /\ SubSeq(all, gone + 1, n + 1) \in Seq(S) /\ Len(SubSeq(all, gone + 1, n + 1)) = n + 1 - gone
      /\ \A i \in 1..(n + 1 - gone) : SubSeq(all, gone + 1, n + 1)[i] = all[i + gone]
  <2> HIDE DEF gone
  <2>1. gone + 1 \in 1..n + 1 /\ n + 1 \in 1..Len(all)
    BY <1>1, <1>2
  <2>2. /\ SubSeq(all, gone + 1, n + 1) \in Seq(S)
        /\ Len(SubSeq(all, gone + 1, n + 1)) = IF gone + 1 <= n + 1 THEN (n + 1) - (gone + 1) + 1 ELSE 0
        /\ \A i \in 1..(n + 1) - (gone + 1) + 1 : SubSeq(all, gone + 1, n + 1)[i] = all[gone + 1 + i - 1]
    BY <1>1, <1>2, <2>1
  <2>3. (n + 1) - (gone + 1) + 1 = n + 1 - gone /\ \A i \in Nat : gone + 1 + i - 1 = i + gone
    BY <1>1, <1>2
  <2> QED
    BY <1>1, <1>2, <2>2, <2>3
<1>5. \A i \in 1..(n + 1 - gone) : i + gone \in 1..n + 1
  BY <1>1, <1>2
<1>6. (gone > 0 => gone = n + 1 - most) /\ n + 1 - gone <= most
  BY <1>1 DEF Gone
<1> HIDE DEF gone
<1>7. \A i \in 1..(n + 1 - gone) : LastOf(seq, x, most)[i] = IF i + gone <= n THEN seq[i + gone] ELSE x
  BY <1>1, <1>3, <1>4, <1>5
<1>8. Gone(seq, most) = gone /\ Len(LastOf(seq, x, most)) = n + 1 - gone
  BY <1>3, <1>4 DEF gone
<1> QED
  BY <1>1, <1>2, <1>3, <1>4, <1>6, <1>7, <1>8

\* A run, of the pod it is said to be of or of one that was put back under its name later.
KeptRun == [run : Nat, missed : Nat, of : Nat, text : Int]

\* The runs of one track: each later than the one before it by more than was missed, and
\* earlier than what the track has counted.
RunsInOrder(t) ==
  /\ t.runs \in Seq(KeptRun) /\ t.last \in Nat
  /\ \A i, j \in 1..Len(t.runs) : i < j => t.runs[i].run < t.runs[j].run
  /\ \A i \in 2..Len(t.runs) : t.runs[i].run - t.runs[i - 1].run - 1 >= t.runs[i].missed
  /\ \A i \in 1..Len(t.runs) : t.runs[i].run < t.last

LEMMA RunIsKept ==
  ASSUME NEW t, RunsInOrder(t), NEW i \in 1..Len(t.runs)
  PROVE  /\ t.runs[i].run \in Nat /\ t.runs[i].missed \in Nat
         /\ t.runs[i].of \in Nat /\ t.runs[i].text \in Int
<1>1. t.runs \in Seq(KeptRun)
  BY DEF RunsInOrder
<1>2. t.runs[i] \in KeptRun
  BY <1>1
<1> QED
  BY <1>2 DEF KeptRun

\* A track is of a pod that was, and its runs of it or of a later one.
TrackOf(u, t, pod) ==
  /\ DOMAIN t = {"last", "runs"} /\ RunsInOrder(t)
  /\ u <= pod.uid /\ (u = pod.uid => t.last <= pod.rc)
  /\ \A i \in 1..Len(t.runs) :
       /\ u <= t.runs[i].of /\ t.runs[i].of <= pod.uid
       /\ t.runs[i].of = u => t.runs[i].text >= t.runs[i].run

\* What is fetched for is a count the track has, of which its runs know nothing yet.
JobOf(job, t) ==
  /\ DOMAIN t = {"last", "runs"}
  /\ job.rc <= t.last
  /\ \A i \in 1..Len(t.runs) : t.runs[i].run + 1 + job.missed <= job.rc - 1

Was(h, pod) == h.uid <= pod.uid /\ (h.uid = pod.uid => h.rc <= pod.rc)

Pods == 1..Record!MaxPods

RunsTrue(w) ==
  /\ DOMAIN w = {"pod", "held", "tracks", "job"}
  /\ w.pod \in [uid : Pods, rc : Nat]
  /\ w.held # None => w.held \in [uid : Pods, rc : Nat] /\ Was(w.held, w.pod)
  /\ DOMAIN w.tracks = Pods
  /\ \A u \in Pods : w.tracks[u] # None => TrackOf(u, w.tracks[u], w.pod)
  /\ w.job # None => /\ w.job \in [uid : Pods, rc : Nat \ {0}, missed : Nat] /\ Was(w.job, w.pod)
                     /\ TrackOf(w.job.uid, w.tracks[w.job.uid], w.pod)
                     /\ JobOf(w.job, w.tracks[w.job.uid])

RunsInv == card = "runs" => RunsTrue(world)

\* A pod that has restarted, or was put back, has the tracks it had.
LEMMA RunsLater ==
  ASSUME NEW w, NEW v, RunsTrue(w), v \in [uid : Pods, rc : Nat], Was(w.pod, v)
  PROVE  RunsTrue([w EXCEPT !.pod = v])
<1> DEFINE next == [w EXCEPT !.pod = v]
<1>1. /\ DOMAIN next = DOMAIN w /\ next.pod = v /\ next.held = w.held
      /\ next.tracks = w.tracks /\ next.job = w.job
  BY DEF RunsTrue
<1>2. w.pod \in [uid : Pods, rc : Nat]
  BY DEF RunsTrue
<1>3. w.held # None => Was(w.held, v)
  BY <1>2 DEF RunsTrue, Was, Pods, Record!MaxPods
<1>4. w.job # None => Was(w.job, v)
  BY <1>2 DEF RunsTrue, Was, Pods, Record!MaxPods
<1>5. ASSUME NEW u \in Pods, NEW t, TrackOf(u, t, w.pod)
      PROVE  TrackOf(u, t, v)
  <2>1. u \in Nat /\ w.pod.uid \in Nat /\ w.pod.rc \in Nat /\ v.uid \in Nat /\ v.rc \in Nat /\ t.last \in Nat
    BY <1>2, <1>5 DEF Pods, Record!MaxPods, TrackOf, RunsInOrder
  <2>2. \A i \in 1..Len(t.runs) : t.runs[i].of \in Nat
    BY <1>5, RunIsKept DEF TrackOf
  <2>3. \A i \in 1..Len(t.runs) : t.runs[i].of <= v.uid
    BY <1>5, <2>1, <2>2 DEF TrackOf, Was
  <2>4. u <= v.uid /\ (u = v.uid => t.last <= v.rc)
    BY <1>5, <2>1 DEF TrackOf, Was
  <2> QED
    BY <1>5, <2>3, <2>4 DEF TrackOf
<1> HIDE DEF next
<1> QED
  BY <1>1, <1>3, <1>4, <1>5 DEF RunsTrue

LEMMA RunsObserved ==
  ASSUME NEW w, NEW h \in {w.pod, None}, RunsTrue(w)
  PROVE  RunsTrue([w EXCEPT !.held = h])
<1> DEFINE next == [w EXCEPT !.held = h]
<1>1. /\ DOMAIN next = DOMAIN w /\ next.pod = w.pod /\ next.held = h
      /\ next.tracks = w.tracks /\ next.job = w.job
  BY DEF RunsTrue
<1>2. w.pod \in [uid : Pods, rc : Nat] /\ Was(w.pod, w.pod)
  BY DEF RunsTrue, Was, Pods, Record!MaxPods
<1> HIDE DEF next
<1> QED
  BY <1>1, <1>2 DEF RunsTrue

\* Who is gone takes its record with it, and a count that moved is fetched for.
LEMMA RunsDue ==
  ASSUME NEW w, RunsTrue(w), w.job = None
  PROVE  RunsTrue(Record!Due(w))
<1> DEFINE live == IF w.held = None THEN {} ELSE {w.held.uid}
           kept == [u \in DOMAIN w.tracks |-> IF u \in live THEN w.tracks[u] ELSE None]
<1>1. /\ DOMAIN w = {"pod", "held", "tracks", "job"} /\ DOMAIN w.tracks = Pods /\ DOMAIN kept = Pods
      /\ \A u \in Pods : kept[u] = None \/ kept[u] = w.tracks[u]
  BY DEF RunsTrue
<1>2. CASE w.held = None
  <2>1. Record!Due(w) = [w EXCEPT !.tracks = kept]
    BY <1>2 DEF Record!Due
  <2> HIDE DEF kept
  <2>2. /\ DOMAIN Record!Due(w) = DOMAIN w /\ Record!Due(w).pod = w.pod /\ Record!Due(w).held = w.held
        /\ Record!Due(w).tracks = kept /\ Record!Due(w).job = None
    BY <1>1, <2>1
  <2> QED
    BY <1>1, <2>2 DEF RunsTrue
<1>3. CASE w.held # None
  <2> DEFINE u == w.held.uid
             rc == w.held.rc
             t == kept[u]
             job(missed) == [uid |-> u, rc |-> rc, missed |-> missed]
             track == IF t = None THEN [last |-> rc, runs |-> <<>>] ELSE [t EXCEPT !.last = IF rc > t.last THEN rc ELSE t.last]
             due == CASE t = None                -> IF rc > 0 THEN job(0) ELSE None
                      [] t # None /\ rc > t.last -> job(Record!Missed(t, rc))
                      [] OTHER                   -> None
  <2>1. Record!Due(w) = [w EXCEPT !.tracks = [kept EXCEPT ![u] = track], !.job = due]
    BY <1>3, Zenon DEF Record!Due
  <2>2. /\ w.held \in [uid : Pods, rc : Nat] /\ Was(w.held, w.pod)
        /\ u \in Pods /\ rc \in Nat /\ u \in Nat /\ w.pod.uid \in Nat /\ w.pod.rc \in Nat
    BY <1>3 DEF RunsTrue, Pods, Record!MaxPods
  <2>3. t # None => TrackOf(u, t, w.pod)
    BY <1>1, <2>2 DEF RunsTrue
  <2> HIDE DEF t, kept
  <2>4. TrackOf(u, track, w.pod) /\ (due # None => due \in [uid : Pods, rc : Nat \ {0}, missed : Nat] /\ due.uid = u
                                                   /\ due.rc = rc /\ JobOf(due, track))
    <3>1. CASE t = None
      <4> DEFINE new == [last |-> rc, runs |-> <<>>]
      <4>1. track = new /\ due = (IF rc > 0 THEN job(0) ELSE None)
        BY <3>1
      <4>2. DOMAIN new = {"last", "runs"} /\ new.last = rc /\ new.runs = <<>>
        OBVIOUS
      <4>3. Len(<<>>) = 0 /\ <<>> \in Seq(KeptRun)
        OBVIOUS
      <4> HIDE DEF new, track, due
      <4>4. TrackOf(u, track, w.pod)
        BY <2>2, <4>1, <4>2, <4>3 DEF TrackOf, RunsInOrder, Was
      <4>5. ASSUME due # None
            PROVE  due \in [uid : Pods, rc : Nat \ {0}, missed : Nat] /\ due.uid = u /\ due.rc = rc /\ JobOf(due, track)
        <5>1. rc > 0 /\ due = [uid |-> u, rc |-> rc, missed |-> 0]
          BY <4>1, <4>5
        <5> QED
          BY <2>2, <4>1, <4>2, <4>3, <5>1 DEF JobOf
      <4> QED
        BY <4>4, <4>5
    <3>2. CASE t # None
      <4> DEFINE most == IF rc > t.last THEN rc ELSE t.last
      <4>1. /\ TrackOf(u, t, w.pod) /\ t.last \in Nat /\ most \in Nat /\ t.last <= most /\ rc <= most
            /\ \A i \in 1..Len(t.runs) : t.runs[i].run \in Nat /\ t.runs[i].run < t.last
        <5>1. TrackOf(u, t, w.pod) /\ RunsInOrder(t) /\ t.last \in Nat
          BY <2>3, <3>2 DEF TrackOf, RunsInOrder
        <5>2. most \in Nat /\ t.last <= most /\ rc <= most
          BY <2>2, <5>1
        <5> QED
          BY <5>1, <5>2, RunIsKept DEF RunsInOrder
      <4>2. track = [t EXCEPT !.last = most]
        BY <3>2
      <4>3. u = w.pod.uid => most <= w.pod.rc
        BY <2>2, <4>1 DEF TrackOf, Was
      <4>4. due # None => rc > t.last /\ due = [uid |-> u, rc |-> rc, missed |-> rc - t.last - 1]
        BY <3>2 DEF Record!Missed
      <4> HIDE DEF most, track, due
      <4>5. DOMAIN track = {"last", "runs"} /\ track.last = most /\ track.runs = t.runs
        BY <4>1, <4>2 DEF TrackOf
      <4>6. RunsInOrder(track)
        BY <4>1, <4>5 DEF TrackOf, RunsInOrder
      <4>7. TrackOf(u, track, w.pod)
        BY <4>1, <4>3, <4>5, <4>6 DEF TrackOf
      <4>8. ASSUME due # None
            PROVE  due \in [uid : Pods, rc : Nat \ {0}, missed : Nat] /\ due.uid = u /\ due.rc = rc /\ JobOf(due, track)
        <5>1. /\ rc > t.last /\ due.uid = u /\ due.rc = rc /\ due.missed = rc - t.last - 1
              /\ rc - t.last - 1 \in Nat /\ rc # 0
          BY <2>2, <4>1, <4>4, <4>8
        <5>2. due \in [uid : Pods, rc : Nat \ {0}, missed : Nat]
          BY <2>2, <4>4, <4>8, <5>1
        <5>3. ASSUME NEW i \in 1..Len(t.runs)
              PROVE  t.runs[i].run + 1 + (rc - t.last - 1) <= rc - 1
          <6>1. t.runs[i].run \in Nat /\ t.runs[i].run < t.last
            BY <4>1
          <6>2. \A a, b, c \in Nat : a < b => a + 1 + (c - b - 1) <= c - 1
            OBVIOUS
          <6> QED
            BY <2>2, <4>1, <6>1, <6>2
        <5>4. JobOf(due, track)
          BY <4>1, <4>5, <5>1, <5>3 DEF JobOf
        <5> QED
          BY <5>1, <5>2, <5>4
      <4> QED
        BY <4>7, <4>8
    <3> QED
      BY <3>1, <3>2
  <2> DEFINE next == Record!Due(w)
             tracks == [kept EXCEPT ![u] = track]
  <2> HIDE DEF track, due
  <2>5. /\ DOMAIN tracks = Pods /\ tracks[u] = track
        /\ \A x \in Pods : x # u => tracks[x] = kept[x]
    BY <1>1, <2>2 DEF kept
  <2> HIDE DEF tracks
  <2>6. /\ DOMAIN next = DOMAIN w /\ next.pod = w.pod /\ next.held = w.held /\ next.tracks = tracks /\ next.job = due
    BY <1>1, <2>1 DEF tracks
  <2> HIDE DEF next
  <2>7. \A x \in Pods : tracks[x] # None => TrackOf(x, tracks[x], w.pod)
    BY <1>1, <2>4, <2>5 DEF RunsTrue, kept
  <2>8. due # None => Was(due, w.pod)
    BY <2>2, <2>4 DEF Was
  <2>9. RunsTrue(next)
    BY <1>3, <2>2, <2>4, <2>5, <2>6, <2>7, <2>8 DEF RunsTrue
  <2> QED
    BY <2>9 DEF next
<1> QED
  BY <1>2, <1>3

\* A track that gets the run that was fetched for it is one still.
LEMMA TrackGrows ==
  ASSUME NEW pod \in [uid : Pods, rc : Nat], NEW job \in [uid : Pods, rc : Nat \ {0}, missed : Nat],
         NEW t, TrackOf(job.uid, t, pod), JobOf(job, t), Was(job, pod),
         NEW run, run = [run |-> job.rc - 1, missed |-> job.missed, of |-> pod.uid, text |-> pod.rc - 1],
         NEW next, DOMAIN next = {"last", "runs"}, next.last = t.last, next.runs = LastOf(t.runs, run, Record!KEEP)
  PROVE  TrackOf(job.uid, next, pod)
<1> DEFINE n == Len(t.runs)
           s == next.runs
           at(k) == IF k <= n THEN t.runs[k] ELSE run
<1>1. /\ t.runs \in Seq(KeptRun) /\ n \in Nat /\ t.last \in Nat
      /\ job.uid \in Nat /\ job.rc \in Nat /\ job.rc > 0 /\ job.missed \in Nat
      /\ pod.uid \in Nat /\ pod.rc \in Nat
      /\ job.uid <= pod.uid /\ (job.uid = pod.uid => job.rc <= pod.rc /\ t.last <= pod.rc)
      /\ job.rc <= t.last /\ RunsInOrder(t)
  BY DEF TrackOf, RunsInOrder, Pods, Record!MaxPods, Was, JobOf
<1>2. /\ run.run = job.rc - 1 /\ run.missed = job.missed /\ run.of = pod.uid /\ run.text = pod.rc - 1
      /\ run \in KeptRun
  BY <1>1 DEF KeptRun
<1>3. \A k \in 1..n : /\ t.runs[k].run \in Nat /\ t.runs[k].missed \in Nat /\ t.runs[k].of \in Nat /\ t.runs[k].text \in Int
                      /\ t.runs[k].run < t.last /\ t.runs[k].run + 1 + job.missed <= job.rc - 1
                      /\ job.uid <= t.runs[k].of /\ t.runs[k].of <= pod.uid
                      /\ t.runs[k].of = job.uid => t.runs[k].text >= t.runs[k].run
  BY <1>1, RunIsKept DEF TrackOf, RunsInOrder, JobOf
<1> DEFINE gone == Gone(t.runs, Record!KEEP)
<1>4. /\ gone \in Nat /\ gone <= n /\ Len(s) = n + 1 - gone
      /\ \A i \in 1..Len(s) : s[i] = at(i + gone)
      /\ s \in Seq(KeptRun)
  <2>1. Record!KEEP \in Nat \ {0}
    BY DEF Record!KEEP
  <2>2. t.runs \in Seq(KeptRun) /\ run \in KeptRun
    BY <1>1, <1>2
  <2>3. /\ LastOf(t.runs, run, Record!KEEP) \in Seq(KeptRun)
        /\ Gone(t.runs, Record!KEEP) \in Nat /\ Gone(t.runs, Record!KEEP) <= Len(t.runs)
        /\ Len(LastOf(t.runs, run, Record!KEEP)) = Len(t.runs) + 1 - Gone(t.runs, Record!KEEP)
        /\ \A i \in 1..Len(LastOf(t.runs, run, Record!KEEP)) :
             LastOf(t.runs, run, Record!KEEP)[i] =
               IF i + Gone(t.runs, Record!KEEP) <= Len(t.runs) THEN t.runs[i + Gone(t.runs, Record!KEEP)] ELSE run
    BY ONLY <2>1, <2>2, LastAreKept, SMTT(30)
  <2>4. s = LastOf(t.runs, run, Record!KEEP)
    OBVIOUS
  <2> QED
    BY <2>3, <2>4
<1>5. s \in Seq(KeptRun)
  BY <1>4
<1>6. \A k \in 1..n + 1 :
        /\ at(k).run \in Nat /\ at(k).missed \in Nat /\ at(k).of \in Nat
        /\ at(k).run < t.last
        /\ job.uid <= at(k).of /\ at(k).of <= pod.uid
        /\ at(k).of = job.uid => at(k).text >= at(k).run
  <2>1. ASSUME NEW k \in 1..n + 1, k <= n
        PROVE  /\ at(k).run \in Nat /\ at(k).missed \in Nat /\ at(k).of \in Nat
               /\ at(k).run < t.last
               /\ job.uid <= at(k).of /\ at(k).of <= pod.uid
               /\ at(k).of = job.uid => at(k).text >= at(k).run
    <3>1. at(k) = t.runs[k] /\ k \in 1..n
      BY <1>1, <2>1
    <3> HIDE DEF at, n
    <3> QED
      BY <1>3, <3>1
  <2>2. ASSUME NEW k \in 1..n + 1, ~(k <= n)
        PROVE  /\ at(k).run \in Nat /\ at(k).missed \in Nat /\ at(k).of \in Nat
               /\ at(k).run < t.last
               /\ job.uid <= at(k).of /\ at(k).of <= pod.uid
               /\ at(k).of = job.uid => at(k).text >= at(k).run
    <3>1. at(k) = run
      BY <2>2
    <3> HIDE DEF at, n
    <3> QED
      BY <1>1, <1>2, <3>1
  <2> QED
    BY <2>1, <2>2
<1>7. \A k \in 2..n + 1 : at(k).run - at(k - 1).run - 1 >= at(k).missed
  <2>1. ASSUME NEW k \in 2..n + 1, k <= n
        PROVE  at(k).run - at(k - 1).run - 1 >= at(k).missed
    <3>1. at(k) = t.runs[k] /\ at(k - 1) = t.runs[k - 1] /\ k \in 2..n
      BY <1>1, <2>1
    <3> HIDE DEF at
    <3> QED
      BY <1>1, <3>1 DEF RunsInOrder
  <2>2. ASSUME NEW k \in 2..n + 1, ~(k <= n)
        PROVE  at(k).run - at(k - 1).run - 1 >= at(k).missed
    <3>1. at(k) = run /\ at(k - 1) = t.runs[k - 1] /\ k - 1 \in 1..n
      BY <1>1, <2>2
    <3> HIDE DEF at, n
    <3>2. t.runs[k - 1].run \in Nat /\ t.runs[k - 1].run + 1 + job.missed <= job.rc - 1
      BY <1>3, <3>1
    <3>3. \A a, b, c \in Nat : a + 1 + b <= c - 1 => (c - 1) - a - 1 >= b
      OBVIOUS
    <3> QED
      BY <1>1, <1>2, <3>1, <3>2, <3>3
  <2> QED
    BY <2>1, <2>2
<1>8. \A j, k \in 1..n + 1 : j < k => at(j).run < at(k).run
  <2>1. ASSUME NEW j \in 1..n + 1, NEW k \in 1..n + 1, j < k, k <= n
        PROVE  at(j).run < at(k).run
    <3>1. at(k) = t.runs[k] /\ at(j) = t.runs[j] /\ k \in 1..n /\ j \in 1..n
      BY <1>1, <2>1
    <3> HIDE DEF at
    <3> QED
      BY <1>1, <2>1, <3>1 DEF RunsInOrder
  <2>2. ASSUME NEW j \in 1..n + 1, NEW k \in 1..n + 1, j < k, ~(k <= n)
        PROVE  at(j).run < at(k).run
    <3>1. at(k) = run /\ at(j) = t.runs[j] /\ j \in 1..n
      BY <1>1, <2>2
    <3> HIDE DEF at, n
    <3>2. t.runs[j].run \in Nat /\ t.runs[j].run + 1 + job.missed <= job.rc - 1
      BY <1>3, <3>1
    <3>3. \A a, b, c \in Nat : a + 1 + b <= c - 1 => a < c - 1
      OBVIOUS
    <3>4. t.runs[j].run < job.rc - 1
      BY <1>1, <3>2, <3>3
    <3> QED
      BY <1>2, <3>1, <3>4
  <2> QED
    BY <2>1, <2>2
<1> HIDE DEF at, n, s, gone
<1>9. /\ \A i \in 1..Len(s) : i + gone \in 1..n + 1
      /\ \A i \in 2..Len(s) : i + gone \in 2..n + 1 /\ i - 1 \in 1..Len(s) /\ i \in 1..Len(s)
                              /\ (i - 1) + gone = (i + gone) - 1
      /\ \A i, j \in 1..Len(s) : i < j => i + gone < j + gone
  BY <1>1, <1>4
<1>10. RunsInOrder(next)
  <2>1. \A i, j \in 1..Len(s) : i < j => s[i].run < s[j].run
    BY <1>4, <1>8, <1>9
  <2>2. \A i \in 2..Len(s) : s[i].run - s[i - 1].run - 1 >= s[i].missed
    <3>1. ASSUME NEW i \in 2..Len(s)
          PROVE  s[i].run - s[i - 1].run - 1 >= s[i].missed
      <4>1. s[i] = at(i + gone) /\ s[i - 1] = at((i + gone) - 1) /\ i + gone \in 2..n + 1
        BY <1>4, <1>9
      <4> QED
        BY <1>7, <4>1
    <3> QED
      BY <3>1
  <2>3. \A i \in 1..Len(s) : s[i].run < t.last
    BY <1>4, <1>6, <1>9
  <2> QED
    BY <1>1, <1>5, <2>1, <2>2, <2>3 DEF RunsInOrder, s
<1>11. \A i \in 1..Len(s) :
         /\ job.uid <= s[i].of /\ s[i].of <= pod.uid
         /\ s[i].of = job.uid => s[i].text >= s[i].run
  BY <1>4, <1>6, <1>9
<1> QED
  BY <1>1, <1>10, <1>11 DEF TrackOf, s

LEMMA RunsFetched ==
  ASSUME NEW w, RunsTrue(w), w.job # None
  PROVE  LET run == [run |-> w.job.rc - 1, missed |-> w.job.missed, of |-> w.pod.uid, text |-> w.pod.rc - 1]
         IN  /\ RunsTrue([w EXCEPT !.job = None, !.tracks[w.job.uid].runs = Record!Keep(@, run)])
             /\ RunsTrue([w EXCEPT !.job = None])
<1> DEFINE run == [run |-> w.job.rc - 1, missed |-> w.job.missed, of |-> w.pod.uid, text |-> w.pod.rc - 1]
           u == w.job.uid
           t == w.tracks[u]
           track == [t EXCEPT !.runs = Record!Keep(t.runs, run)]
           tracks == [w.tracks EXCEPT ![u] = track]
<1>1. /\ DOMAIN w = {"pod", "held", "tracks", "job"} /\ DOMAIN w.tracks = Pods /\ u \in Pods
      /\ w.pod \in [uid : Pods, rc : Nat] /\ w.job \in [uid : Pods, rc : Nat \ {0}, missed : Nat]
      /\ TrackOf(u, t, w.pod) /\ JobOf(w.job, t) /\ Was(w.job, w.pod)
  BY DEF RunsTrue
<1>2. TrackOf(u, track, w.pod)
  <2>1. Record!Keep(t.runs, run) = LastOf(t.runs, run, Record!KEEP)
    BY Zenon DEF Record!Keep, LastOf
  <2>2. DOMAIN track = {"last", "runs"} /\ track.last = t.last /\ track.runs = LastOf(t.runs, run, Record!KEEP)
    BY <1>1, <2>1 DEF TrackOf
  <2> HIDE DEF track, run, t
  <2>3. run = [run |-> w.job.rc - 1, missed |-> w.job.missed, of |-> w.pod.uid, text |-> w.pod.rc - 1]
    BY DEF run
  <2> QED
    BY <1>1, <2>2, <2>3, TrackGrows
<1> HIDE DEF track, run
<1>3. /\ DOMAIN tracks = Pods /\ tracks[u] = track
      /\ \A x \in Pods : x # u => tracks[x] = w.tracks[x]
  BY <1>1
<1>4. RunsTrue([w EXCEPT !.job = None, !.tracks = tracks])
  <2> DEFINE next == [w EXCEPT !.job = None, !.tracks = tracks]
  <2> HIDE DEF tracks
  <2>1. /\ DOMAIN next = DOMAIN w /\ next.pod = w.pod /\ next.held = w.held
        /\ next.tracks = tracks /\ next.job = None
    BY <1>1
  <2> HIDE DEF next
  <2>2. \A x \in Pods : tracks[x] # None => TrackOf(x, tracks[x], w.pod)
    BY <1>2, <1>3 DEF RunsTrue
  <2>3. RunsTrue(next)
    BY <1>3, <2>1, <2>2 DEF RunsTrue
  <2> QED
    BY <2>3 DEF next
<1>5. [w EXCEPT !.job = None, !.tracks[u].runs = Record!Keep(@, run)] = [w EXCEPT !.job = None, !.tracks = tracks]
  BY <1>1 DEF track
<1>6. RunsTrue([w EXCEPT !.job = None])
  <2> DEFINE next == [w EXCEPT !.job = None]
  <2>1. /\ DOMAIN next = DOMAIN w /\ next.pod = w.pod /\ next.held = w.held
        /\ next.tracks = w.tracks /\ next.job = None
    BY <1>1
  <2> HIDE DEF next
  <2>2. RunsTrue(next)
    BY <2>1 DEF RunsTrue
  <2> QED
    BY <2>2 DEF next
<1> QED
  BY <1>4, <1>5, <1>6 DEF run

LEMMA RunsStep ==
  /\ Record!Init => RunsInv
  /\ RunsInv /\ Record!Next => RunsInv'
<1>1. ASSUME Record!Init
      PROVE  RunsInv
  <2>1. CASE card = "runs" /\ world = Record!NoRuns
    <3> DEFINE w == world
    <3>1. /\ DOMAIN w = {"pod", "held", "tracks", "job"} /\ w.pod \in [uid : Pods, rc : Nat]
          /\ w.held = None /\ w.job = None /\ w.tracks = <<None, None>>
      BY <2>1 DEF Record!NoRuns, Pods, Record!MaxPods
    <3>2. DOMAIN w.tracks = Pods /\ \A u \in Pods : w.tracks[u] = None
      BY <3>1 DEF Pods, Record!MaxPods
    <3> QED
      BY <3>1, <3>2 DEF RunsInv, RunsTrue
  <2>2. CASE card # "runs"
    BY <2>2 DEF RunsInv
  <2> QED
    BY <1>1, <2>1, <2>2, Zenon DEF Record!Init
<1>2. ASSUME RunsInv, Record!Next
      PROVE  RunsInv'
  <2>1. CASE Record!Restart
    <3> DEFINE v == [world.pod EXCEPT !.rc = @ + 1]
    <3>1. RunsTrue(world) /\ world.pod \in [uid : Pods, rc : Nat]
      BY <1>2, <2>1 DEF RunsInv, RunsTrue, Record!Restart
    <3>2. v \in [uid : Pods, rc : Nat] /\ v.uid = world.pod.uid /\ v.rc = world.pod.rc + 1
      BY <3>1
    <3>3. world' = [world EXCEPT !.pod = v]
      BY <2>1 DEF Record!Restart
    <3>4. Was(world.pod, v)
      BY <3>1, <3>2 DEF Was, Pods, Record!MaxPods
    <3> HIDE DEF v
    <3> QED
      BY <3>1, <3>2, <3>3, <3>4, RunsLater DEF RunsInv
  <2>2. CASE Record!Replace
    <3> DEFINE v == [uid |-> world.pod.uid + 1, rc |-> 0]
    <3>1. RunsTrue(world) /\ world.pod \in [uid : Pods, rc : Nat]
      BY <1>2, <2>2 DEF RunsInv, RunsTrue, Record!Replace
    <3>2. v \in [uid : Pods, rc : Nat] /\ v.uid = world.pod.uid + 1 /\ v.rc = 0
      BY <2>2, <3>1 DEF Record!Replace, Pods, Record!MaxPods
    <3>3. world' = [world EXCEPT !.pod = v]
      BY <2>2 DEF Record!Replace
    <3>4. Was(world.pod, v)
      BY <3>1, <3>2 DEF Was, Pods, Record!MaxPods
    <3> HIDE DEF v
    <3> QED
      BY <3>1, <3>2, <3>3, <3>4, RunsLater DEF RunsInv
  <2>3. CASE Record!Observe
    BY <1>2, <2>3, RunsObserved DEF RunsInv, Record!Observe
  <2>4. CASE Record!Look
    BY <1>2, <2>4, RunsDue DEF RunsInv, Record!Look
  <2>5. CASE Record!Fetch
    <3> DEFINE run == [run |-> world.job.rc - 1, missed |-> world.job.missed,
                       of |-> world.pod.uid, text |-> world.pod.rc - 1]
    <3>1. RunsTrue(world) /\ world.job # None
      BY <1>2, <2>5 DEF RunsInv, Record!Fetch
    <3>2. /\ RunsTrue([world EXCEPT !.job = None, !.tracks[world.job.uid].runs = Record!Keep(@, run)])
          /\ RunsTrue([world EXCEPT !.job = None])
      BY <3>1, RunsFetched
    <3>3. \/ world' = [world EXCEPT !.job = None, !.tracks[world.job.uid].runs = Record!Keep(@, run)]
          \/ world' = [world EXCEPT !.job = None]
      BY <2>5 DEF Record!Fetch
    <3> HIDE DEF run
    <3>4. RunsTrue(world')
      BY <3>2, <3>3
    <3> QED
      BY <3>4 DEF RunsInv
  <2>6. CASE Record!Tick \/ Record!Recreate \/ Record!Place \/ Record!Scrape
    <3>1. card' = "stats"
      BY <2>6, Zenon DEF Record!Tick, Record!Recreate, Record!Place, Record!Scrape
    <3> QED
      BY <3>1 DEF RunsInv
  <2> QED
    BY <1>2, <2>1, <2>2, <2>3, <2>4, <2>5, <2>6, Zenon DEF Record!Next
<1> QED
  BY <1>1, <1>2

LEMMA RunsOwn == RunsInv => Record!RunsAreItsOwn
<1> SUFFICES ASSUME RunsInv, card = "runs"
             PROVE  Record!RunsAreItsOwn
  BY DEF Record!RunsAreItsOwn
<1> DEFINE runs == Record!RunsOf(world)
           u == world.held.uid
           t == world.tracks[u]
<1>1. RunsTrue(world)
  BY DEF RunsInv
<1>2. ASSUME world.held = None \/ t = None
      PROVE  Record!RunsAreItsOwn
  <2>1. runs = <<>>
    BY <1>2 DEF Record!RunsOf
  <2> HIDE DEF runs
  <2>2. DOMAIN runs = {}
    BY <2>1
  <2> QED
    BY <2>2 DEF Record!RunsAreItsOwn, runs
<1>3. ASSUME world.held # None, t # None
      PROVE  Record!RunsAreItsOwn
  <2>1. runs = t.runs
    BY <1>3, SMTT(30) DEF Record!RunsOf
  <2>2. /\ u \in Pods /\ u \in Nat /\ world.pod.uid \in Nat /\ TrackOf(u, t, world.pod) /\ RunsInOrder(t)
        /\ t.runs \in Seq(KeptRun)
    <3>1. world.held \in [uid : Pods, rc : Nat] /\ world.pod \in [uid : Pods, rc : Nat]
      BY <1>1, <1>3 DEF RunsTrue
    <3>2. u \in Pods /\ u \in Nat /\ world.pod.uid \in Nat
      BY <3>1 DEF Pods, Record!MaxPods
    <3>3. TrackOf(u, t, world.pod)
      BY <1>1, <1>3, <3>2 DEF RunsTrue
    <3> QED
      BY <3>2, <3>3 DEF TrackOf, RunsInOrder
  <2>3. DOMAIN runs = 1..Len(runs) /\ Len(runs) \in Nat
    <3> HIDE DEF runs, t
    <3>1. runs \in Seq(KeptRun)
      BY <2>1, <2>2
    <3> QED
      BY <3>1
  <2>4. \A i \in 1..Len(runs) : /\ runs[i].run \in Nat /\ runs[i].missed \in Nat
                                /\ runs[i].of \in Nat /\ runs[i].text \in Int
    BY <2>1, <2>2, RunIsKept
  <2>5. /\ \A i, j \in 1..Len(runs) : i < j => runs[i].run < runs[j].run
        /\ \A i \in 2..Len(runs) : runs[i].run - runs[i - 1].run - 1 >= runs[i].missed
        /\ \A i \in 1..Len(runs) : /\ u <= runs[i].of /\ runs[i].of <= world.pod.uid
                                   /\ runs[i].of = u => runs[i].text >= runs[i].run
    BY <2>1, <2>2 DEF TrackOf, RunsInOrder
  <2> HIDE DEF runs, t
  <2>6. ASSUME NEW i \in DOMAIN runs
        PROVE  Record!RunText(world, runs[i].run) = runs[i]
    <3> DEFINE hits == {j \in DOMAIN runs : runs[j].run = runs[i].run}
    <3>1. hits = {i}
      <4>1. ASSUME NEW j \in DOMAIN runs, runs[j].run = runs[i].run
            PROVE  j = i
        BY <2>3, <2>4, <2>5, <2>6, <4>1
      <4> QED
        BY <2>6, <4>1
    <3> HIDE DEF hits
    <3>2. (CHOOSE k \in hits : \A j \in hits : k <= j) = i
      <4>1. i <= i /\ \A k \in hits : k = i
        BY <2>3, <2>6, <3>1
      <4> QED
        BY <3>1, <4>1
    <3>3. Record!RunText(world, runs[i].run) = IF hits = {} THEN None ELSE runs[CHOOSE k \in hits : \A j \in hits : k <= j]
      BY Zenon DEF Record!RunText, hits, runs
    <3> QED
      BY <3>1, <3>2, <3>3
  <2>7. ASSUME NEW i \in DOMAIN runs
        PROVE  /\ world.held.uid = world.pod.uid => runs[i].of = world.pod.uid
               /\ runs[i].of = world.held.uid => runs[i].text >= runs[i].run
    BY <2>2, <2>3, <2>4, <2>5, <2>7
  <2>8. ASSUME NEW i \in DOMAIN runs, i > 1
        PROVE  /\ runs[i].run > runs[i - 1].run
               /\ runs[i].run - runs[i - 1].run - 1 >= runs[i].missed
    <3>1. i \in 2..Len(runs) /\ i - 1 \in 1..Len(runs) /\ i \in 1..Len(runs) /\ i - 1 < i
      BY <2>3, <2>8
    <3> QED
      BY <2>4, <2>5, <3>1
  <2> QED
    BY <2>6, <2>7, <2>8 DEF Record!RunsAreItsOwn, runs
<1> QED
  BY <1>2, <1>3

\* The samples: of answers, each later than the one before it, with the network its kubelet
\* serves.
Sampled == [at : Nat, cpu : Nat, of : Nat, network : SUBSET {"network"}]

Serves(w) == IF w.host THEN {} ELSE w.serves

Apart(s) == \A i, j \in 1..Len(s) : i <= j => s[j].at - s[i].at >= j - i

\* An answer that is in the window yet.
InWindow(t, now) == t + Record!WINDOW >= now

SamplesTrue(w, s, answered) ==
  /\ s \in Seq(Sampled) /\ Len(s) > 0 /\ Len(s) <= Record!WINDOW + Record!Extra
  /\ \A i \in 1..Len(s) : s[i].at \in answered /\ s[i].network = Serves(w)
  /\ Apart(s)
  /\ \A t \in answered : InWindow(t, w.now) => \E i \in 1..Len(s) : s[i].at = t

StatsTyped(w) ==
  /\ DOMAIN w = {"now", "due", "pod", "placed", "samples", "read", "since", "answered", "host", "serves"}
  /\ w.now \in Nat /\ w.due \in BOOLEAN /\ w.host \in BOOLEAN
  /\ w.serves \in SUBSET {"network"}
  /\ w.pod \in [uid : Nat, cpu : Nat]

StatsTrue(w) ==
  /\ StatsTyped(w)
  /\ \A t \in w.answered : t \in Nat /\ t <= w.now /\ (w.due => t < w.now)
  /\ w.samples = None => \A t \in w.answered : ~InWindow(t, w.now)
  /\ w.samples # None => SamplesTrue(w, w.samples, w.answered)

StatsInv == card = "stats" => StatsTrue(world)

LEMMA SampleIsTimed ==
  ASSUME NEW s \in Seq(Sampled), NEW i \in 1..Len(s)
  PROVE  s[i].at \in Nat
<1>1. s[i] \in Sampled
  OBVIOUS
<1> QED
  BY <1>1 DEF Sampled

\* What is dropped to keep as many as a window holds is older than the window.
LEMMA SampleRecorded ==
  ASSUME NEW w, StatsTyped(w), NEW s \in Seq(Sampled), NEW answered,
         Len(s) <= Record!WINDOW + Record!Extra, Apart(s),
         \A i \in 1..Len(s) : s[i].at \in answered /\ s[i].network = Serves(w),
         \A t \in answered : t \in Nat /\ t < w.now,
         \A t \in answered : InWindow(t, w.now) => \E i \in 1..Len(s) : s[i].at = t,
         NEW x \in Sampled, x.at = w.now, x.network = Serves(w),
         NEW r, r = LastOf(s, x, Record!WINDOW + Record!Extra)
  PROVE  SamplesTrue(w, r, answered \cup {w.now})
<1> DEFINE n == Len(s)
           most == Record!WINDOW + Record!Extra
           gone == Gone(s, most)
           at(k) == IF k <= n THEN s[k] ELSE x
<1>1. most \in Nat \ {0} /\ most = Record!WINDOW + 1 /\ Record!WINDOW \in Nat
  BY DEF Record!WINDOW, Record!Extra
<1>2. /\ r \in Seq(Sampled) /\ gone \in Nat /\ gone <= n /\ Len(r) = n + 1 - gone /\ n \in Nat
      /\ \A i \in 1..Len(r) : r[i] = at(i + gone)
      /\ gone > 0 => gone = n + 1 - most
      /\ Len(r) <= most
  BY <1>1, LastAreKept
<1>3. w.now \in Nat
  BY DEF StatsTyped
<1>4. \A k \in 1..n : at(k) = s[k]
  BY <1>2
<1>5. at(n + 1) = x
  BY <1>2
<1>6. \A k \in 1..n : s[k].at \in Nat /\ s[k].at < w.now /\ s[k].at \in answered /\ s[k].network = Serves(w)
  OBVIOUS
<1> HIDE DEF most, gone, at
<1>7. \A j, k \in 1..n + 1 : j <= k => at(k).at - at(j).at >= k - j
  <2>1. ASSUME NEW j \in 1..n, NEW k \in 1..n, j <= k
        PROVE  at(k).at - at(j).at >= k - j
    BY <1>4, <2>1 DEF Apart
  <2>2. ASSUME NEW j \in 1..n
        PROVE  at(n + 1).at - at(j).at >= (n + 1) - j
    <3>1. n \in 1..n /\ j <= n
      BY <1>2
    <3>2. s[n].at - s[j].at >= n - j
      BY <3>1 DEF Apart
    <3>3. s[n].at \in Nat /\ s[n].at < w.now /\ s[j].at \in Nat
      BY <1>6, <3>1
    <3> HIDE DEF n
    <3> QED
      BY <1>2, <1>3, <1>4, <1>5, <3>1, <3>2, <3>3, SMTT(30)
  <2>3. at(n + 1).at - at(n + 1).at >= (n + 1) - (n + 1)
    BY <1>2, <1>3, <1>5
  <2> HIDE DEF n
  <2>4. \A k \in 1..n + 1 : k \in 1..n \/ k = n + 1
    BY <1>2
  <2>5. \A j \in 1..n + 1 : n + 1 <= j => j = n + 1
    BY <1>2
  <2>6. ASSUME NEW j \in 1..n + 1, NEW k \in 1..n + 1, j <= k
        PROVE  at(k).at - at(j).at >= k - j
    <3>1. CASE k = n + 1 /\ j = n + 1
      BY <2>3, <3>1
    <3>2. CASE k = n + 1 /\ j \in 1..n
      BY <2>2, <3>2
    <3>3. CASE k \in 1..n
      <4>1. j \in 1..n
        BY <1>2, <2>6, <3>3
      <4> QED
        BY <2>1, <2>6, <3>3, <4>1
    <3> QED
      BY <2>4, <3>1, <3>2, <3>3
  <2> QED
    BY <2>6
<1> HIDE DEF n
<1>8. \A i \in 1..Len(r) : i + gone \in 1..n + 1
  BY <1>2
<1>9. \A k \in 1..n + 1 : at(k).at \in answered \cup {w.now} /\ at(k).at \in Nat /\ at(k).network = Serves(w)
  <2>1. ASSUME NEW k \in 1..n + 1
        PROVE  at(k).at \in answered \cup {w.now} /\ at(k).at \in Nat /\ at(k).network = Serves(w)
    <3>1. n \in Nat
      BY <1>2
    <3>2. k \in 1..n \/ k = n + 1
      BY <3>1
    <3> QED
      BY <1>3, <1>4, <1>5, <1>6, <3>2
  <2> QED
    BY <2>1
<1>10. Apart(r)
  <2>1. ASSUME NEW i \in 1..Len(r), NEW j \in 1..Len(r), i <= j
        PROVE  r[j].at - r[i].at >= j - i
    <3>1. i + gone \in 1..n + 1 /\ j + gone \in 1..n + 1 /\ i + gone <= j + gone
          /\ (j + gone) - (i + gone) = j - i
      BY <1>2, <1>8, <2>1
    <3>2. r[i] = at(i + gone) /\ r[j] = at(j + gone)
      BY <1>2
    <3> QED
      BY <1>7, <3>1, <3>2
  <2> QED
    BY <2>1 DEF Apart
<1>11. ASSUME NEW t \in answered \cup {w.now}, InWindow(t, w.now)
       PROVE  \E i \in 1..Len(r) : r[i].at = t
  <2>1. PICK k \in 1..n + 1 : at(k).at = t
    <3>1. CASE t = w.now
      <4>1. n + 1 \in 1..n + 1
        BY <1>2
      <4> QED
        BY <1>5, <3>1, <4>1
    <3>2. CASE t \in answered
      <4>1. PICK i \in 1..n : s[i].at = t
        BY <1>11, <3>2 DEF n
      <4>2. i \in 1..n + 1
        BY <1>2
      <4> QED
        BY <1>4, <4>1, <4>2
    <3> QED
      BY <3>1, <3>2
  <2>2. k > gone
    <3>1. SUFFICES ASSUME k <= gone
                   PROVE  FALSE
      BY <1>2
    <3>2. gone > 0 /\ gone = n + 1 - most
      BY <1>2, <3>1
    <3>3. n + 1 \in 1..n + 1 /\ k <= n + 1 /\ at(n + 1).at = w.now
      BY <1>2, <1>5
    <3>4. w.now - t >= (n + 1) - k
      BY <1>7, <2>1, <3>3
    <3>5. t \in Nat /\ t + Record!WINDOW >= w.now
      BY <1>9, <1>11, <2>1 DEF InWindow
    <3> QED
      BY <1>1, <1>2, <1>3, <3>1, <3>2, <3>4, <3>5
  <2>3. k - gone \in 1..Len(r) /\ (k - gone) + gone = k
    BY <1>2, <2>2
  <2>4. r[k - gone].at = t
    BY <1>2, <2>1, <2>3
  <2> QED
    BY <2>3, <2>4
<1>12. Len(r) > 0 /\ Len(r) <= Record!WINDOW + Record!Extra
  BY <1>1, <1>2 DEF most
<1>13. \A i \in 1..Len(r) : r[i].at \in answered \cup {w.now} /\ r[i].network = Serves(w)
  BY <1>2, <1>8, <1>9
<1> QED
  BY <1>2, <1>10, <1>11, <1>12, <1>13 DEF SamplesTrue

LEMMA StatsLater ==
  ASSUME NEW w, NEW v, StatsTrue(w), StatsTyped(v),
         v.host = w.host, v.serves = w.serves, v.samples = w.samples, v.answered = w.answered,
         w.now <= v.now, v.due => w.due \/ w.now < v.now
  PROVE  StatsTrue(v)
<1>1. Serves(v) = Serves(w)
  BY DEF Serves
<1>2. w.now \in Nat /\ v.now \in Nat /\ Record!WINDOW \in Nat
  BY DEF StatsTrue, StatsTyped, Record!WINDOW
<1>3. ASSUME NEW t \in w.answered
      PROVE  /\ t \in Nat /\ t <= v.now /\ (v.due => t < v.now)
             /\ InWindow(t, v.now) => InWindow(t, w.now)
  <2>1. t \in Nat /\ t <= w.now /\ (w.due => t < w.now)
    BY <1>3 DEF StatsTrue
  <2> QED
    BY <1>2, <2>1 DEF InWindow
<1>4. \A s : SamplesTrue(w, s, w.answered) => SamplesTrue(v, s, w.answered)
  BY <1>1, <1>3 DEF SamplesTrue
<1> QED
  BY <1>3, <1>4 DEF StatsTrue

\* A scrape: what it says is recorded, and what is older than the window forgotten.
LEMMA SamplesScraped ==
  ASSUME NEW w, StatsTrue(w), w.due, NEW has \in BOOLEAN, NEW now, NEW kept, NEW answered, NEW v,
         now = IF has THEN Record!Record(w.samples, Record!Sample(w)) ELSE w.samples,
         kept = Record!Retained(now, w.now),
         answered = IF has THEN w.answered \cup {w.now} ELSE w.answered,
         DOMAIN v = DOMAIN w, v.now = w.now, v.due = FALSE, v.pod = w.pod,
         v.host = w.host, v.serves = w.serves, v.samples = kept, v.answered = answered
  PROVE  StatsTrue(v)
<1>1. StatsTyped(w) /\ w.now \in Nat
  BY DEF StatsTrue, StatsTyped
<1>2. StatsTyped(v) /\ Serves(v) = Serves(w)
  BY <1>1 DEF StatsTyped, Serves
<1>3. \A t \in w.answered : t \in Nat /\ t < w.now
  BY <1>1 DEF StatsTrue
<1>4. \A t \in answered : t \in Nat /\ t <= w.now
  <2>1. \A t \in answered : t \in w.answered \/ t = w.now
    OBVIOUS
  <2> QED
    BY <1>1, <1>3, <2>1
<1>5. /\ now = None => ~has /\ \A t \in answered : ~InWindow(t, w.now)
      /\ now # None => SamplesTrue(w, now, answered)
  <2>1. CASE ~has
    <3>1. now = w.samples /\ answered = w.answered
      BY <2>1
    <3> QED
      BY <1>1, <2>1, <3>1 DEF StatsTrue
  <2>2. CASE has
    <3> DEFINE s == IF w.samples = None THEN <<>> ELSE w.samples
               x == Record!Sample(w)
    <3>1. /\ s \in Seq(Sampled) /\ Len(s) <= Record!WINDOW + Record!Extra /\ Apart(s)
          /\ \A i \in 1..Len(s) : s[i].at \in w.answered /\ s[i].network = Serves(w)
          /\ \A t \in w.answered : InWindow(t, w.now) => \E i \in 1..Len(s) : s[i].at = t
      <4>1. CASE w.samples = None
        <5>1. s = <<>> /\ \A t \in w.answered : ~InWindow(t, w.now)
          BY <1>1, <4>1 DEF StatsTrue
        <5> HIDE DEF s
        <5>2. <<>> \in Seq(Sampled) /\ Len(<<>>) = 0
          OBVIOUS
        <5>3. s \in Seq(Sampled) /\ Len(s) = 0
          BY <5>1, <5>2
        <5>4. 1..Len(s) = {} /\ Len(s) <= Record!WINDOW + Record!Extra
          BY <5>3 DEF Record!WINDOW, Record!Extra
        <5>5. Apart(s)
          BY <5>4 DEF Apart
        <5> QED
          BY <5>1, <5>3, <5>4, <5>5
      <4>2. CASE w.samples # None
        <5>1. s = w.samples /\ SamplesTrue(w, s, w.answered)
          BY <1>1, <4>2 DEF StatsTrue
        <5> HIDE DEF s
        <5> QED
          BY <5>1 DEF SamplesTrue
      <4> QED
        BY <4>1, <4>2
    <3>2. x \in Sampled /\ x.at = w.now /\ x.network = Serves(w)
      BY <1>1 DEF Record!Sample, Sampled, Serves, StatsTyped
    <3>3. now = LastOf(s, x, Record!WINDOW + Record!Extra)
      <4>1. now = Record!Record(w.samples, x)
        BY <2>2
      <4> QED
        BY <4>1, Zenon DEF Record!Record, LastOf
    <3> HIDE DEF s, x
    <3>4. SamplesTrue(w, now, w.answered \cup {w.now})
      BY <1>1, <1>3, <3>1, <3>2, <3>3, SampleRecorded
    <3>5. now # None
      <4>1. now \in Seq(Sampled)
        BY <3>4 DEF SamplesTrue
      <4> QED
        BY <4>1, NoneAssumption DEF Sampled
    <3> QED
      BY <2>2, <3>4, <3>5
  <2> QED
    BY <2>1, <2>2
<1>6. /\ kept = None => \A t \in answered : ~InWindow(t, w.now)
      /\ kept # None => SamplesTrue(w, kept, answered)
  <2>1. CASE now = None
    <3>1. kept = None
      BY <2>1 DEF Record!Retained
    <3> QED
      BY <1>5, <2>1, <3>1
  <2>2. CASE now # None /\ ~(w.now - Record!Last(now).at > Record!WINDOW)
    <3>1. kept = now
      BY <2>2 DEF Record!Retained, Record!Last
    <3> QED
      BY <1>5, <2>2, <3>1
  <2>3. CASE now # None /\ w.now - Record!Last(now).at > Record!WINDOW
    <3>1. kept = None
      BY <2>3 DEF Record!Retained, Record!Last
    <3>2. SamplesTrue(w, now, answered) /\ Record!Last(now) = now[Len(now)]
      BY <1>5, <2>3 DEF Record!Last
    <3>3. ASSUME NEW t \in answered, InWindow(t, w.now)
          PROVE  FALSE
      <4>1. now \in Seq(Sampled) /\ Len(now) > 0
        BY <3>2 DEF SamplesTrue
      <4>2. Len(now) \in Nat
        BY <4>1
      <4>3. PICK i \in 1..Len(now) : now[i].at = t
        BY <3>2, <3>3 DEF SamplesTrue
      <4>4. Len(now) \in 1..Len(now) /\ i <= Len(now)
        BY <4>1, <4>2
      <4>5. now[Len(now)].at - now[i].at >= Len(now) - i
        BY <3>2, <4>4 DEF SamplesTrue, Apart
      <4>6. now[Len(now)].at \in Nat /\ now[i].at \in Nat
        BY <4>1, <4>4, SampleIsTimed
      <4> QED
        <5>1. now[Len(now)].at >= t /\ t \in Nat
          BY <4>2, <4>3, <4>4, <4>5, <4>6
        <5>2. t + Record!WINDOW >= w.now /\ w.now - now[Len(now)].at > Record!WINDOW /\ Record!WINDOW \in Nat
          BY <2>3, <3>2, <3>3 DEF InWindow, Record!WINDOW
        <5> QED
          BY <1>1, <4>4, <4>6, <5>1, <5>2
    <3> QED
      BY <3>1, <3>3
  <2> QED
    BY <2>1, <2>2, <2>3
<1>7. kept # None => SamplesTrue(v, kept, answered)
  BY <1>2, <1>6 DEF SamplesTrue
<1> QED
  BY <1>2, <1>4, <1>6, <1>7 DEF StatsTrue

LEMMA StatsStep ==
  /\ Record!Init => StatsInv
  /\ StatsInv /\ Record!Next => StatsInv'
<1>1. ASSUME Record!Init
      PROVE  StatsInv
  <2>1. CASE card = "runs"
    BY <2>1 DEF StatsInv
  <2>2. CASE \E host \in BOOLEAN, serves \in SUBSET {"network"} :
               world = [Record!NoStats EXCEPT !.host = host, !.serves = serves]
    <3>1. PICK host \in BOOLEAN, serves \in SUBSET {"network"} :
            world = [Record!NoStats EXCEPT !.host = host, !.serves = serves]
      BY <2>2
    <3>2. StatsTyped(world) /\ world.samples = None /\ world.answered = {}
      BY <3>1 DEF Record!NoStats, StatsTyped
    <3> QED
      BY <3>2 DEF StatsInv, StatsTrue
  <2> QED
    BY <1>1, <2>1, <2>2, Zenon DEF Record!Init
<1>2. ASSUME StatsInv, Record!Next
      PROVE  StatsInv'
  <2>1. CASE Record!Tick
    <3>1. StatsTrue(world) /\ StatsTyped(world)
      BY <1>2, <2>1 DEF StatsInv, StatsTrue, Record!Tick
    <3>2. PICK used \in 0..1 :
            world' = [world EXCEPT !.now = @ + 1, !.due = TRUE, !.pod.cpu = IF @ < 2 THEN @ + used ELSE @]
      BY <2>1 DEF Record!Tick
    <3>3. /\ DOMAIN world' = DOMAIN world /\ world'.now = world.now + 1 /\ world'.due = TRUE
          /\ world'.pod = [world.pod EXCEPT !.cpu = IF @ < 2 THEN @ + used ELSE @]
          /\ world'.host = world.host /\ world'.serves = world.serves
          /\ world'.samples = world.samples /\ world'.answered = world.answered
      BY <3>1, <3>2 DEF StatsTyped
    <3>4. StatsTyped(world')
      <4>1. world.pod \in [uid : Nat, cpu : Nat] /\ used \in Nat
        BY <3>1 DEF StatsTyped
      <4>2. [world.pod EXCEPT !.cpu = IF @ < 2 THEN @ + used ELSE @] \in [uid : Nat, cpu : Nat]
        BY <4>1
      <4>3. world'.pod \in [uid : Nat, cpu : Nat]
        BY <3>3, <4>2
      <4>4. world.now \in Nat /\ world'.now = world.now + 1 /\ world'.due = TRUE
        BY <3>1, <3>3, Zenon DEF StatsTyped
      <4>5. world.now + 1 \in Nat
        BY <4>4
      <4>6. world'.now \in Nat /\ world'.due \in BOOLEAN
        BY <4>4, <4>5, Zenon
      <4> QED
        BY <3>1, <3>3, <4>3, <4>6 DEF StatsTyped
    <3>5. world.now <= world'.now /\ world.now < world'.now
      BY <3>1, <3>3 DEF StatsTyped
    <3> QED
      BY <3>1, <3>3, <3>4, <3>5, StatsLater DEF StatsInv
  <2>2. CASE Record!Recreate
    <3>1. StatsTrue(world) /\ StatsTyped(world)
      BY <1>2, <2>2 DEF StatsInv, StatsTrue, Record!Recreate
    <3>2. world' = [world EXCEPT !.pod = [uid |-> world.pod.uid + 1, cpu |-> 0]]
      BY <2>2 DEF Record!Recreate
    <3>3. /\ DOMAIN world' = DOMAIN world /\ world'.now = world.now /\ world'.due = world.due
          /\ world'.pod = [uid |-> world.pod.uid + 1, cpu |-> 0]
          /\ world'.host = world.host /\ world'.serves = world.serves
          /\ world'.samples = world.samples /\ world'.answered = world.answered
      BY <3>1, <3>2 DEF StatsTyped
    <3>4. StatsTyped(world')
      BY <3>1, <3>3 DEF StatsTyped
    <3>5. world.now <= world'.now
      BY <3>1, <3>3 DEF StatsTyped
    <3> QED
      BY <3>1, <3>3, <3>4, <3>5, StatsLater DEF StatsInv
  <2>3. CASE Record!Place
    <3>1. StatsTrue(world) /\ StatsTyped(world)
      BY <1>2, <2>3 DEF StatsInv, StatsTrue, Record!Place
    <3>2. world' = [world EXCEPT !.placed = ~@]
      BY <2>3 DEF Record!Place
    <3>3. /\ DOMAIN world' = DOMAIN world /\ world'.now = world.now /\ world'.due = world.due
          /\ world'.pod = world.pod
          /\ world'.host = world.host /\ world'.serves = world.serves
          /\ world'.samples = world.samples /\ world'.answered = world.answered
      BY <3>1, <3>2 DEF StatsTyped
    <3>4. StatsTyped(world') /\ world.now <= world'.now
      BY <3>1, <3>3 DEF StatsTyped
    <3> QED
      BY <3>1, <3>3, <3>4, StatsLater DEF StatsInv
  <2>4. CASE Record!Scrape
    <3>1. StatsTrue(world) /\ StatsTyped(world) /\ world.due /\ world.now \in Nat
      BY <1>2, <2>4 DEF StatsInv, StatsTrue, StatsTyped, Record!Scrape
    <3>2. PICK answer \in {"ok", "without it", "refused", "silent"} :
            LET has == answer = "ok" /\ world.placed
                said == answer \in {"ok", "without it"}
                now == IF has THEN Record!Record(world.samples, Record!Sample(world)) ELSE world.samples
            IN  world' = [world EXCEPT
                            !.samples = Record!Retained(now, world.now),
                            !.read = IF said THEN "ok" ELSE answer,
                            !.since = IF said /\ @ = None THEN world.now ELSE @,
                            !.answered = IF has THEN @ \cup {world.now} ELSE @,
                            !.due = FALSE]
      BY <2>4, Zenon DEF Record!Scrape
    <3> DEFINE has == answer = "ok" /\ world.placed
               now == IF has THEN Record!Record(world.samples, Record!Sample(world)) ELSE world.samples
               kept == Record!Retained(now, world.now)
               answered == IF has THEN world.answered \cup {world.now} ELSE world.answered
    <3>3. /\ DOMAIN world' = DOMAIN world /\ world'.now = world.now /\ world'.due = FALSE
          /\ world'.pod = world.pod
          /\ world'.host = world.host /\ world'.serves = world.serves
          /\ world'.samples = kept /\ world'.answered = answered
      <4> HIDE DEF has, now
      <4>1. DOMAIN world = {"now", "due", "pod", "placed", "samples", "read", "since", "answered", "host", "serves"}
        BY <3>1 DEF StatsTyped
      <4>2. PICK read, since :
              world' = [world EXCEPT !.samples = kept, !.read = read, !.since = since,
                                     !.answered = answered, !.due = FALSE]
        BY <3>2 DEF has, now
      <4> QED
        BY <4>1, <4>2
    <3> HIDE DEF kept, answered, now
    <3>4. has \in BOOLEAN
      BY DEF has
    <3> HIDE DEF has
    <3>5. StatsTrue(world')
      BY <3>1, <3>3, <3>4, SamplesScraped DEF kept, answered, now
    <3> QED
      BY <3>5 DEF StatsInv
  <2>5. CASE Record!Restart \/ Record!Replace \/ Record!Observe \/ Record!Look \/ Record!Fetch
    <3>1. card' = "runs"
      BY <2>5, Zenon DEF Record!Restart, Record!Replace, Record!Observe, Record!Look, Record!Fetch
    <3> QED
      BY <3>1 DEF StatsInv
  <2> QED
    BY <1>2, <2>1, <2>2, <2>3, <2>4, <2>5, Zenon DEF Record!Next
<1> QED
  BY <1>1, <1>2

LEMMA ChartIsWhole == StatsInv => Record!WindowIsWhole
<1> SUFFICES ASSUME StatsInv, card = "stats"
             PROVE  Record!WindowIsWhole
  BY DEF Record!WindowIsWhole
<1> DEFINE v == Record!View(world, Record!WINDOW)
           w == world
           s == w.samples
           from == IF w.now > Record!WINDOW THEN w.now - Record!WINDOW ELSE 0
<1>1. StatsTrue(w) /\ StatsTyped(w) /\ w.now \in Nat /\ Record!WINDOW \in Nat
  BY DEF StatsInv, StatsTrue, StatsTyped, Record!WINDOW
<1>2. ASSUME s = None
      PROVE  Record!WindowIsWhole
  <2>1. v.available = FALSE
    BY <1>2 DEF Record!View
  <2>2. \A t \in w.answered : ~(t + Record!WINDOW >= w.now)
    BY <1>1, <1>2 DEF StatsTrue, InWindow
  <2> HIDE DEF v
  <2> QED
    BY <2>1, <2>2 DEF Record!WindowIsWhole, v
<1>3. ASSUME s # None
      PROVE  Record!WindowIsWhole
  <2>1. /\ SamplesTrue(w, s, w.answered) /\ s \in Seq(Sampled) /\ Len(s) \in Nat /\ Len(s) > 0
        /\ DOMAIN s = 1..Len(s)
    BY <1>1, <1>3 DEF StatsTrue, SamplesTrue
  <2>2. v = [available |-> TRUE, missing |-> Record!Missing(w), points |-> Record!Series(s, from)]
    BY <1>3, Zenon DEF Record!View
  <2>3. v.available = TRUE /\ v.missing = Record!Missing(w) /\ v.points = Record!Series(s, from)
    BY <2>2
  <2> HIDE DEF v
  <2>4. \A i \in DOMAIN s : s[i].at \in Nat /\ s[i].network = Serves(w)
    BY <2>1, SampleIsTimed DEF SamplesTrue
  <2>5. Record!Missing(w) = {} <=> ~w.host /\ w.serves # {}
    <3>1. 1 \in DOMAIN s
      BY <2>1
    <3>2. CASE w.host
      BY <3>2 DEF Record!Missing
    <3>3. CASE ~w.host
      <4>1. (\E i \in DOMAIN w.samples : w.samples[i].network # {}) <=> w.serves # {}
        BY <2>4, <3>1, <3>3 DEF Serves
      <4> QED
        BY <3>3, <4>1 DEF Record!Missing
    <3> QED
      BY <3>2, <3>3
  <2>6. \A t \in Nat : t >= from <=> t + Record!WINDOW >= w.now
    BY <1>1
  <2> HIDE DEF from
  <2> DEFINE hits == {j \in DOMAIN s : s[j].at >= from}
             rate(i) == IF i = 1 THEN None ELSE Record!Rate(s[i - 1], s[i])
  <2>7. {p.at : p \in v.points} = {s[i].at : i \in hits}
    <3>1. v.points = {[at |-> s[i].at, rate |-> rate(i)] : i \in hits}
      BY <2>3, Zenon DEF Record!Series
    <3> HIDE DEF hits, rate
    <3> DEFINE point(i) == [at |-> s[i].at, rate |-> rate(i)]
    <3>2. \A i \in hits : point(i).at = s[i].at
      OBVIOUS
    <3>3. v.points = {point(i) : i \in hits}
      BY <3>1
    <3> HIDE DEF point
    <3> QED
      BY <3>2, <3>3
  <2>8. {t \in w.answered : t + Record!WINDOW >= w.now} = {s[i].at : i \in hits}
    <3>1. ASSUME NEW t \in w.answered, t + Record!WINDOW >= w.now
          PROVE  \E i \in hits : t = s[i].at
      <4>1. PICK i \in 1..Len(s) : s[i].at = t
        BY <2>1, <3>1 DEF SamplesTrue, InWindow
      <4>2. i \in hits
        BY <2>1, <2>4, <2>6, <3>1, <4>1
      <4> QED
        BY <4>1, <4>2
    <3>2. ASSUME NEW i \in hits
          PROVE  s[i].at \in w.answered /\ s[i].at + Record!WINDOW >= w.now
      <4>1. i \in DOMAIN s /\ s[i].at >= from
        BY <3>2
      <4> QED
        BY <2>1, <2>4, <2>6, <4>1 DEF SamplesTrue
    <3> QED
      BY <3>1, <3>2
  <2>9. {t \in w.answered : t + Record!WINDOW >= w.now} = {p.at : p \in v.points}
    BY <2>7, <2>8
  <2> QED
    BY <2>3, <2>5, <2>9 DEF Record!WindowIsWhole, v
<1> QED
  BY <1>2, <1>3

-----------------------------------------------------------------------------
(* What the engine's pages and the node's history say. *)

\* An ask waits for no longer than its budget; what was given up is behind what is left
\* alone, or as far behind as the hold-off; and so is what was given up before an ask.
Waits(ask, clock) == ask.at \in Nat /\ ask.at <= clock /\ clock <= ask.at + Block!Budget

DigestTrue(w) ==
  /\ DOMAIN w = {"clock", "held", "gave", "ask"} /\ w.clock \in Nat
  /\ w.held # None => w.held \in Nat
  /\ w.gave # None => /\ w.gave \in Nat /\ w.gave <= w.clock
                      /\ IF w.held # None THEN w.gave <= w.held + Block!Budget
                                          ELSE w.gave + Block!Hold <= w.clock + Block!Budget
  /\ DOMAIN w.ask = Block!Pages
  /\ \A p \in Block!Pages :
       /\ DOMAIN w.ask[p] = {"at", "after"}
       /\ w.ask[p].at # None => Waits(w.ask[p], w.clock)
       /\ w.ask[p].at # None /\ w.ask[p].after # None =>
            w.ask[p].after \in Nat /\ w.ask[p].at + Block!Budget >= w.ask[p].after + Block!Hold

LEMMA DigestAsked ==
  ASSUME NEW w, DigestTrue(w), NEW p \in Block!Pages, NEW left,
         left = IF w.held # None /\ w.clock - w.held >= Block!Hold THEN None ELSE w.held, left = None
  PROVE  DigestTrue([w EXCEPT !.held = left, !.ask[p] = [at |-> w.clock, after |-> w.gave]])
<1> DEFINE v == [w EXCEPT !.held = left, !.ask[p] = [at |-> w.clock, after |-> w.gave]]
           a == [at |-> w.clock, after |-> w.gave]
<1>1. /\ DOMAIN v = DOMAIN w /\ v.clock = w.clock /\ v.held = left /\ v.gave = w.gave
      /\ DOMAIN v.ask = Block!Pages /\ v.ask[p] = a
      /\ \A q \in Block!Pages : q # p => v.ask[q] = w.ask[q]
      /\ DOMAIN a = {"at", "after"} /\ a.at = w.clock /\ a.after = w.gave
  BY DEF DigestTrue
<1> HIDE DEF v, a
<1>2. w.clock \in Nat /\ Block!Hold \in Nat /\ Block!Budget \in Nat
  BY DEF DigestTrue, Block!Hold, Block!Budget
<1>3. ASSUME w.gave # None
      PROVE  w.gave \in Nat /\ w.gave <= w.clock /\ w.gave + Block!Hold <= w.clock + Block!Budget
  <2>1. w.gave \in Nat /\ w.gave <= w.clock
    BY <1>3 DEF DigestTrue
  <2>2. CASE w.held = None
    BY <1>3, <2>1, <2>2 DEF DigestTrue
  <2>3. CASE w.held # None
    <3>1. w.held \in Nat /\ w.gave <= w.held + Block!Budget
      BY <1>3, <2>3 DEF DigestTrue
    <3>2. w.clock - w.held >= Block!Hold
      BY <2>3
    <3> QED
      BY <1>2, <2>1, <3>1, <3>2
  <2> QED
    BY <2>2, <2>3
<1>4. Waits(a, w.clock)
  BY <1>1, <1>2 DEF Waits
<1>5. DigestTrue(v)
  BY <1>1, <1>2, <1>3, <1>4 DEF DigestTrue
<1> QED
  BY <1>5 DEF v

LEMMA DigestEnds ==
  ASSUME NEW w, DigestTrue(w), NEW p \in Block!Pages, w.ask[p].at # None
  PROVE  /\ DigestTrue([w EXCEPT !.ask[p] = [at |-> None, after |-> None]])
         /\ DigestTrue([w EXCEPT !.held = w.ask[p].at, !.ask[p] = [at |-> None, after |-> None],
                                 !.gave = IF @ = None \/ @ < w.ask[p].at THEN w.ask[p].at ELSE @])
<1> DEFINE a == [at |-> None, after |-> None]
           at == w.ask[p].at
           gave == IF w.gave = None \/ w.gave < at THEN at ELSE w.gave
           v == [w EXCEPT !.ask[p] = a]
           x == [w EXCEPT !.held = at, !.ask[p] = a, !.gave = gave]
<1>1. /\ DOMAIN v = DOMAIN w /\ v.clock = w.clock /\ v.held = w.held /\ v.gave = w.gave
      /\ DOMAIN v.ask = Block!Pages /\ v.ask[p] = a
      /\ \A q \in Block!Pages : q # p => v.ask[q] = w.ask[q]
      /\ DOMAIN a = {"at", "after"} /\ a.at = None
  BY DEF DigestTrue
<1>2. /\ DOMAIN x = DOMAIN w /\ x.clock = w.clock /\ x.held = at /\ x.gave = gave
      /\ DOMAIN x.ask = Block!Pages /\ x.ask[p] = a
      /\ \A q \in Block!Pages : q # p => x.ask[q] = w.ask[q]
  BY DEF DigestTrue
<1>3. at \in Nat /\ at <= w.clock /\ w.clock <= at + Block!Budget /\ w.clock \in Nat /\ Block!Budget \in Nat
  BY DEF DigestTrue, Waits, Block!Budget
<1>4. gave \in Nat /\ gave <= w.clock /\ gave <= at + Block!Budget
  <2>1. w.gave # None => w.gave \in Nat /\ w.gave <= w.clock
    BY DEF DigestTrue
  <2> QED
    BY <1>3, <2>1
<1> HIDE DEF v, x, a, gave, at
<1>5. DigestTrue(v)
  BY <1>1 DEF DigestTrue
<1>6. at # None
  BY DEF at
<1>7. DigestTrue(x)
  BY <1>1, <1>2, <1>3, <1>4, <1>6 DEF DigestTrue
<1> QED
  BY <1>5, <1>7, Zenon DEF v, x, a, at, gave

LEMMA DigestTicks ==
  ASSUME NEW w, DigestTrue(w),
         \A p \in Block!Pages : w.ask[p].at # None => w.clock - w.ask[p].at < Block!Budget
  PROVE  DigestTrue([w EXCEPT !.clock = @ + 1])
<1> DEFINE v == [w EXCEPT !.clock = @ + 1]
<1>1. /\ DOMAIN v = DOMAIN w /\ v.clock = w.clock + 1 /\ v.held = w.held /\ v.gave = w.gave
      /\ v.ask = w.ask
  BY DEF DigestTrue
<1> HIDE DEF v
<1>2. w.clock \in Nat /\ w.clock + 1 \in Nat /\ Block!Hold \in Nat /\ Block!Budget \in Nat
  BY DEF DigestTrue, Block!Hold, Block!Budget
<1>3. \A p \in Block!Pages : w.ask[p].at # None => Waits(w.ask[p], w.clock + 1)
  <2>1. ASSUME NEW p \in Block!Pages, w.ask[p].at # None
        PROVE  Waits(w.ask[p], w.clock + 1)
    <3>1. w.ask[p].at \in Nat /\ w.ask[p].at <= w.clock /\ w.clock - w.ask[p].at < Block!Budget
      BY <2>1 DEF DigestTrue, Waits
    <3> QED
      BY <1>2, <3>1 DEF Waits
  <2> QED
    BY <2>1
<1>4. w.gave # None => /\ w.gave \in Nat /\ w.gave <= w.clock + 1
                       /\ IF w.held # None THEN w.gave <= w.held + Block!Budget
                                           ELSE w.gave + Block!Hold <= (w.clock + 1) + Block!Budget
  BY <1>2 DEF DigestTrue
<1>5. DigestTrue(v)
  BY <1>1, <1>2, <1>3, <1>4 DEF DigestTrue
<1> QED
  BY <1>5 DEF v

\* The lists that were read are what is, as long as nothing has moved.
Listed(l, of) ==
  CASE l = "spares" -> {d \in Block!Drives : of[d] = "spare"}
    [] l = "drives" -> Block!Drives
    [] OTHER        -> {d \in Block!Drives : of[d] = "member"}

RaidTrue(w) ==
  /\ DOMAIN w = {"of", "shelf", "read", "moved", "page"}
  /\ w.of \in [Block!Drives -> {"nobody", "spare", "member"}]
  /\ w.shelf \in BOOLEAN /\ w.moved \in BOOLEAN
  /\ DOMAIN w.read = Block!Lists
  /\ \A l \in Block!Lists : /\ w.read[l].was \in {"unread", "failed", "answered"}
                            /\ w.read[l].was # "answered" => w.read[l].is = {}
  /\ ~w.moved => \A l \in Block!Lists : w.read[l].was = "answered" => w.read[l].is = Listed(l, w.of)
  /\ w.page # None =>
       /\ \A l \in Block!Lists : w.read[l].was # "unread"
       /\ w.page = IF w.read["arrays"].was = "failed" THEN [error |-> TRUE]
                   ELSE [error |-> FALSE, view |-> Block!View(w.read, w.shelf)]

LEMMA RaidStep ==
  ASSUME card = "raid", RaidTrue(world), Block!Next
  PROVE  RaidTrue(world')
<1>1. ASSUME NEW d \in Block!Drives, Block!Move(d)
      PROVE  RaidTrue(world')
  <2>1. PICK to \in {"nobody", "spare", "member"} :
          world' = [world EXCEPT !.of[d] = to, !.moved = @ \/ world.read # Block!Unread]
    BY <1>1 DEF Block!Move
  <2>2. /\ DOMAIN world' = DOMAIN world /\ world'.read = world.read /\ world'.page = world.page
        /\ world'.shelf = world.shelf /\ world'.of = [world.of EXCEPT ![d] = to]
    BY <2>1 DEF RaidTrue
  <2>3. world'.moved = (world.moved \/ world.read # Block!Unread)
    BY <2>1 DEF RaidTrue
  <2>4. world'.moved \in BOOLEAN
    BY <2>3, Zenon
  <2>5. ASSUME ~world'.moved
        PROVE  \A l \in Block!Lists : world.read[l].was # "answered"
    <3>1. world.read = Block!Unread
      BY <2>3, <2>5, Zenon
    <3> QED
      BY <3>1 DEF Block!Unread
  <2>6. world'.of \in [Block!Drives -> {"nobody", "spare", "member"}]
    BY <2>2 DEF RaidTrue
  <2> QED
    BY <2>2, <2>4, <2>5, <2>6 DEF RaidTrue
<1>2. ASSUME NEW l \in Block!Lists, Block!ReadList(l)
      PROVE  RaidTrue(world')
  <2>1. PICK answered \in BOOLEAN :
          world' = [world EXCEPT !.read[l] =
                      IF ~answered THEN [was |-> "failed", is |-> {}]
                      ELSE [was |-> "answered",
                            is |-> CASE l = "spares" -> Block!Of("spare") [] l = "drives" -> Block!Drives
                                     [] OTHER -> Block!Of("member")]]
    BY <1>2 DEF Block!ReadList
  <2> DEFINE is == CASE l = "spares" -> Block!Of("spare") [] l = "drives" -> Block!Drives
                     [] OTHER -> Block!Of("member")
             new == IF ~answered THEN [was |-> "failed", is |-> {}] ELSE [was |-> "answered", is |-> is]
  <2>2. is = Listed(l, world.of)
    BY DEF Listed, Block!Of
  <2>3. world.page = None
    BY <1>2 DEF Block!ReadList
  <2> HIDE DEF is
  <2>4. /\ new.was \in {"unread", "failed", "answered"} /\ (new.was # "answered" => new.is = {})
        /\ new.was = "answered" => new.is = is
    OBVIOUS
  <2>5. world' = [world EXCEPT !.read[l] = new]
    BY <2>1 DEF is
  <2> HIDE DEF new
  <2>6. /\ DOMAIN world' = DOMAIN world /\ world'.page = None /\ world'.moved = world.moved
        /\ world'.shelf = world.shelf /\ world'.of = world.of
        /\ DOMAIN world'.read = Block!Lists /\ world'.read[l] = new
        /\ \A k \in Block!Lists : k # l => world'.read[k] = world.read[k]
    BY <2>3, <2>5 DEF RaidTrue
  <2> QED
    BY <2>2, <2>4, <2>6 DEF RaidTrue
<1>3. ASSUME Block!RaidAnswer
      PROVE  RaidTrue(world')
  <2> DEFINE p == IF world.read["arrays"].was = "failed" THEN [error |-> TRUE]
                  ELSE [error |-> FALSE, view |-> Block!View(world.read, world.shelf)]
  <2>1. world' = [world EXCEPT !.page = p] /\ \A l \in Block!Lists : world.read[l].was # "unread"
    BY <1>3 DEF Block!RaidAnswer
  <2> HIDE DEF p
  <2>2. /\ DOMAIN world' = DOMAIN world /\ world'.page = p /\ world'.moved = world.moved
        /\ world'.shelf = world.shelf /\ world'.of = world.of /\ world'.read = world.read
    BY <2>1 DEF RaidTrue
  <2> QED
    BY <2>1, <2>2 DEF RaidTrue, p
<1>4. /\ ~Block!Poll /\ ~Block!AskPlacement /\ ~Block!PlacementAges /\ ~Block!Tick
      /\ \A p \in Block!Pages : ~Block!MayAsk(p) /\ ~Block!Digest(p) /\ ~Block!Started(p)
  BY DEF Block!Poll, Block!AskPlacement, Block!PlacementAges, Block!Tick, Block!MayAsk, Block!Digest, Block!Started
<1> QED
  BY <1>1, <1>2, <1>3, <1>4, Zenon DEF Block!Next

LEMMA RaidSays == card = "raid" /\ RaidTrue(world) => Block!FreeIsFree
<1> SUFFICES ASSUME card = "raid", RaidTrue(world), world.page # None, ~world.page.error, ~world.moved
             PROVE  Block!FreeIsFree
  BY DEF Block!FreeIsFree
<1> DEFINE r == world.read
           view == world.page.view
           arrays == r["arrays"].is
<1>1. /\ {"shelves", "arrays", "spares", "drives"} = Block!Lists
      /\ \A l \in Block!Lists : r[l].was \in {"failed", "answered"}
  BY DEF RaidTrue, Block!Lists
<1>2. r["arrays"].was = "answered" /\ view = Block!View(r, world.shelf)
  BY <1>1 DEF RaidTrue
<1>3. /\ arrays = Block!Of("member")
      /\ r["shelves"].was = "answered" => r["shelves"].is = Block!Of("member")
      /\ r["spares"].is = {} \/ r["spares"].is = Block!Of("spare")
      /\ r["spares"].was = "answered" => r["spares"].is = Block!Of("spare")
      /\ r["drives"].was = "answered" => r["drives"].is = Block!Drives
  BY <1>1, <1>2 DEF RaidTrue, Listed, Block!Of
<1>4. /\ view.free = r["drives"].is \ (r["spares"].is \cup arrays)
      /\ view.shelves = IF world.shelf /\ r["shelves"].was = "answered" THEN {Block!SetView(r["shelves"].is)} ELSE {}
      /\ view.arrays = IF world.shelf THEN {} ELSE {Block!SetView(arrays)}
  BY <1>2 DEF Block!View, Block!Default
<1> HIDE DEF view
<1>5. /\ Block!Of("nobody") \cap Block!Of("member") = {} /\ Block!Of("nobody") \cap Block!Of("spare") = {}
      /\ Block!Of("nobody") \subseteq Block!Drives
  BY DEF Block!Of
<1>6. /\ view.free \cap Block!Of("member") = {}
      /\ r["spares"].was = "answered" => view.free \cap Block!Of("spare") = {}
      /\ r["drives"].was = "answered" => Block!Of("nobody") \subseteq view.free
  BY <1>3, <1>4, <1>5
<1>7. view.shelves \cup view.arrays \subseteq {Block!SetView(Block!Of("member"))}
  BY <1>3, <1>4
<1>8. ASSUME r["shelves"].was = "answered"
      PROVE  Cardinality(view.shelves) + Cardinality(view.arrays) = 1
  <2> DEFINE one == Block!SetView(r["shelves"].is)
             other == Block!SetView(arrays)
  <2>1. Cardinality({}) = 0 /\ Cardinality({one}) = 1 /\ Cardinality({other}) = 1
    BY FS_EmptySet, FS_Singleton
  <2>2. world.shelf \in BOOLEAN
    BY DEF RaidTrue
  <2> HIDE DEF one, other
  <2>3. CASE world.shelf
    <3>1. view.arrays = {} /\ view.shelves = {one}
      BY <1>4, <1>8, <2>3 DEF one
    <3> QED
      BY <2>1, <3>1
  <2>4. CASE ~world.shelf
    <3>1. view.shelves = {} /\ view.arrays = {other}
      BY <1>4, <1>8, <2>4 DEF other
    <3> QED
      BY <2>1, <3>1
  <2> QED
    BY <2>2, <2>3, <2>4
<1> QED
  BY <1>6, <1>7, <1>8 DEF Block!FreeIsFree, Block!Cardinality, Cardinality, view

\* What was kept of the engine's placements is those placements, turned inside out.
PlacementTrue(w) ==
  /\ DOMAIN w = {"on", "kept"}
  /\ w.on \in [Block!Volumes -> {None} \cup [Block!Drives -> SUBSET {"ok", "failed", "draining"}]]
  /\ w.kept # None /\ ~w.kept.error => w.kept.by = Block!ByDrive(w.on)

LEMMA PlacementStep ==
  ASSUME card = "placement", PlacementTrue(world), Block!Next
  PROVE  PlacementTrue(world')
<1>1. ASSUME Block!AskPlacement
      PROVE  PlacementTrue(world')
  <2>1. PICK answered \in BOOLEAN :
          world' = [world EXCEPT !.kept = IF answered THEN [error |-> FALSE, by |-> Block!ByDrive(world.on)]
                                          ELSE [error |-> TRUE, by |-> [placed |-> 0, drives |-> <<>>]]]
    BY <1>1, Zenon DEF Block!AskPlacement
  <2> DEFINE kept == IF answered THEN [error |-> FALSE, by |-> Block!ByDrive(world.on)]
                     ELSE [error |-> TRUE, by |-> [placed |-> 0, drives |-> <<>>]]
  <2>2. ~kept.error => kept.by = Block!ByDrive(world.on)
    OBVIOUS
  <2>3. world' = [world EXCEPT !.kept = kept]
    BY <2>1
  <2> HIDE DEF kept
  <2>4. DOMAIN world' = DOMAIN world /\ world'.on = world.on /\ world'.kept = kept
    BY <2>3 DEF PlacementTrue
  <2> QED
    BY <2>2, <2>4 DEF PlacementTrue
<1>2. ASSUME Block!PlacementAges
      PROVE  PlacementTrue(world')
  BY <1>2 DEF PlacementTrue, Block!PlacementAges
<1>3. /\ ~Block!Poll /\ ~Block!RaidAnswer /\ ~Block!Tick
      /\ \A d \in Block!Drives : ~Block!Move(d)
      /\ \A l \in Block!Lists : ~Block!ReadList(l)
      /\ \A p \in Block!Pages : ~Block!MayAsk(p) /\ ~Block!Digest(p) /\ ~Block!Started(p)
  BY DEF Block!Poll, Block!RaidAnswer, Block!Move, Block!ReadList, Block!Tick, Block!MayAsk, Block!Digest, Block!Started
<1> QED
  BY <1>1, <1>2, <1>3, Zenon DEF Block!Next

LEMMA PlacementSays == card = "placement" /\ PlacementTrue(world) => Block!PlacedIsThere
<1> SUFFICES ASSUME card = "placement", PlacementTrue(world), world.kept # None, ~world.kept.error
             PROVE  Block!PlacedIsThere
  BY DEF Block!PlacedIsThere
<1> DEFINE on == world.on
           by == world.kept.by
           placed == {v \in Block!Volumes : on[v] # None}
           at(d) == {v \in placed : on[v][d] # {}}
           row(v, d) == [volume |-> v, state |-> Block!WorstOf(on[v][d])]
<1>1. /\ by = Block!ByDrive(on)
      /\ on \in [Block!Volumes -> {None} \cup [Block!Drives -> SUBSET {"ok", "failed", "draining"}]]
  BY DEF PlacementTrue
<1>2. by = [placed |-> Cardinality(placed),
            drives |-> [d \in {x \in Block!Drives : at(x) # {}} |-> {row(v, d) : v \in at(d)}]]
  BY <1>1, Zenon DEF Block!ByDrive, Block!Cardinality, Cardinality
<1>3. by.placed = Cardinality(placed)
  BY <1>2
<1>4. /\ DOMAIN by.drives = {x \in Block!Drives : at(x) # {}}
      /\ \A d \in Block!Drives : at(d) # {} => by.drives[d] = {row(v, d) : v \in at(d)}
  BY <1>2
<1> HIDE DEF by, row
<1>5. ASSUME by.placed = 0, NEW v \in Block!Volumes
      PROVE  on[v] = None
  <2>1. IsFiniteSet(placed)
    <3>1. Block!Volumes = {1} \cup {2}
      BY DEF Block!Volumes
    <3>2. IsFiniteSet({1} \cup {2})
      BY FS_Singleton, FS_Union
    <3> QED
      BY <3>1, <3>2, FS_Subset
  <2>2. placed = {}
    BY <1>3, <1>5, <2>1, FS_EmptySet
  <2> QED
    BY <2>2
<1>6. ASSUME NEW v \in Block!Volumes, NEW d \in Block!Drives
      PROVE  LET slabs == IF on[v] = None THEN {} ELSE on[v][d]
                 here  == IF d \in DOMAIN by.drives THEN {r \in by.drives[d] : r.volume = v} ELSE {}
             IN  /\ Cardinality(here) = (IF slabs = {} THEN 0 ELSE 1)
                 /\ \A r \in here : r.state = "ok" => slabs = {"ok"}
  <2> DEFINE slabs == IF on[v] = None THEN {} ELSE on[v][d]
             here  == IF d \in DOMAIN by.drives THEN {r \in by.drives[d] : r.volume = v} ELSE {}
  <2>1. v \in at(d) <=> slabs # {}
    OBVIOUS
  <2>2. \A x : row(x, d).volume = x /\ row(x, d).state = Block!WorstOf(on[x][d])
    BY DEF row
  <2>3. CASE slabs = {}
    <3>1. v \notin at(d)
      BY <2>1, <2>3
    <3> HIDE DEF at
    <3>2. here = {}
      BY <1>4, <2>2, <3>1
    <3> HIDE DEF here, slabs
    <3>3. Cardinality(here) = 0 /\ here = {}
      BY <3>2, FS_EmptySet
    <3> QED
      BY <2>3, <3>3 DEF here, slabs
  <2>4. CASE slabs # {}
    <3>1. v \in at(d) /\ slabs = on[v][d] /\ slabs \subseteq {"ok", "failed", "draining"}
      BY <1>1, <2>1, <2>4
    <3> HIDE DEF at
    <3>2. here = {row(v, d)}
      <4>1. d \in DOMAIN by.drives /\ by.drives[d] = {row(x, d) : x \in at(d)}
        BY <1>4, <3>1
      <4> QED
        BY <2>2, <3>1, <4>1
    <3> HIDE DEF here, slabs
    <3>3. Block!WorstOf(slabs) = "ok" => slabs = {"ok"}
      BY <2>4, <3>1 DEF Block!WorstOf
    <3>4. row(v, d).state = Block!WorstOf(slabs)
      BY <2>2, <3>1
    <3>5. Cardinality(here) = 1
      BY <3>2, FS_Singleton
    <3>6. Cardinality(here) = (IF slabs = {} THEN 0 ELSE 1)
      BY <2>4, <3>5
    <3>7. \A r \in here : r.state = "ok" => slabs = {"ok"}
      BY <3>2, <3>3, <3>4
    <3> QED
      BY <3>6, <3>7 DEF here, slabs
  <2> QED
    BY <2>3, <2>4
<1> QED
  BY <1>5, <1>6, Zenon DEF Block!PlacedIsThere, Block!Cardinality, Cardinality, by

\* The pages of the engine but its polls.
EngineInv ==
  /\ card = "raid" => RaidTrue(world)
  /\ card = "placement" => PlacementTrue(world)
  /\ card = "digest" => DigestTrue(world)

LEMMA EngineStep ==
  /\ Block!Init => EngineInv
  /\ EngineInv /\ Block!Next => EngineInv'
<1>1. ASSUME Block!Init
      PROVE  EngineInv
  <2>1. ASSUME card = "raid"
        PROVE  RaidTrue(world)
    <3>1. PICK of \in [Block!Drives -> {"nobody", "spare", "member"}], shelf \in BOOLEAN :
            world = [of |-> of, shelf |-> shelf, read |-> Block!Unread, moved |-> FALSE, page |-> None]
      BY <1>1, <2>1 DEF Block!Init
    <3>2. /\ DOMAIN world = {"of", "shelf", "read", "moved", "page"} /\ world.of = of /\ world.shelf = shelf
          /\ world.read = Block!Unread /\ world.moved = FALSE /\ world.page = None
      BY <3>1
    <3>3. /\ DOMAIN Block!Unread = Block!Lists
          /\ \A l \in Block!Lists : Block!Unread[l].was = "unread" /\ Block!Unread[l].is = {}
      BY DEF Block!Unread
    <3>4. world.moved \in BOOLEAN
      BY <3>2, Zenon
    <3> QED
      BY <3>2, <3>3, <3>4 DEF RaidTrue
  <2>2. ASSUME card = "placement"
        PROVE  PlacementTrue(world)
    <3>1. PICK on \in [Block!Volumes -> {None} \cup [Block!Drives -> SUBSET {"ok", "failed", "draining"}]] :
            world = [on |-> on, kept |-> None]
      BY <1>1, <2>2 DEF Block!Init
    <3> QED
      BY <3>1 DEF PlacementTrue
  <2>3. ASSUME card = "digest"
        PROVE  DigestTrue(world)
    <3>1. world = [clock |-> 0, held |-> None, gave |-> None,
                   ask |-> [p \in Block!Pages |-> [at |-> None, after |-> None]]]
      BY <1>1, <2>3 DEF Block!Init
    <3> QED
      BY <3>1 DEF DigestTrue
  <2> QED
    BY <2>1, <2>2, <2>3 DEF EngineInv
<1>2. ASSUME EngineInv, Block!Next
      PROVE  EngineInv'
  <2>1. card' = card
    BY <1>2, Zenon DEF Block!Next, Block!Poll, Block!Move, Block!ReadList, Block!RaidAnswer, Block!AskPlacement,
         Block!PlacementAges, Block!MayAsk, Block!Digest, Block!Started, Block!Tick
  <2>2. ASSUME card = "digest"
        PROVE  DigestTrue(world')
    <3>1. DigestTrue(world)
      BY <1>2, <2>2 DEF EngineInv
    <3>2. ASSUME NEW p \in Block!Pages, Block!MayAsk(p)
          PROVE  DigestTrue(world')
      <4> DEFINE left == IF world.held # None /\ world.clock - world.held >= Block!Hold THEN None ELSE world.held
      <4>1. /\ left = None
            /\ world' = [world EXCEPT !.held = left, !.ask[p] = [at |-> world.clock, after |-> world.gave]]
        BY <3>2, Zenon DEF Block!MayAsk
      <4> HIDE DEF left
      <4>2. left = IF world.held # None /\ world.clock - world.held >= Block!Hold THEN None ELSE world.held
        BY Zenon DEF left
      <4> QED
        BY <3>1, <4>1, <4>2, DigestAsked
    <3>3. ASSUME NEW p \in Block!Pages, Block!Digest(p) \/ Block!Started(p)
          PROVE  DigestTrue(world')
      <4>1. /\ DigestTrue([world EXCEPT !.ask[p] = [at |-> None, after |-> None]])
            /\ DigestTrue([world EXCEPT !.held = world.ask[p].at, !.ask[p] = [at |-> None, after |-> None],
                                        !.gave = IF @ = None \/ @ < world.ask[p].at THEN world.ask[p].at ELSE @])
        BY <3>1, <3>3, DigestEnds DEF Block!Digest, Block!Started
      <4> QED
        BY <3>3, <4>1, Zenon DEF Block!Digest, Block!Started
    <3>4. ASSUME Block!Tick
          PROVE  DigestTrue(world')
      BY <3>1, <3>4, DigestTicks DEF Block!Tick
    <3>5. /\ ~Block!Poll /\ ~Block!AskPlacement /\ ~Block!PlacementAges /\ ~Block!RaidAnswer
          /\ \A d \in Block!Drives : ~Block!Move(d)
          /\ \A l \in Block!Lists : ~Block!ReadList(l)
      BY <2>2 DEF Block!Poll, Block!AskPlacement, Block!PlacementAges, Block!RaidAnswer, Block!Move, Block!ReadList
    <3> QED
      BY <1>2, <3>2, <3>3, <3>4, <3>5, Zenon DEF Block!Next
  <2>3. card = "raid" => RaidTrue(world')
    BY <1>2, RaidStep DEF EngineInv
  <2>4. card = "placement" => PlacementTrue(world')
    BY <1>2, PlacementStep DEF EngineInv
  <2> QED
    BY <2>1, <2>2, <2>3, <2>4 DEF EngineInv
<1> QED
  BY <1>1, <1>2

LEMMA EngineSays == EngineInv => Block!FreeIsFree /\ Block!PlacedIsThere /\ Block!LeftAlone
<1> SUFFICES ASSUME EngineInv
             PROVE  Block!FreeIsFree /\ Block!PlacedIsThere /\ Block!LeftAlone
  OBVIOUS
<1>1. Block!FreeIsFree
  BY RaidSays DEF EngineInv, Block!FreeIsFree
<1>2. Block!PlacedIsThere
  BY PlacementSays DEF EngineInv, Block!PlacedIsThere
<1>3. Block!LeftAlone
  <2>1. card = "digest" => DigestTrue(world)
    BY DEF EngineInv
  <2> QED
    BY <2>1 DEF DigestTrue, Block!LeftAlone
<1> QED
  BY <1>1, <1>2, <1>3

\* The node's history: nothing is read of a volume but while it is not paused, and a node
\* that keeps records was one from the start.
HistoryInv ==
  card = "volume" =>
    /\ DOMAIN world = {"disk", "paused", "available", "asked"}
    /\ world.disk = "records" => world.available /\ (world.asked # None => world.asked.available)

LEMMA HistoryStep ==
  /\ History!Init => HistoryInv
  /\ HistoryInv /\ History!Next => HistoryInv'
<1>1. ASSUME History!Init
      PROVE  HistoryInv
  <2> SUFFICES ASSUME card = "volume"
               PROVE  HistoryInv
    BY DEF HistoryInv
  <2>1. PICK disk \in {"records", "empty", "gone"} :
          world = [disk |-> disk, paused |-> FALSE, available |-> disk = "records", asked |-> None]
    BY <1>1 DEF History!Init
  <2>2. DOMAIN world = {"disk", "paused", "available", "asked"} /\ world.disk = disk /\ world.asked = None
    BY <2>1
  <2>3. world.available = (disk = "records")
    BY <2>1
  <2>4. disk = "records" => world.available
    BY <2>3, Zenon
  <2> QED
    BY <2>2, <2>4 DEF HistoryInv
<1>2. ASSUME HistoryInv, History!Next
      PROVE  HistoryInv'
  <2>1. CASE card # "volume"
    <3>1. ~History!Pause /\ ~History!Refresh /\ ~History!Ask
      BY <2>1 DEF History!Pause, History!Refresh, History!Ask
    <3>2. card' = card
      BY <1>2, <3>1, Zenon DEF History!Next, History!Begin, History!Start, History!ShutDown, History!AppendLine,
           History!TearLine, History!FinishLine, History!NextMonth, History!Write, History!Change, History!Becomes,
           History!Rewrite, History!Unreadable, History!Pass, History!Poll
    <3> QED
      BY <2>1, <3>2 DEF HistoryInv
  <2>2. CASE card = "volume"
    <3>1. /\ DOMAIN world = {"disk", "paused", "available", "asked"}
          /\ world.disk = "records" => world.available /\ (world.asked # None => world.asked.available)
      BY <1>2, <2>2 DEF HistoryInv
    <3>2. ASSUME History!Pause
          PROVE  HistoryInv'
      <4>1. world' = [world EXCEPT !.paused = ~@]
        BY <3>2 DEF History!Pause
      <4> QED
        BY <3>1, <4>1 DEF HistoryInv
    <3>3. ASSUME History!Refresh
          PROVE  HistoryInv'
      <4>1. world' = [world EXCEPT !.available = IF world.paused THEN world.available ELSE History!Available(world)]
        BY <3>3 DEF History!Refresh
      <4>2. /\ DOMAIN world' = DOMAIN world /\ world'.disk = world.disk /\ world'.asked = world.asked
            /\ world'.available = IF world.paused THEN world.available ELSE History!Available(world)
        BY <3>1, <4>1
      <4>3. world'.disk = "records" => world'.available
        BY <3>1, <4>2, Zenon DEF History!Available
      <4> QED
        BY <3>1, <4>2, <4>3 DEF HistoryInv
    <3>4. ASSUME History!Ask
          PROVE  HistoryInv'
      <4>1. PICK what : world' = [world EXCEPT !.asked = History!Answer(world, what)]
        BY <3>4 DEF History!Ask
      <4> DEFINE said(status, available) == [status |-> status, available |-> available]
      <4>2. /\ DOMAIN world' = DOMAIN world /\ world'.disk = world.disk /\ world'.available = world.available
            /\ world'.asked = History!Answer(world, what)
        BY <3>1, <4>1
      <4>3. world.disk = "records" => History!Answer(world, what).available
        <5> SUFFICES ASSUME world.disk = "records"
                     PROVE  History!Answer(world, what).available
          OBVIOUS
        <5>1. History!Available(world)
          BY DEF History!Available
        <5>2. \E status : History!Answer(world, what) = [status |-> status, available |-> TRUE]
          <6>1. CASE world.paused
            <7>1. History!Answer(world, what) = [status |-> "503", available |-> TRUE]
              BY <6>1 DEF History!Answer
            <7> QED
              BY <7>1
          <6>2. CASE ~world.paused /\ what = "list"
            <7>1. History!Answer(world, what) = [status |-> "200", available |-> TRUE]
              BY <5>1, <6>2 DEF History!Answer, History!Available
            <7> QED
              BY <7>1
          <6>3. CASE ~world.paused /\ what # "list"
            <7>1. History!Answer(world, what) = [status |-> History!Missed(what), available |-> TRUE]
              BY <5>1, <6>3 DEF History!Answer
            <7> QED
              BY <7>1
          <6> QED
            BY <6>1, <6>2, <6>3
        <5> QED
          BY <5>2
      <4> QED
        BY <3>1, <4>2, <4>3 DEF HistoryInv
    <3>5. /\ ~History!Begin /\ ~History!Start /\ ~History!ShutDown /\ ~History!AppendLine /\ ~History!TearLine
          /\ ~History!FinishLine /\ ~History!NextMonth /\ ~History!Change /\ ~History!Rewrite /\ ~History!Unreadable
          /\ ~History!Pass /\ ~History!Poll
      BY <2>2, Zenon DEF History!Begin, History!Start, History!ShutDown, History!AppendLine,
           History!TearLine, History!FinishLine, History!NextMonth, History!Write, History!Change, History!Becomes,
           History!Rewrite, History!Unreadable, History!Pass, History!Poll
    <3> QED
      BY <1>2, <3>2, <3>3, <3>4, <3>5, Zenon DEF History!Next
  <2> QED
    BY <2>1, <2>2
<1> QED
  BY <1>1, <1>2

LEMMA HistorySays == HistoryInv => History!RecordsAreKnown
  BY DEF HistoryInv, History!RecordsAreKnown

\* The page of a poll: of the volumes, and of the lists of sets and of slabs that came.
PollPage(w, sets, slots) ==
  LET rows == [v \in Block!Volumes |-> Block!VolumeRow(w.vols[v])] IN
  [health |-> Block!EngineHealth(rows, Block!Worst(sets)), rows |-> rows, raid |-> Block!Worst(sets),
   sets |-> [i \in DOMAIN sets |-> Block!RaidHealth(sets[i])],
   slabs |-> [i \in DOMAIN slots |-> Block!SlabHealth(slots[i])], use |-> Block!DriveUse(slots),
   drive |-> Block!DriveRow(w.drive),
   members |-> IF sets = <<>> THEN {} ELSE {Block!MemberRow(w.member)}]

PollTyped(w) ==
  /\ DOMAIN w = {"vols", "sets", "slabs", "drive", "member", "raid", "page"}
  /\ \A v \in Block!Volumes : w.vols[v] \in Block!EngineVolumes
  /\ DOMAIN w.sets = 1..2 /\ \A i \in 1..2 : w.sets[i] \in Block!SetStates \cup {None}
  /\ DOMAIN w.slabs = 1..2 /\ \A i \in 1..2 : w.slabs[i] \in Block!Slabs

PollShows(w, sets, slots) ==
  /\ sets \in {<<>>, w.sets} /\ slots \in {<<>>, w.slabs}
  /\ w.page = PollPage(w, sets, slots) /\ w.raid = Block!Worst(sets)

PollTrue(w) ==
  /\ PollTyped(w)
  /\ w.page # None => \/ w.page = [health |-> "error", rows |-> <<>>]
                      \/ \E sets, slots : PollShows(w, sets, slots)

PollInv == card = "poll" => PollTrue(world)

LEMMA PolledIsTyped ==
  ASSUME NEW vol1 \in Block!EngineVolumes, NEW vol2 \in Block!EngineVolumes,
         NEW set1 \in Block!SetStates \cup {None}, NEW set2 \in Block!SetStates \cup {None},
         NEW slab1 \in Block!Slabs, NEW slab2 \in Block!Slabs, NEW drive, NEW member,
         NEW w, w = Block!Polled(<<vol1, vol2>>, <<set1, set2>>, <<slab1, slab2>>, drive, member)
  PROVE  PollTyped(w) /\ w.page = None
<1>1. /\ DOMAIN w = {"vols", "sets", "slabs", "drive", "member", "raid", "page"}
      /\ w.vols = <<vol1, vol2>> /\ w.sets = <<set1, set2>> /\ w.slabs = <<slab1, slab2>> /\ w.page = None
  BY DEF Block!Polled
<1>2. Block!Volumes = {1, 2} /\ 1..2 = {1, 2}
  BY DEF Block!Volumes
<1>3. \A v \in Block!Volumes : w.vols[v] \in Block!EngineVolumes
  BY <1>1, <1>2
<1>4. DOMAIN w.sets = 1..2 /\ \A i \in 1..2 : w.sets[i] \in Block!SetStates \cup {None}
  BY <1>1, <1>2
<1>5. DOMAIN w.slabs = 1..2 /\ \A i \in 1..2 : w.slabs[i] \in Block!Slabs
  BY <1>1, <1>2
<1> QED
  BY <1>1, <1>3, <1>4, <1>5 DEF PollTyped

LEMMA QuietIsPolled ==
  /\ Block!QuietVolume \in Block!EngineVolumes
  /\ Block!QuietSlab \in Block!Slabs
  /\ Block!EngineSlabs \subseteq Block!Slabs
<1>1. Block!QuietVolume \in Block!EngineVolumes
  <2>1. [kind |-> "volume", sealed |-> FALSE, parent |-> FALSE, use |-> TRUE, served |-> TRUE, health |-> "healthy"]
          \in [kind : {"volume", "golden"}, sealed : {FALSE}, parent : BOOLEAN, use : BOOLEAN, served : BOOLEAN,
               health : {"healthy", "degraded"}]
    OBVIOUS
  <2> QED
    BY <2>1, Zenon DEF Block!QuietVolume, Block!EngineVolumes
<1>2. Block!QuietSlab \in Block!Slabs
  <2>1. [total |-> 100, free |-> 15, serial |-> "s1"] \in [total : {0, 100}, free : {0, 4, 14, 15}, serial : {None, "s1", "s2"}]
    OBVIOUS
  <2> QED
    BY <2>1 DEF Block!QuietSlab, Block!Slabs
<1> QED
  BY <1>1, <1>2 DEF Block!EngineSlabs

LEMMA PollInvStep ==
  /\ Block!Init => PollInv
  /\ PollInv /\ Block!Next => PollInv'
<1>1. ASSUME Block!Init, card = "poll"
      PROVE  PollTrue(world)
  <2>1. "clean" \in Block!SetStates \cup {None}
    BY DEF Block!SetStates
  <2>2. CASE \E vol \in Block!EngineVolumes, set \in Block!SetStates \cup {None} :
               world = Block!Polled(<<vol, Block!QuietVolume>>, <<set, "clean">>,
                                    <<Block!QuietSlab, Block!QuietSlab>>, Block!QuietDrive, "active")
    BY <2>1, <2>2, PolledIsTyped, QuietIsPolled DEF PollTrue
  <2>3. CASE \E set1, set2 \in Block!SetStates \cup {None}, member \in Block!Members, drive \in Block!EngineDrives :
               world = Block!Polled(<<Block!QuietVolume, Block!QuietVolume>>, <<set1, set2>>,
                                    <<Block!QuietSlab, Block!QuietSlab>>, drive, member)
    BY <2>1, <2>3, PolledIsTyped, QuietIsPolled DEF PollTrue
  <2>4. CASE \E slab1, slab2 \in Block!EngineSlabs :
               world = Block!Polled(<<Block!QuietVolume, Block!QuietVolume>>, <<"clean", "clean">>,
                                    <<slab1, slab2>>, Block!QuietDrive, "active")
    <3>1. PICK slab1 \in Block!EngineSlabs, slab2 \in Block!EngineSlabs :
            world = Block!Polled(<<Block!QuietVolume, Block!QuietVolume>>, <<"clean", "clean">>,
                                 <<slab1, slab2>>, Block!QuietDrive, "active")
      BY <2>4, Zenon
    <3>2. slab1 \in Block!Slabs /\ slab2 \in Block!Slabs
      BY QuietIsPolled
    <3>3. PollTyped(world) /\ world.page = None
      BY <2>1, <3>1, <3>2, PolledIsTyped, QuietIsPolled
    <3> QED
      BY <3>3, Zenon DEF PollTrue
  <2> QED
    BY <1>1, <2>2, <2>3, <2>4, Zenon DEF Block!Init
<1>2. ASSUME PollTrue(world), Block!Poll
      PROVE  PollTrue(world')
  <2>1. PICK volumes, arrays, slabs \in BOOLEAN :
          LET sets == IF arrays THEN world.sets ELSE <<>>
              slots == IF slabs THEN world.slabs ELSE <<>>
              rows == [v \in Block!Volumes |-> Block!VolumeRow(world.vols[v])]
          IN  world' = IF ~volumes THEN [world EXCEPT !.page = [health |-> "error", rows |-> <<>>]]
                       ELSE [world EXCEPT
                               !.raid = Block!Worst(sets),
                               !.page = [health |-> Block!EngineHealth(rows, Block!Worst(sets)), rows |-> rows,
                                         raid |-> Block!Worst(sets),
                                         sets |-> [i \in DOMAIN sets |-> Block!RaidHealth(sets[i])],
                                         slabs |-> [i \in DOMAIN slots |-> Block!SlabHealth(slots[i])],
                                         use |-> Block!DriveUse(slots),
                                         drive |-> Block!DriveRow(world.drive),
                                         members |-> IF arrays THEN {Block!MemberRow(world.member)} ELSE {}]]
    BY <1>2, Zenon DEF Block!Poll
  <2>2. CASE ~volumes
    <3>1. world' = [world EXCEPT !.page = [health |-> "error", rows |-> <<>>]]
      BY <2>1, <2>2
    <3> DEFINE p == [health |-> "error", rows |-> <<>>]
    <3> HIDE DEF p
    <3>2. /\ DOMAIN world' = DOMAIN world /\ world'.page = p /\ world'.vols = world.vols
          /\ world'.sets = world.sets /\ world'.slabs = world.slabs
      BY <1>2, <3>1 DEF PollTrue, PollTyped, p
    <3>3. PollTyped(world')
      BY <1>2, <3>2 DEF PollTrue, PollTyped
    <3>4. world'.page = [health |-> "error", rows |-> <<>>]
      BY <3>2 DEF p
    <3> QED
      BY <3>3, <3>4 DEF PollTrue
  <2>3. CASE volumes
    <3> DEFINE sets == IF arrays THEN world.sets ELSE <<>>
               slots == IF slabs THEN world.slabs ELSE <<>>
               rows == [v \in Block!Volumes |-> Block!VolumeRow(world.vols[v])]
               p == [health |-> Block!EngineHealth(rows, Block!Worst(sets)), rows |-> rows,
                     raid |-> Block!Worst(sets),
                     sets |-> [i \in DOMAIN sets |-> Block!RaidHealth(sets[i])],
                     slabs |-> [i \in DOMAIN slots |-> Block!SlabHealth(slots[i])],
                     use |-> Block!DriveUse(slots),
                     drive |-> Block!DriveRow(world.drive),
                     members |-> IF arrays THEN {Block!MemberRow(world.member)} ELSE {}]
               r == Block!Worst(sets)
    <3>1. world' = [world EXCEPT !.raid = r, !.page = p]
      BY <2>1, <2>3, Zenon
    <3>2. sets \in {<<>>, world.sets} /\ slots \in {<<>>, world.slabs}
      OBVIOUS
    <3>3. arrays <=> sets # <<>>
      <4>1. DOMAIN world.sets = 1..2 /\ DOMAIN <<>> = {} /\ 1 \in 1..2
        BY <1>2 DEF PollTrue, PollTyped
      <4>2. world.sets # <<>>
        BY <4>1
      <4> QED
        BY <4>2
    <3>4. p = PollPage(world, sets, slots)
      <4>1. (IF arrays THEN {Block!MemberRow(world.member)} ELSE {}) = IF sets = <<>> THEN {} ELSE {Block!MemberRow(world.member)}
        BY <3>3
      <4> QED
        BY <4>1, Zenon DEF PollPage
    <3> HIDE DEF sets, slots, rows, p, r
    <3>5. /\ DOMAIN world' = DOMAIN world /\ world'.page = p /\ world'.raid = r
          /\ world'.vols = world.vols /\ world'.sets = world.sets /\ world'.slabs = world.slabs
          /\ world'.drive = world.drive /\ world'.member = world.member
      BY <1>2, <3>1 DEF PollTrue, PollTyped
    <3>6. PollTyped(world')
      BY <1>2, <3>5 DEF PollTrue, PollTyped
    <3>7. PollPage(world', sets, slots) = PollPage(world, sets, slots)
      BY <3>5, Zenon DEF PollPage
    <3>8. PollShows(world', sets, slots)
      BY <3>2, <3>4, <3>5, <3>7, Zenon DEF PollShows, r
    <3> QED
      BY <3>6, <3>8 DEF PollTrue
  <2> QED
    BY <2>2, <2>3
<1>3. ASSUME Block!Next, ~Block!Poll
      PROVE  card # "poll" /\ card' = card
  BY <1>3, Zenon DEF Block!Next, Block!Move, Block!ReadList, Block!RaidAnswer, Block!AskPlacement,
     Block!PlacementAges, Block!MayAsk, Block!Digest, Block!Started, Block!Tick
<1>4. Block!Poll => card = "poll" /\ card' = card
  BY DEF Block!Poll
<1> QED
  BY <1>1, <1>2, <1>3, <1>4 DEF PollInv

\* The set that is named is as bad as any that says its state.
LEMMA WorstIsBad ==
  ASSUME NEW sets, DOMAIN sets = 1..2, \A i \in 1..2 : sets[i] \in Block!SetStates \cup {None},
         NEW i \in 1..2
  PROVE  /\ Block!RaidHealth(sets[i]) = "error" => Block!RaidHealth(Block!Worst(sets)) = "error"
         /\ Block!RaidHealth(sets[i]) = "warn" => Block!RaidHealth(Block!Worst(sets)) \in {"warn", "error"}
         /\ Block!RaidHealth(sets[i]) \in {"ok", "warn", "error"}
<1> DEFINE say == {j \in DOMAIN sets : sets[j] # None}
           bad == {k \in say : \A j \in say : Block!Rank(sets[j]) <= Block!Rank(sets[k])}
           c == CHOOSE k \in bad : \A j \in bad : j <= k
<1>1. 1..2 = {1, 2} /\ say \subseteq {1, 2} /\ bad \subseteq say
  OBVIOUS
<1>2. \A j \in say : sets[j] \in Block!SetStates
  OBVIOUS
<1>3. \A s \in Block!SetStates : Block!Rank(s) \in 0..3
  BY DEF Block!Rank, Block!SetStates
<1>4. Block!Worst(sets) = IF say = {} THEN None ELSE sets[c]
  BY Zenon DEF Block!Worst
<1>5. CASE sets[i] = None
  <2>1. Block!RaidHealth(sets[i]) = "ok"
    BY <1>5, NoneAssumption DEF Block!RaidHealth
  <2> QED
    BY <2>1
<1>6. CASE sets[i] # None
  <2>1. i \in say
    BY <1>6
  <2>2. \E k \in say : \A j \in say : Block!Rank(sets[j]) <= Block!Rank(sets[k])
    <3> HIDE DEF say
    <3>1. \A j \in say : Block!Rank(sets[j]) \in 0..3
      BY <1>2, <1>3
    <3> QED
      BY <1>1, <2>1, <3>1
  <2>3. bad # {}
    BY <2>2
  <2> HIDE DEF bad, say
  <2>4. \E k \in bad : \A j \in bad : j <= k
    <3>1. bad \subseteq {1, 2}
      BY <1>1
    <3>2. CASE 2 \in bad
      BY <3>1, <3>2
    <3>3. CASE 2 \notin bad
      <4>1. bad = {1}
        BY <2>3, <3>1, <3>3
      <4> QED
        BY <4>1
    <3> QED
      BY <3>2, <3>3
  <2>5. c \in bad
    BY <2>4
  <2>6. /\ c \in say /\ sets[c] \in Block!SetStates /\ sets[i] \in Block!SetStates
        /\ Block!Rank(sets[i]) <= Block!Rank(sets[c])
    BY <1>1, <1>2, <2>1, <2>5 DEF bad
  <2> HIDE DEF c
  <2>7. Block!Worst(sets) = sets[c]
    BY <1>4, <2>1
  <2>8. \A a, b \in Block!SetStates : Block!Rank(a) <= Block!Rank(b) =>
          /\ Block!RaidHealth(a) = "error" => Block!RaidHealth(b) = "error"
          /\ Block!RaidHealth(a) = "warn" => Block!RaidHealth(b) \in {"warn", "error"}
          /\ Block!RaidHealth(a) \in {"ok", "warn", "error"}
    <3>1. /\ Block!Rank("failed") = 3 /\ Block!Rank("degraded") = 2
          /\ Block!Rank("rebuilding") = 1 /\ Block!Rank("clean") = 0
      BY DEF Block!Rank
    <3>2. /\ Block!RaidHealth("failed") = "error" /\ Block!RaidHealth("degraded") = "warn"
          /\ Block!RaidHealth("rebuilding") = "warn" /\ Block!RaidHealth("clean") = "ok"
      BY NoneAssumption DEF Block!RaidHealth
    <3>3. Block!SetStates = {"clean", "rebuilding", "degraded", "failed"}
      BY DEF Block!SetStates
    <3> QED
      BY <3>1, <3>2, <3>3
  <2> QED
    BY <2>6, <2>7, <2>8
<1> QED
  BY <1>5, <1>6

LEMMA CloneIsNoImage ==
  ASSUME NEW v \in Block!EngineVolumes, Block!VolumeKind(v) = "clone"
  PROVE  Block!Place(v) # "image"
<1>1. CASE v.kind # None
  <2>1. v.kind \in {"volume", "golden"} /\ v.use \in BOOLEAN
    BY <1>1 DEF Block!EngineVolumes
  <2>2. v.kind = "volume"
    BY <1>1, <2>1 DEF Block!VolumeKind
  <2> QED
    BY <1>1, <2>1, <2>2, NoneAssumption DEF Block!Place
<1>2. CASE v.kind = None
  <2>1. v.sealed \in BOOLEAN /\ v.use \in BOOLEAN \cup {None}
    BY <1>2 DEF Block!EngineVolumes
  <2>2. ~v.sealed
    BY <1>2, <2>1, NoneAssumption DEF Block!VolumeKind
  <2> QED
    BY <1>2, <2>1, <2>2 DEF Block!Place
<1> QED
  BY <1>1, <1>2

\* Of the drives, none has more free than all the slabs.
LEMMA UseIsOfSlabs ==
  ASSUME NEW slabs, DOMAIN slabs = 1..2, \A i \in 1..2 : slabs[i] \in Block!Slabs
  PROVE  /\ \A s \in DOMAIN Block!DriveUse(slabs) : Block!DriveUse(slabs)[s].free <= slabs[1].free + slabs[2].free
         /\ \A i \in 1..2 : slabs[i].serial # None => slabs[i].serial \in DOMAIN Block!DriveUse(slabs)
<1> DEFINE serials == {slabs[i].serial : i \in DOMAIN slabs} \ {None}
           mine(s) == {i \in DOMAIN slabs : slabs[i].serial = s}
           use(s) == [slabs |-> Cardinality(mine(s)),
                      free |-> (IF 1 \in mine(s) THEN slabs[1].free ELSE 0) + (IF 2 \in mine(s) THEN slabs[2].free ELSE 0)]
<1>1. Block!DriveUse(slabs) = [s \in serials |-> use(s)]
  BY Zenon DEF Block!DriveUse, Block!Cardinality, Cardinality
<1>2. slabs[1].free \in Nat /\ slabs[2].free \in Nat
  <2>1. \A x \in Block!Slabs : x.free \in Nat
    BY DEF Block!Slabs
  <2> QED
    BY <2>1
<1>3. \A s : use(s).free <= slabs[1].free + slabs[2].free
  <2> TAKE s
  <2>1. use(s).free = (IF 1 \in mine(s) THEN slabs[1].free ELSE 0) + (IF 2 \in mine(s) THEN slabs[2].free ELSE 0)
    OBVIOUS
  <2> HIDE DEF use, mine
  <2> QED
    BY <1>2, <2>1
<1> HIDE DEF use
<1>4. \A i \in 1..2 : slabs[i].serial # None => slabs[i].serial \in serials
  OBVIOUS
<1> HIDE DEF serials
<1> QED
  BY <1>1, <1>3, <1>4

LEMMA PollSays == PollInv => Block!PollIsTrue
<1> SUFFICES ASSUME card = "poll", PollTrue(world), world.page # None
             PROVE  Block!PollIsTrue
  BY DEF PollInv, Block!PollIsTrue, Block!Reached
<1> DEFINE shown == world.page
<1>1. CASE shown = [health |-> "error", rows |-> <<>>]
  <2>1. shown.health = "error" /\ shown.rows = <<>>
    BY <1>1
  <2> HIDE DEF shown
  <2>2. ~Block!Reached
    BY <2>1 DEF Block!Reached, shown
  <2> QED
    BY <2>1, <2>2 DEF Block!PollIsTrue, shown
<1>2. CASE \E sets, slots : PollShows(world, sets, slots)
  <2>1. PICK sets, slots : PollShows(world, sets, slots)
    BY <1>2
  <2> DEFINE w == world
             rows == [v \in Block!Volumes |-> Block!VolumeRow(w.vols[v])]
             worst == Block!Worst(sets)
  <2>2. /\ shown.health = Block!EngineHealth(rows, worst) /\ shown.rows = rows /\ shown.raid = worst
        /\ shown.sets = [i \in DOMAIN sets |-> Block!RaidHealth(sets[i])]
        /\ shown.slabs = [i \in DOMAIN slots |-> Block!SlabHealth(slots[i])]
        /\ shown.use = Block!DriveUse(slots)
    BY <2>1 DEF PollShows, PollPage
  <2>3. sets \in {<<>>, w.sets} /\ slots \in {<<>>, w.slabs} /\ w.raid = worst
    BY <2>1 DEF PollShows
  <2>4. PollTyped(w)
    BY DEF PollTrue
  <2> HIDE DEF shown, worst
  <2>5. DOMAIN <<>> = {}
    OBVIOUS
  <2>6. Block!Reached
    <3>1. 1 \in DOMAIN rows
      BY DEF Block!Volumes
    <3>2. shown.rows # <<>>
      BY <2>2, <2>5, <3>1
    <3> QED
      BY <3>2 DEF Block!Reached, shown
  <2>7. DOMAIN rows = Block!Volumes /\ \A v \in Block!Volumes : rows[v] = Block!VolumeRow(w.vols[v])
    OBVIOUS
  <2> HIDE DEF rows
  <2>8. /\ Block!RaidHealth(worst) = "error" => shown.health = "error"
        /\ Block!RaidHealth(worst) = "warn" => shown.health \in {"warn", "error"}
        /\ (\E v \in Block!Volumes : rows[v].health # "ok") => shown.health # "ok"
    BY <2>2, <2>7 DEF Block!EngineHealth
  <2>9. ASSUME NEW i \in DOMAIN shown.sets
        PROVE  ~Block!Better(shown.health, shown.sets[i])
    <3>1. i \in DOMAIN sets /\ shown.sets[i] = Block!RaidHealth(sets[i])
      BY <2>2, <2>9
    <3>2. sets = w.sets
      BY <2>3, <2>5, <3>1
    <3>3. /\ Block!RaidHealth(sets[i]) = "error" => Block!RaidHealth(worst) = "error"
          /\ Block!RaidHealth(sets[i]) = "warn" => Block!RaidHealth(worst) \in {"warn", "error"}
          /\ Block!RaidHealth(sets[i]) \in {"ok", "warn", "error"}
      BY <2>4, <3>1, <3>2, WorstIsBad DEF PollTyped, worst
    <3>4. /\ shown.sets[i] = "error" => shown.health = "error"
          /\ shown.sets[i] = "warn" => shown.health \in {"warn", "error"}
          /\ shown.sets[i] \in {"ok", "warn", "error"}
      BY <2>8, <3>1, <3>3
    <3> QED
      BY <3>4 DEF Block!Better
  <2>10. ASSUME NEW v \in Block!Volumes, shown.rows[v].kind = "clone"
         PROVE  shown.rows[v].place # "image"
    <3>1. shown.rows[v] = Block!VolumeRow(w.vols[v]) /\ w.vols[v] \in Block!EngineVolumes
      BY <2>2, <2>4, <2>7 DEF PollTyped
    <3>2. shown.rows[v].kind = Block!VolumeKind(w.vols[v]) /\ shown.rows[v].place = Block!Place(w.vols[v])
      BY <3>1 DEF Block!VolumeRow
    <3> QED
      BY <2>10, <3>1, <3>2, CloneIsNoImage
  <2>11. /\ \A s \in DOMAIN shown.use : shown.use[s].free <= w.slabs[1].free + w.slabs[2].free
         /\ \A i \in DOMAIN shown.slabs : w.slabs[i].serial # None => w.slabs[i].serial \in DOMAIN shown.use
    <3>1. DOMAIN shown.slabs = DOMAIN slots
      BY <2>2
    <3>2. CASE slots = <<>>
      <4>1. DOMAIN Block!DriveUse(slots) = {}
        BY <2>5, <3>2 DEF Block!DriveUse
      <4> QED
        BY <2>2, <2>5, <3>1, <3>2, <4>1
    <3>3. CASE slots = w.slabs
      BY <2>2, <2>4, <3>1, <3>3, UseIsOfSlabs DEF PollTyped
    <3> QED
      BY <2>3, <3>2, <3>3
  <2>12. (\E v \in Block!Volumes : shown.rows[v].health # "ok") => shown.health # "ok"
    BY <2>2, <2>8
  <2> QED
    BY <2>2, <2>3, <2>6, <2>9, <2>10, <2>11, <2>12 DEF Block!PollIsTrue, shown
<1> QED
  BY <1>1, <1>2 DEF PollTrue

-----------------------------------------------------------------------------
(***************************************************************************)
(* The pages as they are run: a behaviour is that of one of them.          *)
(***************************************************************************)
pagesVars == <<part, views, edits, disks>>

\* A behaviour of the pages that is of the edits is one of MachineEdits.
LEMMA EditPage ==
  ASSUME part = "edit"
  PROVE  /\ PagesInit => Edit!Init
         /\ [PagesNext]_pagesVars => part' = "edit" /\ [Edit!Next]_(Edit!vars)
<1>1. PagesInit => Edit!Init
  BY DEF PagesInit, ViewInit
<1>2. UNCHANGED pagesVars => part' = "edit" /\ UNCHANGED Edit!vars
  BY DEF pagesVars, edits, Edit!vars
<1>3. PagesNext => part' = "edit" /\ Edit!Next
  BY DEF PagesNext, ViewNext
<1> QED
  BY <1>1, <1>2, <1>3

\* A behaviour of the pages that is of the root disk is one of RootDisks.
LEMMA DiskPage ==
  ASSUME part = "disk"
  PROVE  /\ PagesInit => Disk!Init
         /\ [PagesNext]_pagesVars => part' = "disk" /\ [Disk!Next]_(Disk!vars)
<1>1. PagesInit => Disk!Init
  BY DEF PagesInit, ViewInit
<1>2. UNCHANGED pagesVars => part' = "disk" /\ UNCHANGED Disk!vars
  BY DEF pagesVars, disks, Disk!vars
<1>3. PagesNext => part' = "disk" /\ Disk!Next
  BY DEF PagesNext, ViewNext
<1> QED
  BY <1>1, <1>2, <1>3

\* Another page's behaviour stays its own.
LEMMA PartKept ==
  [PagesNext]_pagesVars => part' = part
  BY DEF PagesNext, pagesVars

\* What is known of a page that is computed is kept by a step of any page.
ViewKept ==
  /\ part = "machine" => MachineInv
  /\ part = "cluster" => ClusterInv
  /\ part = "drive"   => DriveInv
  /\ part = "image"   => ImageInv
  /\ part = "block"   => BlockInv

LEMMA ViewInitKept == PagesInit => ViewKept
  BY ViewPage, MachineStep, ClusterStep, DriveStep, ImageStep, BlockStep DEF ViewKept

LEMMA ViewStepKept == ViewKept /\ [PagesNext]_pagesVars => ViewKept'
<1>1. ASSUME ViewKept, PagesNext PROVE ViewKept'
  <2>1. part' = part
    BY <1>1 DEF PagesNext
  <2> QED
    BY <1>1, <2>1, ViewPage, MachineStep, ClusterStep, DriveStep, ImageStep, BlockStep DEF ViewKept
<1>2. ASSUME ViewKept, UNCHANGED pagesVars PROVE ViewKept'
  <2>1. part' = part /\ card' = card /\ world' = world
    BY <1>2 DEF pagesVars, views
  <2>2. /\ MachineInv' = MachineInv /\ ClusterInv' = ClusterInv /\ DriveInv' = DriveInv
        /\ ImageInv' = ImageInv /\ BlockInv' = BlockInv
    BY <2>1 DEF MachineInv, ClusterInv, DriveInv, ImageInv, BlockInv
  <2> QED
    BY <1>2, <2>1, <2>2 DEF ViewKept
<1> QED
  BY <1>1, <1>2

\* Every disk of a machine keeps its volume, whatever edits overlap, on whatever stale
\* copies, for any number of requests and writes; an edit of the bus apart, which replaces
\* the disks with one that has no name.
THEOREM DisksStayPaired ==
  ASSUME "bus" \notin Fields
  PROVE  PagesSpec => []DisksPaired
<1> DEFINE Inv == part = "edit" => PairInv
<1>1. PagesInit => Inv
  BY EditPage, PairInit
<1>2. Inv /\ [PagesNext]_pagesVars => Inv'
  BY EditPage, PartKept, PairStep
<1>3. Inv => DisksPaired
  BY PairIsPaired DEF DisksPaired
<1> QED
  BY <1>1, <1>2, <1>3, PTL DEF PagesSpec, pagesVars

\* What was said to be written is what the form shows, for any fields and values and any
\* number of requests.
THEOREM EditsShow == PagesSpec => []EditShows
<1> DEFINE Inv == part = "edit" => ShowInv
<1>1. PagesInit => Inv
  BY EditPage, ShowInit
<1>2. Inv /\ [PagesNext]_pagesVars => Inv'
  BY EditPage, PartKept, ShowStep
<1>3. Inv => EditShows
  BY ShowIsShown DEF EditShows
<1> QED
  BY <1>1, <1>2, <1>3, PTL DEF PagesSpec, pagesVars

\* A machine is made of a disk that is a volume or will be one, for any images and media
\* and however long the operator takes.
THEOREM MadeOfAVolume == PagesSpec => []NamesAVolume
<1> DEFINE Inv == part = "disk" => DiskInv
<1>1. PagesInit => Inv
  BY DiskPage, DiskInit
<1>2. Inv /\ [PagesNext]_pagesVars => Inv'
  BY DiskPage, PartKept, DiskStep
<1>3. Inv => NamesAVolume
  BY MadeIsKept DEF NamesAVolume
<1> QED
  BY <1>1, <1>2, <1>3, PTL DEF PagesSpec, pagesVars

\* What a page enables or a form offers its handler takes, in every state the pages can be
\* in: a machine's verbs, a root disk's choices, a cluster row's actions, a fleet's links, a
\* pod's terminal and the engine's volumes.
THEOREM OffersAreTaken == PagesSpec => []OfferedIsTaken
<1> DEFINE Inv == ViewKept /\ (part = "disk" => DiskInv)
<1>1. PagesInit => Inv
  BY ViewInitKept, DiskPage, DiskInit
<1>2. Inv /\ [PagesNext]_pagesVars => Inv'
  BY ViewStepKept, DiskPage, PartKept, DiskStep
<1>3. Inv => OfferedIsTaken
  BY MachineOffers, OfferedIsSealed, ClusterOffers, FleetOffers, PodOffers, BlockOffers
  DEF ViewKept, OfferedIsTaken
<1> QED
  BY <1>1, <1>2, <1>3, PTL DEF PagesSpec, pagesVars

\* In an answer to a viewer a project is hidden from, of whatever is kept for everyone it is
\* made and whoever else was answered before: no row, page, relation or event of an object of
\* a watched kind in that project, no drive used by it, no holder and no clone of a holder
\* by its own row.  A container's row and the names in `via` are not covered.
THEOREM HiddenStaysHidden == PagesSpec => []HiddenUnreferenced
<1>1. ViewKept => HiddenUnreferenced
  BY ClusterHides, PodHides, DriveHides, ImageHides DEF ViewKept, HiddenUnreferenced
<1> QED
  BY <1>1, ViewInitKept, ViewStepKept, PTL DEF PagesSpec, pagesVars

\* What a page says is so is kept beside what it is computed from.
SaidKept ==
  /\ part = "pod"     => PodInv
  /\ part = "fleet"   => FleetInv
  /\ part = "record"  => RunsInv /\ StatsInv
  /\ part = "history" => HistoryInv
  /\ part = "drive"   => FormatInv /\ NodesInv
  /\ part = "image"   => Image!RefusalIsSaid
  /\ part = "block"   => EngineInv /\ PollInv

LEMMA SaidInitKept == PagesInit => SaidKept
<1>1. /\ Pod!Init => PodInv
      /\ Fleet!Init => FleetInv
      /\ Record!Init => RunsInv /\ StatsInv
      /\ History!Init => HistoryInv
      /\ Drive!Init => FormatInv /\ NodesInv
      /\ Image!Init => Image!RefusalIsSaid
      /\ Block!Init => EngineInv /\ PollInv
  BY PodStep, FleetInit, RunsStep, StatsStep, HistoryStep, FormatStep, NodesStep, RegistryStep, EngineStep, PollInvStep
<1> QED
  BY <1>1, ViewPage DEF SaidKept

LEMMA SaidStepKept == SaidKept /\ [PagesNext]_pagesVars => SaidKept'
<1>1. ASSUME SaidKept, PagesNext
      PROVE  SaidKept'
  <2>1. part' = part
    BY <1>1 DEF PagesNext
  <2>2. /\ PodInv /\ Pod!Next => PodInv'
        /\ FleetInv /\ Fleet!Next => FleetInv'
        /\ RunsInv /\ Record!Next => RunsInv'
        /\ StatsInv /\ Record!Next => StatsInv'
        /\ HistoryInv /\ History!Next => HistoryInv'
        /\ FormatInv /\ Drive!Next => FormatInv'
        /\ NodesInv /\ Drive!Next => NodesInv'
        /\ Image!RefusalIsSaid /\ Image!Next => Image!RefusalIsSaid'
        /\ EngineInv /\ Block!Next => EngineInv'
        /\ PollInv /\ Block!Next => PollInv'
    BY PodStep, FleetStep, RunsStep, StatsStep, HistoryStep, FormatStep, NodesStep, RegistryStep, EngineStep, PollInvStep
  <2> QED
    BY <1>1, <2>1, <2>2, ViewPage DEF SaidKept
<1>2. ASSUME SaidKept, UNCHANGED pagesVars
      PROVE  SaidKept'
  <2>1. part' = part /\ card' = card /\ world' = world
    BY <1>2 DEF pagesVars, views
  <2>2. /\ PodInv' = PodInv /\ FleetInv' = FleetInv /\ RunsInv' = RunsInv /\ StatsInv' = StatsInv
        /\ HistoryInv' = HistoryInv /\ FormatInv' = FormatInv /\ NodesInv' = NodesInv
        /\ EngineInv' = EngineInv /\ PollInv' = PollInv
    BY <2>1 DEF PodInv, FleetInv, RunsInv, StatsInv, HistoryInv, FormatInv, NodesInv, EngineInv, PollInv
  <2>3. (Image!RefusalIsSaid)' = Image!RefusalIsSaid
    BY <2>1 DEF Image!RefusalIsSaid
  <2> QED
    BY <1>2, <2>1, <2>2, <2>3 DEF SaidKept
<1> QED
  BY <1>1, <1>2

\* What a page says of a thing is so, in every state the pages can be in: a machine's
\* endpoint, a node's health, a port's answer, a pod's environment, probes, earlier runs and
\* charts, whether records were read, what a format began and did not, why the registry
\* shows nothing, and the engine's card, its free drives and what is left alone.
THEOREM WhatIsSaidIsSo == PagesSpec => []SaidIsSo
<1> DEFINE Inv == ViewKept /\ SaidKept
<1>1. PagesInit => Inv
  BY ViewInitKept, SaidInitKept
<1>2. Inv /\ [PagesNext]_pagesVars => Inv'
  BY ViewStepKept, SaidStepKept
<1>3. Inv => SaidIsSo
  <2> SUFFICES ASSUME ViewKept, SaidKept
               PROVE  SaidIsSo
    OBVIOUS
  <2>1. part = "machine" => Machine!FenceIsReal /\ Machine!AnsweredIsOwn
    BY MachineSays
  <2>2. part = "cluster" => Cluster!SaidIsSo
    BY ClusterSays DEF ViewKept
  <2>3. part = "fleet" => Fleet!SaidIsSo
    BY FleetSays DEF SaidKept
  <2>4. part = "pod" => Pod!SaidIsSo
    BY PodSays DEF SaidKept
  <2>5. part = "record" => Record!RunsAreItsOwn /\ Record!WindowIsWhole
    BY RunsOwn, ChartIsWhole DEF SaidKept
  <2>6. part = "history" => History!RecordsAreKnown
    BY HistorySays DEF SaidKept
  <2>7. part = "drive" => Drive!FormatIsTrue /\ Drive!RowsAreReached
    BY FormatTold, NodesReached DEF SaidKept
  <2>8. part = "image" => Image!RefusalIsSaid
    BY DEF SaidKept
  <2>9. part = "block" => Block!SaidIsSo
    BY EngineSays, PollSays DEF SaidKept, Block!SaidIsSo
  <2> QED
    BY <2>1, <2>2, <2>3, <2>4, <2>5, <2>6, <2>7, <2>8, <2>9 DEF SaidIsSo
<1> QED
  BY <1>1, <1>2, <1>3, PTL DEF PagesSpec, pagesVars

=============================================================================
