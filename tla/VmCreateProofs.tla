---------------------------- MODULE VmCreateProofs ----------------------------
(***************************************************************************)
(* The copies of a user's SSH keys and what a machine names, for any keys, *)
(* namespaces and number of edits, attaches and creations at once.         *)
(***************************************************************************)
EXTENDS VmCreate, TLAPS

\* What a request at its pc knows, of the Secrets `sec` and the lists `hs` the home Secret
\* has held.  The list on its way to a copy is one of them; a removed key is not on it.
Sound(r, sec, hs) ==
  /\ r.verb \in {"add", "remove"} => r.key \in Keys
  /\ r.pc \in {"copies", "next"} => r.verb # "attach" /\ r.list \in hs
  /\ r.pc \in {"read", "write"} /\ (r.verb = "attach" \/ r.target # Home) => r.list \in hs
  /\ r.verb = "remove" /\ r.pc \notin {"make", "saved"} => r.key \notin r.list
  /\ r.verb = "attach" /\ r.pc = "confirmed" => sec[r.target] # None
  /\ r.listed = TRUE =>
       /\ r.verb # "attach" /\ r.pc \in {"read", "write", "next", "confirmed"}
       /\ r.pc \in {"read", "write"} => r.target # Home
       /\ r.pc = "confirmed" => r.left = {}

\* The copies an edit still has to bring up to date.
Behind(r) == IF r.pc \in {"read", "write"} THEN r.left \cup {r.target} ELSE r.left

\* What a request knows as long as it is alone: the home Secret holds its list, and so does
\* every copy it has come by.
Current(r, sec) ==
  /\ r.verb = "attach" /\ r.pc \in {"read", "write", "confirmed"} => sec[Home] = r.list
  /\ r.verb = "attach" /\ r.pc = "confirmed" => sec[r.target] = r.list
  /\ r.pc = "copies" => sec[Home] = r.list
  /\ r.listed = TRUE =>
       sec[Home] = r.list /\ \A ns \in Copies \ Behind(r) : sec[ns] \in {None, r.list}

Claims(r, sec, hs) == Sound(r, sec, hs) /\ (r.alone = TRUE => Current(r, sec))

Underway == {o \in Requests : ~At(o, "idle")}

\* A request is alone while every other is idle or has said its last.
Alone ==
  \A o \in Underway : op[o].alone = TRUE =>
    \A p \in Requests \ {o} : op[p].pc \in {"idle", "confirmed"}

KeysInv == TypeOK /\ {} \in held /\ CopyOfHome /\ Alone /\ \A o \in Underway : Claims(op[o], secret, held)

-----------------------------------------------------------------------------
Makes == [pc : {"none", "seed", "copy", "own", "machine", "told"}, ns : Namespaces,
          lines : Lists, whole : BOOLEAN, cred : {"own or none", "copy"}]

MakeType ==
  /\ make \in [Makers -> Makes]
  /\ seed \in [Copies -> Lists \cup {None}]
  /\ vm \in [Copies -> {"own or none", "copy", None}]

\* A creation m with its request r: all of the saved keys are a list the home Secret held,
\* the request is an attach of the machine's namespace until the creation is past it, and
\* everything the machine is going to name has been written.
Prepared(m, r, sec, hs, sd) ==
  /\ m.ns \in Copies
  /\ m.whole = TRUE => m.lines \in hs
  /\ m.pc = "seed" =>
       /\ r.pc = "make" /\ r.verb = "attach" /\ r.target = m.ns /\ r.listed = FALSE
       /\ r.alone = TRUE /\ m.whole = TRUE => m.lines = List(sec[Home])
  /\ m.pc = "copy" /\ r.pc # "idle" =>
       r.verb = "attach" /\ r.target = m.ns
  /\ m.pc # "seed" => sd[m.ns] # None
  /\ m.cred = "copy" => sec[m.ns] # None

MakeInv == \A o \in Makers : ~Making(o, "none") => Prepared(make[o], op[o], secret, held, seed)

IInv == KeysInv /\ MakeType /\ MakeInv /\ NamedIsThere

-----------------------------------------------------------------------------
(* The keys: one request moves, whatever moved it. *)

LEMMA IdleIsNoRequest == \A r \in Ops : r.pc # "idle" /\ r # Idle
BY DEF Ops, Idle

LEMMA UnderwayType ==
  ASSUME KeysInv, NEW o \in Requests, op[o].pc # "idle"
  PROVE  op[o] \in Ops /\ Claims(op[o], secret, held)
BY DEF KeysInv, TypeOK, At, Idle, Underway

\* What another request's step may change of a request under way.
Alike(s, r) ==
  /\ s.pc = r.pc /\ s.verb = r.verb /\ s.key = r.key /\ s.list = r.list
  /\ s.target = r.target /\ s.left = r.left /\ s.listed = r.listed
  /\ s.alone = TRUE => r.alone = TRUE

LEMMA SoundAlike ==
  ASSUME NEW r, NEW s, Alike(s, r), NEW sec, NEW hs, NEW sec2, NEW hs2, hs \subseteq hs2,
         r \in Ops, \A ns \in Namespaces : sec[ns] # None => sec2[ns] # None,
         Sound(r, sec, hs)
  PROVE  Sound(s, sec2, hs2)
<1>1. r.target \in Namespaces
  BY DEF Ops
<1> QED
  BY <1>1 DEF Sound, Alike

LEMMA CurrentAlike ==
  ASSUME NEW r, NEW s, Alike(s, r), NEW sec, Current(r, sec)
  PROVE  Current(s, sec)
BY DEF Current, Alike, Behind

\* The others are as they were, and are not alone where they could tell a difference.
Others(o) ==
  /\ \A q \in Requests \ {o} : op'[q].pc = op[q].pc
  /\ \A q \in Requests \ {o} : op[q].pc # "idle" => Alike(op'[q], op[q])
  /\ \A q \in Requests \ {o} : op[q].pc # "idle" /\ op'[q].alone = TRUE => secret' = secret

\* Secrets are not deleted, and the home Secret's lists are remembered.
Grows ==
  /\ secret' \in [Namespaces -> Lists \cup {None}]
  /\ \A ns \in Namespaces : secret[ns] # None => secret'[ns] # None
  /\ held' \in SUBSET Lists /\ held \subseteq held'
  /\ \A ns \in Namespaces : List(secret'[ns]) \in held'

LEMMA OneMoves ==
  ASSUME KeysInv, NEW o \in Requests, NEW r \in Ops \cup {Idle},
         op' \in [Requests -> Ops \cup {Idle}], op'[o] = r, Others(o), Grows,
         r \in Ops => Claims(r, secret', held'),
         r \in Ops /\ r.alone = TRUE =>
           \A q \in Requests \ {o} : op[q].pc \in {"idle", "confirmed"},
         \/ r.pc \in {"idle", "confirmed"}
         \/ \A q \in Requests \ {o} : op[q].pc # "idle" => ~(op'[q].alone = TRUE)
  PROVE  KeysInv'
<1>1. TypeOK'
  BY HomeAssumption DEF TypeOK, Grows
<1>2. ({} \in held)' /\ CopyOfHome'
  BY DEF KeysInv, Grows, CopyOfHome, Copies
<1>3. Alone'
  <2> SUFFICES ASSUME NEW x \in Requests, op'[x].pc # "idle", op'[x].alone = TRUE,
                      NEW p \in Requests \ {x}
               PROVE  op'[p].pc \in {"idle", "confirmed"}
    BY DEF Alone, Underway, At
  <2>1. CASE x = o
    <3>1. r \in Ops /\ r.alone = TRUE
      BY <2>1 DEF Idle
    <3> QED
      BY <2>1, <3>1 DEF Others
  <2>2. CASE x # o
    <3>1. op[x].pc # "idle" /\ op[x].alone = TRUE
      BY <2>2 DEF Others, Alike
    <3>2. r.pc \in {"idle", "confirmed"}
      BY <2>2, <3>1
    <3>3. CASE p = o
      BY <3>2, <3>3
    <3>4. CASE p # o
      <4>1. op[p].pc \in {"idle", "confirmed"}
        BY <3>1 DEF KeysInv, Alone, Underway, At
      <4> QED
        BY <3>4, <4>1 DEF Others
    <3> QED
      BY <3>3, <3>4
  <2> QED
    BY <2>1, <2>2
<1>4. ASSUME NEW x \in Requests, op'[x].pc # "idle" PROVE Claims(op'[x], secret', held')
  <2>1. CASE x = o
    BY <1>4, <2>1 DEF Idle
  <2>2. CASE x # o
    <3>1. op[x].pc # "idle" /\ Alike(op'[x], op[x])
      BY <1>4, <2>2 DEF Others
    <3>2. op[x] \in Ops /\ Sound(op[x], secret, held)
          /\ (op[x].alone = TRUE => Current(op[x], secret))
      BY <3>1, UnderwayType DEF Claims
    <3>3. Sound(op'[x], secret', held')
      <4>1. \A ns \in Namespaces : secret[ns] # None => secret'[ns] # None
        BY DEF Grows
      <4>2. held \subseteq held'
        BY DEF Grows
      <4> QED
        BY <3>1, <3>2, <4>1, <4>2, SoundAlike
    <3>4. ASSUME op'[x].alone = TRUE PROVE Current(op'[x], secret')
      <4>1. op[x].alone = TRUE /\ secret' = secret
        BY <2>2, <3>1, <3>4 DEF Others, Alike
      <4>2. Current(op'[x], secret)
        BY <3>1, <3>2, <4>1, CurrentAlike
      <4> QED
        BY <4>1, <4>2
    <3> QED
      BY <3>3, <3>4 DEF Claims
  <2> QED
    BY <2>1, <2>2
<1> QED
  BY <1>1, <1>2, <1>3, <1>4 DEF KeysInv, Underway, At

\* What every step of request o does for the invariant.
Kept(o) == KeysInv' /\ Others(o) /\ Grows

LEMMA SecretsHeld ==
  ASSUME KeysInv PROVE \A ns \in Namespaces : List(secret[ns]) \in held
<1>1. List(secret[Home]) \in held /\ \A ns \in Copies : List(secret[ns]) \in held
  BY DEF KeysInv, TypeOK, CopyOfHome
<1> QED
  BY <1>1 DEF Copies

LEMMA ReadsOnly ==
  ASSUME KeysInv, NEW o \in Requests, NEW r \in Ops \cup {Idle},
         op' = [op EXCEPT ![o] = r], UNCHANGED <<secret, held>>,
         r \in Ops => /\ op[o].pc \notin {"idle", "confirmed"}
                      /\ r.alone = op[o].alone /\ Claims(r, secret, held)
  PROVE  Kept(o)
<1>1. op \in [Requests -> Ops \cup {Idle}]
  BY DEF KeysInv, TypeOK
<1>2. op' \in [Requests -> Ops \cup {Idle}] /\ op'[o] = r /\ \A q \in Requests \ {o} : op'[q] = op[q]
  BY <1>1
<1>3. Others(o)
  BY <1>2 DEF Others, Alike
<1>4. Grows
  BY SecretsHeld DEF KeysInv, TypeOK, Grows
<1>5. r \in Ops /\ r.alone = TRUE =>
        \A q \in Requests \ {o} : op[q].pc \in {"idle", "confirmed"}
  BY DEF KeysInv, Alone, Underway, At
<1>6. \/ r.pc \in {"idle", "confirmed"}
      \/ \A q \in Requests \ {o} : op[q].pc # "idle" => ~(op'[q].alone = TRUE)
  <2>1. CASE r \in Ops
    BY <1>2, <2>1 DEF KeysInv, Alone, Underway, At
  <2>2. CASE r = Idle
    BY <2>2 DEF Idle
  <2> QED
    BY <2>1, <2>2
<1>7. KeysInv'
  BY <1>2, <1>3, <1>4, <1>5, <1>6, OneMoves
<1> QED
  BY <1>3, <1>4, <1>7 DEF Kept

LEMMA WritesOne ==
  ASSUME KeysInv, NEW o \in Requests, NEW r \in Ops \cup {Idle},
         At(o, "write"), Commit(o), op' = [Stale(op, op[o].target) EXCEPT ![o] = r],
         r \in Ops => r.alone = op[o].alone /\ Claims(r, secret', held')
  PROVE  Kept(o)
<1> DEFINE ns == op[o].target
           list == op[o].list
<1>1. /\ op \in [Requests -> Ops \cup {Idle}] /\ secret \in [Namespaces -> Lists \cup {None}]
      /\ held \in SUBSET Lists
  BY DEF KeysInv, TypeOK
<1>2. op[o] \in Ops /\ Claims(op[o], secret, held) /\ op[o].pc = "write"
  BY UnderwayType DEF At
<1>3. ns \in Namespaces /\ list \in Lists /\ list # None
  BY <1>2, NoneAssumption DEF Ops, Lists
<1>4. secret' = [secret EXCEPT ![ns] = list]
  BY DEF Commit, Replaced
<1>5. held' = IF ns = Home THEN held \cup {list} ELSE held
  BY <1>1, <1>3, <1>4 DEF Commit
<1>6. list \in held'
  <2>1. ns # Home => list \in held
    BY <1>2 DEF Claims, Sound
  <2> QED
    BY <1>5, <2>1
<1> HIDE DEF ns, list
<1>7. Grows
  <2>1. \A n \in Namespaces : List(secret[n]) \in held
    BY SecretsHeld
  <2>2. \A n \in Namespaces : List(secret'[n]) \in held'
    BY <1>1, <1>3, <1>4, <1>5, <1>6, <2>1 DEF List
  <2> QED
    BY <1>1, <1>3, <1>4, <1>5, <2>2 DEF Grows
<1>8. ASSUME NEW q \in Requests \ {o}
      PROVE  /\ op'[q] \in Ops \cup {Idle} /\ op'[q].pc = op[q].pc
             /\ op[q].pc # "idle" => Alike(op'[q], op[q])
  <2>1. op'[q] = IF op[q].pc = "write" /\ op[q].target = ns
                 THEN [op[q] EXCEPT !.fresh = FALSE] ELSE op[q]
    BY DEF Stale, ns
  <2>2. CASE op[q].pc = "write" /\ op[q].target = ns
    <3> DEFINE w == [op[q] EXCEPT !.fresh = FALSE]
    <3>1. op[q] \in Ops
      BY <2>2, UnderwayType
    <3>2. w \in Ops
      BY <3>1 DEF Ops
    <3>3. w.pc = op[q].pc /\ Alike(w, op[q])
      BY <3>1 DEF Ops, Alike
    <3>4. op'[q] = w
      BY <2>1, <2>2
    <3> HIDE DEF w
    <3> QED
      BY <3>2, <3>3, <3>4
  <2>3. CASE ~(op[q].pc = "write" /\ op[q].target = ns)
    <3>1. op'[q] = op[q]
      BY <2>1, <2>3
    <3> QED
      BY <1>1, <3>1 DEF Alike
  <2> QED
    BY <2>2, <2>3
<1>9. op' \in [Requests -> Ops \cup {Idle}] /\ op'[o] = r
  <2>1. op' = [q \in Requests |-> op'[q]] /\ op'[o] = r
    BY DEF Stale
  <2> QED
    BY <1>8, <2>1
<1>10. \A q \in Requests \ {o} : op[q].pc # "idle" => ~(op'[q].alone = TRUE)
  BY <1>2, <1>8 DEF KeysInv, Alone, Underway, At, Alike
<1>11. Others(o)
  BY <1>8, <1>10 DEF Others
<1>12. r \in Ops /\ r.alone = TRUE =>
         \A q \in Requests \ {o} : op[q].pc \in {"idle", "confirmed"}
  BY <1>2 DEF KeysInv, Alone, Underway, At
<1>13. KeysInv'
  BY <1>7, <1>9, <1>10, <1>11, <1>12, OneMoves
<1> QED
  BY <1>7, <1>11, <1>13 DEF Kept

\* A new request takes from every other the claim that it is alone.
LEMMA Arrives ==
  ASSUME KeysInv, NEW o \in Requests, At(o, "idle"), NEW pc \in {"saved", "make"},
         NEW verb \in {"add", "remove", "attach"}, NEW key \in Keys \cup {None}, NEW ns \in Namespaces,
         verb # "attach" => key \in Keys,
         op' = Arrived(o, pc, verb, key, ns), UNCHANGED <<secret, held>>
  PROVE  /\ Kept(o)
         /\ op'[o] \in Ops /\ op'[o].pc = pc /\ op'[o].verb = verb /\ op'[o].target = ns
         /\ op'[o].listed = FALSE
<1> DEFINE alone == \A p \in Requests : At(p, "idle") \/ At(p, "confirmed")
<1>1. op \in [Requests -> Ops \cup {Idle}]
  BY DEF KeysInv, TypeOK
<1>2. PICK b \in BOOLEAN : b = alone
  OBVIOUS
<1> DEFINE r == [pc |-> pc, verb |-> verb, key |-> key, list |-> {}, target |-> ns,
                existed |-> FALSE, fresh |-> FALSE, left |-> {}, listed |-> FALSE,
                alone |-> b]
<1>3. op' = [p \in Requests |-> IF p = o THEN r ELSE IF At(p, "idle") THEN Idle
                                ELSE [op[p] EXCEPT !.alone = FALSE]]
  BY <1>2 DEF Arrived
<1>4. r \in Ops
  BY DEF Ops, Lists
<1>5. /\ r.pc = pc /\ r.verb = verb /\ r.key = key /\ r.list = {} /\ r.target = ns
      /\ r.left = {} /\ r.listed = FALSE /\ r.alone = b
  OBVIOUS
<1> HIDE DEF r
<1>6. ASSUME NEW q \in Requests \ {o}
      PROVE  /\ op'[q] \in Ops \cup {Idle} /\ op'[q].pc = op[q].pc
             /\ op[q].pc # "idle" => Alike(op'[q], op[q]) /\ ~(op'[q].alone = TRUE)
  <2>1. CASE At(q, "idle")
    BY <1>3, <2>1 DEF At, Idle
  <2>2. CASE ~At(q, "idle")
    <3>1. op[q] \in Ops /\ op'[q] = [op[q] EXCEPT !.alone = FALSE]
      BY <1>3, <2>2, UnderwayType DEF At
    <3> QED
      BY <3>1 DEF Ops, Alike
  <2> QED
    BY <2>1, <2>2
<1>7. op' \in [Requests -> Ops \cup {Idle}] /\ op'[o] = r
  BY <1>3, <1>4, <1>6
<1>8. Others(o)
  BY <1>6 DEF Others
<1>9. Grows
  BY SecretsHeld DEF KeysInv, TypeOK, Grows
<1>10. Claims(r, secret', held')
  BY <1>5 DEF Claims, Sound, Current
<1>11. r.alone = TRUE => \A q \in Requests \ {o} : op[q].pc \in {"idle", "confirmed"}
  <2>1. r.alone = TRUE => alone
    BY <1>2, <1>5
  <2> QED
    BY <2>1 DEF At
<1>12. \A q \in Requests \ {o} : op[q].pc # "idle" => ~(op'[q].alone = TRUE)
  BY <1>6
<1> HIDE DEF alone
<1>13. KeysInv'
  BY <1>4, <1>7, <1>8, <1>9, <1>10, <1>11, <1>12, OneMoves
<1> QED
  BY <1>4, <1>5, <1>7, <1>8, <1>9, <1>13 DEF Kept

-----------------------------------------------------------------------------
(* The keys: each step of a request. *)

LEMMA EndsKept ==
  ASSUME KeysInv, NEW o \in Requests, op' = [op EXCEPT ![o] = Idle], UNCHANGED <<secret, held>>
  PROVE  Kept(o)
BY IdleIsNoRequest, ReadsOnly

LEMMA SavedKept == ASSUME KeysInv, NEW o \in Requests, Saved(o) PROVE Kept(o)
<1> DEFINE list == List(secret[Home])
           edited == Edited(o, list)
           r == [op[o] EXCEPT !.list = edited, !.pc = "read",
                              !.target = IF op[o].verb = "attach" THEN @ ELSE Home]
<1>1. op[o] \in Ops /\ Claims(op[o], secret, held) /\ op[o].pc = "saved"
  BY UnderwayType DEF Saved, At
<1>2. CASE NothingToDo(o, list)
  BY <1>2, EndsKept DEF Saved
<1>3. CASE ~NothingToDo(o, list)
  <2>1. op' = [op EXCEPT ![o] = r] /\ UNCHANGED <<secret, held>>
    <3>1. op' = [op EXCEPT ![o].list = edited, ![o].pc = "read",
                           ![o].target = IF op[o].verb = "attach" THEN @ ELSE Home]
      BY <1>3 DEF Saved
    <3> HIDE DEF edited
    <3> QED
      BY <1>3, <3>1 DEF Saved
  <2>2. list \in Lists /\ list \in held
    BY HomeAssumption DEF KeysInv, TypeOK
  <2>3. op[o].verb \in {"add", "remove"} => op[o].key \in Keys
    BY <1>1 DEF Claims, Sound
  <2>4. /\ edited \in Lists
        /\ op[o].verb = "remove" => op[o].key \notin edited
        /\ op[o].verb = "attach" => edited = list /\ list # {}
    <3>1. op[o].verb \in {"add", "remove", "attach"}
      BY <1>1 DEF Ops
    <3>2. CASE op[o].verb = "add"
      BY <2>2, <2>3, <3>2 DEF Edited, Lists
    <3>3. CASE op[o].verb = "remove"
      BY <2>2, <2>3, <3>3 DEF Edited, Lists
    <3>4. CASE op[o].verb = "attach"
      BY <1>3, <2>2, <3>4 DEF Edited, NothingToDo, Lists
    <3> QED
      BY <3>1, <3>2, <3>3, <3>4
  <2> HIDE DEF edited
  <2>5. r \in Ops
    BY <1>1, <2>4, HomeAssumption DEF Ops
  <2>6. /\ r.pc = "read" /\ r.verb = op[o].verb /\ r.key = op[o].key /\ r.list = edited
        /\ r.verb # "attach" => r.target = Home
        /\ r.listed = op[o].listed /\ r.alone = op[o].alone
    BY <1>1 DEF Ops
  <2>7. op[o].listed = FALSE
    BY <1>1 DEF Ops, Claims, Sound
  <2> HIDE DEF r
  <2>8. Sound(r, secret, held)
    BY <2>2, <2>3, <2>4, <2>6, <2>7 DEF Sound
  <2>9. r.verb = "attach" => secret[Home] = r.list
    BY <2>4, <2>6 DEF List
  <2>10. Claims(r, secret, held)
    BY <2>6, <2>7, <2>8, <2>9 DEF Claims, Current
  <2> QED
    BY <1>1, <2>1, <2>5, <2>6, <2>10, ReadsOnly
<1> QED
  BY <1>2, <1>3

LEMMA ReadKept == ASSUME KeysInv, NEW o \in Requests, Read(o) PROVE Kept(o)
<1> DEFINE s == secret[op[o].target]
<1>1. op[o] \in Ops /\ Claims(op[o], secret, held) /\ op[o].pc = "read"
  BY UnderwayType DEF Read, At
<1>2. CASE op[o].verb = "attach" /\ s = op[o].list
  <2> DEFINE r == [op[o] EXCEPT !.pc = "confirmed"]
  <2>1. op' = [op EXCEPT ![o] = r] /\ UNCHANGED <<secret, held>>
    BY <1>2 DEF Read
  <2>2. r \in Ops
    BY <1>1 DEF Ops
  <2>3. /\ r.pc = "confirmed" /\ r.verb = "attach" /\ r.list = op[o].list
        /\ r.target = op[o].target /\ r.listed = op[o].listed /\ r.alone = op[o].alone
    BY <1>1, <1>2 DEF Ops
  <2>4. op[o].listed = FALSE
    BY <1>1, <1>2 DEF Ops, Claims, Sound
  <2>5. r.list # None
    BY <2>2, NoneAssumption DEF Ops, Lists
  <2> HIDE DEF r
  <2>6. Claims(r, secret, held)
    BY <1>1, <1>2, <2>3, <2>4, <2>5 DEF Claims, Sound, Current
  <2> QED
    BY <1>1, <2>1, <2>2, <2>3, <2>6, ReadsOnly
<1>3. CASE ~(op[o].verb = "attach" /\ s = op[o].list)
  <2>1. PICK b \in BOOLEAN : b = (s # None)
    OBVIOUS
  <2> DEFINE r == [op[o] EXCEPT !.pc = "write", !.existed = b, !.fresh = TRUE]
  <2>2. op' = [op EXCEPT ![o] = r] /\ UNCHANGED <<secret, held>>
    BY <1>3, <2>1 DEF Read
  <2>3. r \in Ops
    BY <1>1 DEF Ops
  <2>4. /\ r.pc = "write" /\ r.verb = op[o].verb /\ r.key = op[o].key /\ r.list = op[o].list
        /\ r.target = op[o].target /\ r.left = op[o].left
        /\ r.listed = op[o].listed /\ r.alone = op[o].alone
    BY <1>1 DEF Ops
  <2> HIDE DEF r
  <2>5. Claims(r, secret, held)
    BY <1>1, <2>4 DEF Claims, Sound, Current, Behind
  <2> QED
    BY <1>1, <2>2, <2>3, <2>4, <2>5, ReadsOnly
<1> QED
  BY <1>2, <1>3

\* A write that is answered with success: an attach is done, an edit goes on to the copies.
LEMMA WriteKept == ASSUME KeysInv, NEW o \in Requests, Write(o) PROVE Kept(o)
<1> DEFINE r == After(o)
<1>1. op[o] \in Ops /\ Claims(op[o], secret, held) /\ op[o].pc = "write"
  BY UnderwayType DEF Write, At
<1>2. /\ At(o, "write") /\ Commit(o) /\ op' = [Stale(op, op[o].target) EXCEPT ![o] = r]
  BY DEF Write
<1>3. secret \in [Namespaces -> Lists \cup {None}] /\ held \in SUBSET Lists
  BY DEF KeysInv, TypeOK
<1>4. op[o].target \in Namespaces /\ op[o].list \in Lists /\ op[o].list # None
  BY <1>1, NoneAssumption DEF Ops, Lists
<1>5. secret' = [secret EXCEPT ![op[o].target] = op[o].list]
  BY <1>2 DEF Commit, Replaced
<1>6. held' = IF op[o].target = Home THEN held \cup {op[o].list} ELSE held
  BY <1>2, <1>3, <1>4, <1>5 DEF Commit
<1>7. op[o].list \in held'
  BY <1>1, <1>6 DEF Claims, Sound
<1>8. ASSUME NEW pc \in {"confirmed", "copies", "next"}
      PROVE  /\ [op[o] EXCEPT !.pc = pc] \in Ops
             /\ [op[o] EXCEPT !.pc = pc].pc = pc
             /\ [op[o] EXCEPT !.pc = pc].verb = op[o].verb
             /\ [op[o] EXCEPT !.pc = pc].key = op[o].key
             /\ [op[o] EXCEPT !.pc = pc].list = op[o].list
             /\ [op[o] EXCEPT !.pc = pc].target = op[o].target
             /\ [op[o] EXCEPT !.pc = pc].left = op[o].left
             /\ [op[o] EXCEPT !.pc = pc].listed = op[o].listed
             /\ [op[o] EXCEPT !.pc = pc].alone = op[o].alone
  BY <1>1 DEF Ops
<1>9. CASE op[o].verb = "attach"
  <2>1. r = [op[o] EXCEPT !.pc = "confirmed"]
    BY <1>9 DEF After
  <2>2. op[o].listed = FALSE
    BY <1>1, <1>9 DEF Ops, Claims, Sound
  <2>3. op[o].alone = TRUE => secret'[Home] = op[o].list
    BY <1>1, <1>3, <1>4, <1>5, <1>9, HomeAssumption DEF Claims, Current
  <2>4. secret'[op[o].target] = op[o].list
    BY <1>3, <1>4, <1>5
  <2>5. /\ r \in Ops /\ r.pc = "confirmed" /\ r.verb = "attach" /\ r.list = op[o].list
        /\ r.target = op[o].target /\ r.listed = FALSE /\ r.alone = op[o].alone
    BY <1>8, <1>9, <2>1, <2>2
  <2> HIDE DEF r
  <2>6. Claims(r, secret', held')
    BY <1>4, <2>3, <2>4, <2>5 DEF Claims, Sound, Current
  <2> QED
    BY <1>2, <2>5, <2>6, WritesOne
<1>10. CASE op[o].verb # "attach" /\ op[o].target = Home
  <2>1. r = [op[o] EXCEPT !.pc = "copies"]
    BY <1>10 DEF After
  <2>2. op[o].listed = FALSE
    BY <1>1, <1>10 DEF Ops, Claims, Sound
  <2>3. secret'[Home] = op[o].list
    BY <1>3, <1>4, <1>5, <1>10
  <2>4. /\ r \in Ops /\ r.pc = "copies" /\ r.verb = op[o].verb /\ r.list = op[o].list
        /\ r.key = op[o].key /\ r.listed = FALSE /\ r.alone = op[o].alone
    BY <1>8, <2>1, <2>2
  <2> HIDE DEF r
  <2>5. Claims(r, secret', held')
    BY <1>1, <1>7, <1>10, <2>3, <2>4 DEF Claims, Sound, Current
  <2> QED
    BY <1>2, <2>4, <2>5, WritesOne
<1>11. CASE op[o].verb # "attach" /\ op[o].target # Home
  <2>1. r = [op[o] EXCEPT !.pc = "next"]
    BY <1>11 DEF After
  <2>2. /\ r \in Ops /\ r.pc = "next" /\ r.verb = op[o].verb /\ r.list = op[o].list
        /\ r.key = op[o].key /\ r.listed = op[o].listed /\ r.alone = op[o].alone
        /\ r.left = op[o].left
    BY <1>8, <2>1
  <2> HIDE DEF r
  <2>3. Sound(r, secret', held')
    BY <1>1, <1>7, <1>11, <2>2 DEF Claims, Sound
  <2>4. ASSUME op[o].alone = TRUE, op[o].listed = TRUE
        PROVE  /\ secret'[Home] = op[o].list
               /\ \A ns \in Copies \ op[o].left : secret'[ns] \in {None, op[o].list}
    <3>1. /\ secret[Home] = op[o].list
          /\ \A ns \in Copies \ (op[o].left \cup {op[o].target}) :
               secret[ns] \in {None, op[o].list}
      BY <1>1, <2>4 DEF Claims, Current, Behind
    <3> QED
      BY <1>3, <1>4, <1>5, <1>11, <3>1, HomeAssumption DEF Copies
  <2>5. r.alone = TRUE => Current(r, secret')
    BY <1>11, <2>2, <2>4 DEF Current, Behind
  <2> QED
    BY <1>2, <2>2, <2>3, <2>5, WritesOne DEF Claims
<1> QED
  BY <1>9, <1>10, <1>11

LEMMA WriteUnknownKept == ASSUME KeysInv, NEW o \in Requests, WriteUnknown(o) PROVE Kept(o)
BY IdleIsNoRequest, WritesOne DEF WriteUnknown

LEMMA ListCopiesKept == ASSUME KeysInv, NEW o \in Requests, ListCopies(o) PROVE Kept(o)
<1>1. op[o] \in Ops /\ Claims(op[o], secret, held) /\ op[o].pc = "copies"
  BY UnderwayType DEF ListCopies, At
<1>2. PICK listed \in BOOLEAN :
        op' = [op EXCEPT ![o].pc = "next", ![o].listed = listed,
                         ![o].left = IF listed THEN {ns \in Copies : secret[ns] # None} ELSE {}]
  BY DEF ListCopies
<1> DEFINE left == IF listed THEN {ns \in Copies : secret[ns] # None} ELSE {}
           r == [op[o] EXCEPT !.pc = "next", !.listed = listed, !.left = left]
<1>3. op' = [op EXCEPT ![o] = r] /\ UNCHANGED <<secret, held>>
  BY <1>2 DEF ListCopies
<1>4. left \in SUBSET Copies /\ (listed = TRUE => \A ns \in Copies \ left : secret[ns] = None)
  OBVIOUS
<1> HIDE DEF left
<1>5. r \in Ops
  BY <1>1, <1>4 DEF Ops
<1>6. /\ r.pc = "next" /\ r.verb = op[o].verb /\ r.key = op[o].key /\ r.list = op[o].list
      /\ r.left = left /\ r.listed = listed /\ r.alone = op[o].alone
  BY <1>1 DEF Ops
<1> HIDE DEF r
<1>7. Claims(r, secret, held)
  BY <1>1, <1>4, <1>6 DEF Claims, Sound, Current, Behind
<1> QED
  BY <1>1, <1>3, <1>5, <1>6, <1>7, ReadsOnly

LEMMA NextCopyKept == ASSUME KeysInv, NEW o \in Requests, NextCopy(o) PROVE Kept(o)
<1>1. op[o] \in Ops /\ Claims(op[o], secret, held) /\ op[o].pc = "next"
  BY UnderwayType DEF NextCopy, At
<1>2. CASE op[o].left = {}
  <2> DEFINE r == [op[o] EXCEPT !.pc = "confirmed"]
  <2>1. op' = [op EXCEPT ![o] = r] /\ UNCHANGED <<secret, held>>
    BY <1>2 DEF NextCopy
  <2>2. r \in Ops
    BY <1>1 DEF Ops
  <2>3. /\ r.pc = "confirmed" /\ r.verb = op[o].verb /\ r.key = op[o].key /\ r.list = op[o].list
        /\ r.left = op[o].left /\ r.listed = op[o].listed /\ r.alone = op[o].alone
    BY <1>1 DEF Ops
  <2> HIDE DEF r
  <2>4. Claims(r, secret, held)
    BY <1>1, <1>2, <2>3 DEF Claims, Sound, Current, Behind
  <2> QED
    BY <1>1, <2>1, <2>2, <2>3, <2>4, ReadsOnly
<1>3. CASE op[o].left # {}
  <2>1. PICK ns \in op[o].left :
          op' = [op EXCEPT ![o].pc = "read", ![o].target = ns, ![o].left = @ \ {ns}]
    BY <1>3 DEF NextCopy
  <2> DEFINE r == [op[o] EXCEPT !.pc = "read", !.target = ns, !.left = @ \ {ns}]
  <2>2. op' = [op EXCEPT ![o] = r] /\ UNCHANGED <<secret, held>>
    BY <2>1 DEF NextCopy
  <2>3. ns \in Copies /\ ns \in Namespaces /\ ns # Home
    BY <1>1 DEF Ops, Copies
  <2>4. r \in Ops
    BY <1>1, <2>3 DEF Ops
  <2>5. /\ r.pc = "read" /\ r.verb = op[o].verb /\ r.key = op[o].key /\ r.list = op[o].list
        /\ r.target = ns /\ r.left = op[o].left \ {ns}
        /\ r.listed = op[o].listed /\ r.alone = op[o].alone
    BY <1>1 DEF Ops
  <2> HIDE DEF r
  <2>6. Behind(r) = Behind(op[o])
    BY <1>1, <2>5 DEF Behind
  <2>7. Sound(r, secret, held)
    BY <1>1, <2>3, <2>5 DEF Claims, Sound
  <2>8. r.alone = TRUE => Current(r, secret)
    BY <1>1, <2>5, <2>6 DEF Claims, Current, Sound
  <2> QED
    BY <1>1, <2>2, <2>4, <2>5, <2>7, <2>8, ReadsOnly DEF Claims
<1> QED
  BY <1>2, <1>3

LEMMA RequestKept == ASSUME KeysInv, NEW o \in Requests, Request(o) PROVE Kept(o)
<1>1. CASE \E key \in Keys : Arrive(o, "add", key, Home) \/ Arrive(o, "remove", key, Home)
  BY <1>1, Arrives, HomeAssumption DEF Arrive
<1>2. CASE \E ns \in Namespaces : Arrive(o, "attach", None, ns)
  BY <1>2, Arrives DEF Arrive
<1>3. CASE Saved(o)
  BY <1>3, SavedKept
<1>4. CASE Fail(o) \/ Refused(o) \/ Leave(o)
  BY <1>4, EndsKept DEF Fail, Refused, Leave
<1>5. CASE Read(o)
  BY <1>5, ReadKept
<1>6. CASE Write(o)
  BY <1>6, WriteKept
<1>7. CASE WriteUnknown(o)
  BY <1>7, WriteUnknownKept
<1>8. CASE ListCopies(o)
  BY <1>8, ListCopiesKept
<1>9. CASE NextCopy(o)
  BY <1>9, NextCopyKept
<1> QED
  BY <1>1, <1>2, <1>3, <1>4, <1>5, <1>6, <1>7, <1>8, <1>9 DEF Request

-----------------------------------------------------------------------------
(* The creations beside them. *)

LEMMA MakingType ==
  ASSUME IInv, NEW o \in Makers, make[o].pc # "none"
  PROVE  /\ o \in Requests /\ make[o] \in Makes
         /\ Prepared(make[o], op[o], secret, held, seed)
BY MakersAssumption DEF IInv, MakeType, MakeInv, Making

\* Seeds are not taken away.
SeedGrows ==
  /\ seed' \in [Copies -> Lists \cup {None}]
  /\ \A ns \in Copies : seed[ns] # None => seed'[ns] # None

LEMMA OtherCreation ==
  ASSUME IInv, NEW o \in Requests, Kept(o), SeedGrows,
         NEW q \in Makers, q # o, make'[q] = make[q], make[q].pc # "none"
  PROVE  Prepared(make'[q], op'[q], secret', held', seed')
<1> DEFINE m == make[q]
<1>1. q \in Requests \ {o} /\ m \in Makes /\ Prepared(m, op[q], secret, held, seed)
  BY MakingType
<1>2. /\ op'[q].pc = op[q].pc
      /\ op[q].pc # "idle" => Alike(op'[q], op[q])
      /\ op[q].pc # "idle" /\ op'[q].alone = TRUE => secret' = secret
  BY <1>1 DEF Kept, Others
<1>3. /\ held \subseteq held' /\ m.ns \in Copies /\ m.ns \in Namespaces
      /\ secret[m.ns] # None => secret'[m.ns] # None
      /\ seed[m.ns] # None => seed'[m.ns] # None
  BY <1>1 DEF Kept, Grows, SeedGrows, Prepared, Copies
<1>4. make'[q] = m
  OBVIOUS
<1> HIDE DEF m
<1>5. m.pc = "seed" => /\ op'[q].pc = "make" /\ op'[q].verb = "attach" /\ op'[q].target = m.ns
                       /\ op'[q].listed = FALSE
                       /\ op'[q].alone = TRUE /\ m.whole = TRUE => m.lines = List(secret'[Home])
  BY <1>1, <1>2 DEF Prepared, Alike
<1>6. m.pc = "copy" /\ op'[q].pc # "idle" => op'[q].verb = "attach" /\ op'[q].target = m.ns
  BY <1>1, <1>2 DEF Prepared, Alike
<1>7. Prepared(m, op'[q], secret', held', seed')
  BY <1>1, <1>3, <1>5, <1>6 DEF Prepared
<1> QED
  BY <1>4, <1>7

\* A machine names what is there, as long as that stays.
LEMMA NamedStays ==
  ASSUME IInv, Grows, SeedGrows, UNCHANGED vm
  PROVE  NamedIsThere'
BY DEF IInv, NamedIsThere, Grows, SeedGrows, Copies

\* A step of one creation: its own part is what is left to show.
LEMMA CreationKept ==
  ASSUME IInv, NEW o \in Makers, Kept(o), SeedGrows, NEW m \in Makes,
         make' = [make EXCEPT ![o] = m],
         m.pc # "none" => Prepared(m, op'[o], secret', held', seed'),
         vm' \in [Copies -> {"own or none", "copy", None}], NamedIsThere'
  PROVE  IInv'
<1>1. o \in Requests /\ make \in [Makers -> Makes]
  BY MakersAssumption DEF IInv, MakeType
<1>2. MakeType'
  BY <1>1 DEF MakeType, SeedGrows
<1>3. make'[o] = m /\ \A q \in Makers : q # o => make'[q] = make[q]
  BY <1>1
<1>4. MakeInv'
  <2> SUFFICES ASSUME NEW q \in Makers, make'[q].pc # "none"
               PROVE  Prepared(make'[q], op'[q], secret', held', seed')
    BY DEF MakeInv, Making
  <2>1. CASE q = o
    BY <1>3, <2>1
  <2>2. CASE q # o
    BY <1>1, <1>3, <2>2, OtherCreation
  <2> QED
    BY <2>1, <2>2
<1> QED
  BY <1>2, <1>4 DEF IInv, Kept

LEMMA EndedKept ==
  ASSUME IInv, NEW o \in Makers, Ended(o), UNCHANGED <<secret, held>>, SeedGrows,
         vm' \in [Copies -> {"own or none", "copy", None}], NamedIsThere'
  PROVE  IInv'
<1>1. Kept(o)
  BY EndsKept, MakersAssumption DEF IInv, Ended
<1>2. NotMaking \in Makes /\ NotMaking.pc = "none"
  BY HomeAssumption DEF NotMaking, Makes, Lists
<1>3. make' = [make EXCEPT ![o] = NotMaking]
  BY DEF Ended
<1> HIDE DEF NotMaking
<1> QED
  BY <1>1, <1>2, <1>3, CreationKept

LEMMA SameSeed ==
  ASSUME IInv, UNCHANGED seed PROVE SeedGrows
BY DEF IInv, MakeType, SeedGrows

LEMMA SameSecrets ==
  ASSUME IInv, UNCHANGED <<secret, held>> PROVE Grows
BY SecretsHeld DEF IInv, KeysInv, TypeOK, Grows

\* A step that leaves the requests and the Secrets alone.
LEMMA StillKept ==
  ASSUME IInv, NEW o, UNCHANGED <<secret, op, held>> PROVE Kept(o)
<1>1. Grows
  BY SameSecrets
<1>2. Others(o)
  BY DEF Others, Alike
<1>3. KeysInv'
  BY DEF IInv, KeysInv, TypeOK, CopyOfHome, Alone, Underway, At
<1> QED
  BY <1>1, <1>2, <1>3 DEF Kept

-----------------------------------------------------------------------------
(* Each step of a creation. *)

LEMMA VmType == IInv => vm \in [Copies -> {"own or none", "copy", None}]
BY DEF IInv, MakeType

LEMMA CreateAskedKept ==
  ASSUME IInv, NEW o \in Makers, NEW ns \in Copies, CreateAsked(o, ns)
  PROVE  IInv'
<1> DEFINE saved == List(secret[Home])
<1>1. PICK lines \in SUBSET saved :
        make' = [make EXCEPT ![o] = [NotMaking EXCEPT !.pc = "seed", !.ns = ns, !.lines = lines,
                                                      !.whole = (lines = saved)]]
  BY DEF CreateAsked
<1>2. PICK b \in BOOLEAN : b = (lines = saved)
  OBVIOUS
<1> DEFINE m == [NotMaking EXCEPT !.pc = "seed", !.ns = ns, !.lines = lines, !.whole = b]
<1>3. make' = [make EXCEPT ![o] = m]
  BY <1>1, <1>2
<1>4. saved \in Lists /\ saved \in held /\ ns \in Namespaces
  BY HomeAssumption DEF IInv, KeysInv, TypeOK, Copies
<1>5. m \in Makes /\ m.pc = "seed" /\ m.ns = ns /\ m.lines = lines /\ m.whole = b
      /\ m.cred = "own or none"
  BY <1>4 DEF NotMaking, Makes, Lists
<1>6. UNCHANGED <<secret, held, seed, vm>> /\ op' = Arrived(o, "make", "attach", None, ns)
      /\ o \in Requests /\ At(o, "idle")
  BY MakersAssumption DEF CreateAsked
<1>7. /\ Kept(o) /\ op'[o] \in Ops /\ op'[o].pc = "make" /\ op'[o].verb = "attach"
      /\ op'[o].target = ns /\ op'[o].listed = FALSE
  BY <1>4, <1>6, Arrives DEF IInv
<1>8. m.whole = TRUE => m.lines = saved
  BY <1>2, <1>5
<1> HIDE DEF m
<1>9. Prepared(m, op'[o], secret', held', seed')
  <2> HIDE DEF saved
  <2>1. m.whole = TRUE => m.lines \in held'
    BY <1>4, <1>6, <1>8
  <2>2. m.whole = TRUE => m.lines = List(secret'[Home])
    BY <1>6, <1>8 DEF saved
  <2> QED
    BY <1>5, <1>7, <2>1, <2>2 DEF Prepared
<1>10. SeedGrows /\ NamedIsThere' /\ vm' \in [Copies -> {"own or none", "copy", None}]
  BY <1>6, SameSeed, SameSecrets, NamedStays, VmType
<1> QED
  BY <1>3, <1>5, <1>7, <1>9, <1>10, CreationKept

LEMMA CreationEndsKept ==
  ASSUME IInv, NEW o \in Makers, CreateFailed(o) \/ CreateLeft(o)
  PROVE  IInv'
<1>1. Ended(o) /\ UNCHANGED <<secret, held, seed, vm>>
  BY DEF CreateFailed, CreateLeft
<1>2. SeedGrows /\ NamedIsThere' /\ vm' \in [Copies -> {"own or none", "copy", None}]
  BY <1>1, SameSeed, SameSecrets, NamedStays, VmType
<1> QED
  BY <1>1, <1>2, EndedKept

\* The seed is written, or there was one of that name.
LEMMA SeedWritten ==
  ASSUME IInv, NEW o \in Makers, make[o].pc # "none",
         \/ seed' = [seed EXCEPT ![make[o].ns] = IF @ = None THEN make[o].lines ELSE @]
         \/ seed' = [seed EXCEPT ![make[o].ns] = make[o].lines]
  PROVE  SeedGrows /\ seed'[make[o].ns] # None
<1>1. make[o].ns \in Copies /\ make[o].lines \in Lists /\ make[o].lines # None
  BY MakingType, NoneAssumption DEF Makes, Lists, Prepared
<1>2. seed \in [Copies -> Lists \cup {None}]
  BY DEF IInv, MakeType
<1> QED
  BY <1>1, <1>2 DEF SeedGrows

LEMMA SeedUnknownKept ==
  ASSUME IInv, NEW o \in Makers, SeedUnknown(o)
  PROVE  IInv'
<1>1. SeedGrows
  BY SeedWritten DEF SeedUnknown, Making
<1>2. Ended(o) /\ UNCHANGED <<secret, held, vm>>
  BY DEF SeedUnknown
<1>3. NamedIsThere' /\ vm' \in [Copies -> {"own or none", "copy", None}]
  BY <1>1, <1>2, SameSecrets, NamedStays, VmType
<1> QED
  BY <1>1, <1>2, <1>3, EndedKept

LEMMA SeedKept ==
  ASSUME IInv, NEW o \in Makers, Seed(o)
  PROVE  IInv'
<1> DEFINE pc == CASE make[o].lines = {} -> "machine"
                   [] make[o].lines # {} /\ make[o].whole -> "copy"
                   [] OTHER -> "own"
           m == [make[o] EXCEPT !.pc = pc]
<1>1. /\ o \in Requests /\ make[o] \in Makes /\ make[o].pc = "seed"
      /\ Prepared(make[o], op[o], secret, held, seed)
  BY MakingType DEF Seed, Making
<1>2. SeedGrows /\ seed'[make[o].ns] # None /\ UNCHANGED <<secret, held, vm>>
  BY <1>1, SeedWritten DEF Seed
<1>3. NamedIsThere' /\ vm' \in [Copies -> {"own or none", "copy", None}]
  BY <1>2, SameSecrets, NamedStays, VmType
<1>4. make' = [make EXCEPT ![o] = m]
  BY DEF Seed, AfterSeed
<1>5. /\ pc \in {"machine", "copy", "own"}
      /\ pc = "copy" => make[o].lines # {} /\ make[o].whole = TRUE
  BY <1>1 DEF Makes
<1> HIDE DEF pc
<1>6. /\ m \in Makes /\ m.pc = pc /\ m.ns = make[o].ns /\ m.lines = make[o].lines
      /\ m.whole = make[o].whole /\ m.cred = make[o].cred
  BY <1>1, <1>5 DEF Makes
<1>7. make'[o].pc = pc
  BY <1>4, <1>6 DEF IInv, MakeType
<1>8. op[o] \in Ops /\ Claims(op[o], secret, held) /\ op[o].pc = "make"
      /\ op[o].verb = "attach" /\ op[o].target = make[o].ns
  BY <1>1, UnderwayType DEF IInv, Prepared
<1> HIDE DEF m
<1>9. CASE pc # "copy"
  <2>1. op' = op
    BY <1>7, <1>9 DEF Seed, AfterSeed
  <2>2. Kept(o)
    BY <1>2, <2>1, StillKept
  <2>3. Prepared(m, op'[o], secret', held', seed')
    BY <1>1, <1>2, <1>5, <1>6, <1>9, <2>1 DEF Prepared
  <2> QED
    BY <1>2, <1>3, <1>4, <1>6, <2>2, <2>3, CreationKept
<1>10. CASE pc = "copy"
  <2> DEFINE r == [op[o] EXCEPT !.pc = "read", !.list = make[o].lines]
  <2>1. op' = [op EXCEPT ![o] = r]
    BY <1>7, <1>10 DEF Seed, AfterSeed
  <2>2. r \in Ops
    BY <1>1, <1>8 DEF Ops, Makes
  <2>3. /\ r.pc = "read" /\ r.verb = "attach" /\ r.list = make[o].lines
        /\ r.target = make[o].ns /\ r.listed = op[o].listed /\ r.alone = op[o].alone
    BY <1>8 DEF Ops
  <2>4. op'[o] = r
    BY <1>1, <2>1 DEF IInv, KeysInv, TypeOK
  <2> HIDE DEF r
  <2>5. op[o].listed = FALSE
    BY <1>1 DEF Prepared
  <2>6. make[o].lines \in held /\ (op[o].alone = TRUE => secret[Home] = make[o].lines)
    BY <1>1, <1>5, <1>10 DEF Prepared, List
  <2>7. Claims(r, secret, held)
    BY <2>3, <2>5, <2>6 DEF Claims, Sound, Current
  <2>8. Kept(o)
    BY <1>1, <1>2, <1>8, <2>1, <2>2, <2>3, <2>7, ReadsOnly DEF IInv
  <2>9. Prepared(m, op'[o], secret', held', seed')
    BY <1>1, <1>2, <1>6, <1>10, <2>3, <2>4 DEF Prepared
  <2> QED
    BY <1>2, <1>3, <1>4, <1>6, <2>8, <2>9, CreationKept
<1> QED
  BY <1>9, <1>10

LEMMA CopyStepKept ==
  ASSUME IInv, NEW o \in Makers, CopyStep(o)
  PROVE  IInv'
<1> DEFINE m == make[o]
<1>1. /\ o \in Requests /\ m \in Makes /\ m.pc = "copy"
      /\ Prepared(m, op[o], secret, held, seed)
  BY MakingType DEF CopyStep, Making
<1>2. UNCHANGED <<seed, vm, make>>
  BY DEF CopyStep
<1>3. op[o].pc # "idle" => op[o] \in Ops /\ op[o].verb = "attach" /\ op[o].target = m.ns
  BY <1>1, UnderwayType DEF IInv, Prepared
<1>4. op \in [Requests -> Ops \cup {Idle}]
  BY DEF IInv, KeysInv, TypeOK
<1>5. Kept(o) /\ (op'[o] = Idle \/ (op'[o].verb = "attach" /\ op'[o].target = m.ns))
  <2>1. CASE Read(o)
    <3>1. Kept(o)
      BY <1>1, <2>1, ReadKept DEF IInv
    <3>2. op[o].pc = "read"
      BY <2>1 DEF Read, At
    <3>3. CASE op' = [op EXCEPT ![o].pc = "confirmed"]
      BY <1>1, <1>3, <1>4, <3>1, <3>2, <3>3 DEF Ops
    <3>4. CASE ~(op' = [op EXCEPT ![o].pc = "confirmed"])
      <4>1. op' = [op EXCEPT ![o].pc = "write", ![o].existed = (secret[op[o].target] # None),
                             ![o].fresh = TRUE]
        BY <2>1, <3>4 DEF Read
      <4>2. PICK b \in BOOLEAN : b = (secret[op[o].target] # None)
        OBVIOUS
      <4>3. op' = [op EXCEPT ![o].pc = "write", ![o].existed = b, ![o].fresh = TRUE]
        BY <4>1, <4>2
      <4>4. op'[o].verb = "attach" /\ op'[o].target = m.ns
        BY <1>1, <1>3, <1>4, <3>2, <4>3 DEF Ops
      <4> QED
        BY <3>1, <4>4
    <3> QED
      BY <3>3, <3>4
  <2>2. CASE Write(o)
    <3>1. Kept(o)
      BY <1>1, <2>2, WriteKept DEF IInv
    <3>2. op[o].pc = "write" /\ op' = [Stale(op, op[o].target) EXCEPT ![o] = After(o)]
      BY <2>2 DEF Write, At
    <3>3. op'[o] = [op[o] EXCEPT !.pc = "confirmed"]
      BY <1>1, <1>3, <3>2 DEF Stale, After
    <3>4. op'[o].verb = "attach" /\ op'[o].target = m.ns
      BY <1>3, <3>2, <3>3 DEF Ops
    <3> QED
      BY <3>1, <3>4
  <2>3. CASE Refused(o) \/ Fail(o)
    <3>1. op' = [op EXCEPT ![o] = Idle] /\ UNCHANGED <<secret, held>>
      BY <2>3 DEF Refused, Fail
    <3>2. Kept(o)
      BY <1>1, <3>1, EndsKept DEF IInv
    <3> QED
      BY <1>1, <1>4, <3>1, <3>2
  <2>4. CASE WriteUnknown(o)
    <3>1. Kept(o)
      BY <1>1, <2>4, WriteUnknownKept DEF IInv
    <3>2. op'[o] = Idle
      BY <1>1, <2>4 DEF WriteUnknown, Stale
    <3> QED
      BY <3>1, <3>2
  <2> QED
    BY <2>1, <2>2, <2>3, <2>4 DEF CopyStep
<1>6. SeedGrows /\ Grows
  BY <1>2, <1>5, SameSeed DEF Kept
<1>7. NamedIsThere' /\ vm' \in [Copies -> {"own or none", "copy", None}]
  BY <1>2, <1>6, NamedStays, VmType
<1>8. make' = [make EXCEPT ![o] = m]
  BY <1>2 DEF IInv, MakeType
<1>9. m.ns \in Copies /\ m.ns \in Namespaces
  BY <1>1 DEF Prepared, Copies
<1> HIDE DEF m
<1>10. op'[o].pc # "idle" => op'[o].verb = "attach" /\ op'[o].target = m.ns
  BY <1>5 DEF Idle
<1>11. Prepared(m, op'[o], secret', held', seed')
  BY <1>1, <1>2, <1>6, <1>9, <1>10 DEF Prepared, Grows
<1> QED
  BY <1>1, <1>5, <1>6, <1>7, <1>8, <1>11, CreationKept

\* A creation that notes where it is: nothing else changes.
LEMMA NotedKept ==
  ASSUME IInv, NEW o \in Makers, make[o].pc \notin {"none", "seed"},
         UNCHANGED <<secret, op, held, seed>>,
         NEW m \in Makes, make' = [make EXCEPT ![o] = m], m.pc \in {"machine", "told"},
         m.ns = make[o].ns, m.lines = make[o].lines, m.whole = make[o].whole,
         m.cred = "copy" => secret[m.ns] # None,
         vm' \in [Copies -> {"own or none", "copy", None}], NamedIsThere'
  PROVE  IInv'
<1>1. Prepared(make[o], op[o], secret, held, seed)
  BY MakingType
<1>2. Prepared(m, op'[o], secret', held', seed')
  BY <1>1 DEF Prepared
<1>3. Kept(o) /\ SeedGrows
  BY StillKept, SameSeed
<1> QED
  BY <1>2, <1>3, CreationKept

LEMMA CopiedKept ==
  ASSUME IInv, NEW o \in Makers, Copied(o) \/ Own(o)
  PROVE  IInv'
<1>1. /\ o \in Requests /\ make[o] \in Makes /\ make[o].pc \in {"copy", "own"}
      /\ Prepared(make[o], op[o], secret, held, seed)
  BY MakingType DEF Copied, Own, Making
<1>2. UNCHANGED <<secret, op, held, seed, vm>>
  BY DEF Copied, Own
<1>3. NamedIsThere' /\ vm' \in [Copies -> {"own or none", "copy", None}]
  BY <1>2, SameSeed, SameSecrets, NamedStays, VmType
<1>4. CASE make' = Noted(o)
  <2> DEFINE m == [make[o] EXCEPT !.pc = "machine"]
  <2>1. /\ m \in Makes /\ m.pc = "machine" /\ m.ns = make[o].ns /\ m.lines = make[o].lines
        /\ m.whole = make[o].whole /\ m.cred = make[o].cred
    BY <1>1 DEF Makes
  <2>2. make' = [make EXCEPT ![o] = m]
    BY <1>4 DEF Noted
  <2>3. m.cred = "copy" => secret[m.ns] # None
    BY <1>1, <2>1 DEF Prepared
  <2> HIDE DEF m
  <2> QED
    BY <1>1, <1>2, <1>3, <2>1, <2>2, <2>3, NotedKept
<1>5. CASE At(o, "confirmed") /\ Making(o, "copy") /\ make' = Named(o)
  <2> DEFINE m == [make[o] EXCEPT !.pc = "machine", !.cred = "copy"]
  <2>1. /\ m \in Makes /\ m.pc = "machine" /\ m.ns = make[o].ns /\ m.lines = make[o].lines
        /\ m.whole = make[o].whole /\ m.cred = "copy"
    BY <1>1 DEF Makes
  <2>2. make' = [make EXCEPT ![o] = m]
    BY <1>5 DEF Named
  <2>3. op[o].pc = "confirmed" /\ op[o].verb = "attach" /\ op[o].target = make[o].ns
    BY <1>1, <1>5 DEF At, Making, Prepared
  <2>4. secret[m.ns] # None
    <3>1. Claims(op[o], secret, held)
      <4>1. KeysInv /\ o \in Requests /\ op[o].pc # "idle"
        BY <1>1, <2>3 DEF IInv
      <4> QED
        BY <4>1, UnderwayType
    <3> QED
      BY <2>1, <2>3, <3>1 DEF Claims, Sound
  <2> HIDE DEF m
  <2> QED
    BY <1>1, <1>2, <1>3, <2>1, <2>2, <2>4, NotedKept
<1> QED
  BY <1>4, <1>5 DEF Copied, Own

LEMMA MachineKept ==
  ASSUME IInv, NEW o \in Makers, Machine(o)
  PROVE  IInv'
<1>1. /\ o \in Requests /\ make[o] \in Makes /\ make[o].pc = "machine"
      /\ Prepared(make[o], op[o], secret, held, seed)
  BY MakingType DEF Machine, Making
<1>2. UNCHANGED <<secret, held, seed>> /\ vm' = [vm EXCEPT ![make[o].ns] = make[o].cred]
  BY DEF Machine
<1>3. vm' \in [Copies -> {"own or none", "copy", None}]
  BY <1>1, <1>2 DEF IInv, MakeType, Makes
<1>4. NamedIsThere'
  BY <1>1, <1>2 DEF IInv, MakeType, NamedIsThere, Prepared
<1>5. CASE Ended(o)
  BY <1>2, <1>3, <1>4, <1>5, SameSeed, EndedKept
<1>6. CASE make' = [make EXCEPT ![o].pc = "told"] /\ UNCHANGED op
  <2> DEFINE m == [make[o] EXCEPT !.pc = "told"]
  <2>1. /\ m \in Makes /\ m.pc = "told" /\ m.ns = make[o].ns /\ m.lines = make[o].lines
        /\ m.whole = make[o].whole /\ m.cred = make[o].cred
    BY <1>1 DEF Makes
  <2>2. make' = [make EXCEPT ![o] = m]
    BY <1>6
  <2>3. m.cred = "copy" => secret[m.ns] # None
    BY <1>1, <2>1 DEF Prepared
  <2> HIDE DEF m
  <2> QED
    BY <1>1, <1>2, <1>3, <1>4, <1>6, <2>1, <2>2, <2>3, NotedKept
<1> QED
  BY <1>5, <1>6 DEF Machine

-----------------------------------------------------------------------------
LEMMA InitKept == CreateInit => IInv
<1> SUFFICES ASSUME CreateInit PROVE IInv
  OBVIOUS
<1>1. /\ secret = [ns \in Namespaces |-> None] /\ op = [o \in Requests |-> Idle]
      /\ held = {{}}
  BY DEF CreateInit, Init
<1>2. TypeOK /\ {} \in held /\ CopyOfHome
  BY <1>1, HomeAssumption DEF TypeOK, CopyOfHome, List, Lists, Copies
<1>3. Underway = {}
  BY <1>1 DEF Underway, At, Idle
<1>4. KeysInv
  BY <1>2, <1>3 DEF KeysInv, Alone
<1>5. NotMaking \in Makes /\ NotMaking.pc = "none"
  BY HomeAssumption DEF NotMaking, Makes, Lists
<1>6. make = [o \in Makers |-> NotMaking]
  BY DEF CreateInit
<1> HIDE DEF NotMaking
<1>7. MakeType /\ MakeInv
  BY <1>5, <1>6 DEF CreateInit, MakeType, MakeInv, Making
<1>8. NamedIsThere
  BY DEF CreateInit, NamedIsThere
<1> QED
  BY <1>4, <1>7, <1>8 DEF IInv

\* An edit or an attach beside the creations.
LEMMA BesideKept ==
  ASSUME IInv, NEW o \in Requests, Kept(o), o \in Makers => Making(o, "none"),
         UNCHANGED <<seed, vm, make>>
  PROVE  IInv'
<1>1. SeedGrows /\ Grows
  BY SameSeed DEF Kept
<1>2. NamedIsThere'
  BY <1>1, NamedStays
<1>3. MakeType'
  BY DEF IInv, MakeType
<1>4. MakeInv'
  <2> SUFFICES ASSUME NEW q \in Makers, make'[q].pc # "none"
               PROVE  Prepared(make'[q], op'[q], secret', held', seed')
    BY DEF MakeInv, Making
  <2>1. q # o /\ make'[q] = make[q] /\ make[q].pc # "none"
    BY DEF Making
  <2> QED
    BY <1>1, <2>1, OtherCreation
<1> QED
  BY <1>2, <1>3, <1>4 DEF IInv, Kept

LEMMA NextKept == IInv /\ [CreateNext]_mvars => IInv'
<1> SUFFICES ASSUME IInv, [CreateNext]_mvars PROVE IInv'
  OBVIOUS
<1>1. ASSUME NEW o \in Requests, o \in Makers => Making(o, "none"), Request(o),
             UNCHANGED <<seed, vm, make>>
      PROVE  IInv'
  BY <1>1, RequestKept, BesideKept DEF IInv
<1>2. ASSUME NEW o \in Makers, Creation(o) PROVE IInv'
  BY <1>2, CreateAskedKept, CreationEndsKept, SeedKept, SeedUnknownKept, CopyStepKept,
     CopiedKept, MachineKept DEF Creation
<1>3. ASSUME NEW ns \in Copies, DeleteMachine(ns) PROVE IInv'
  <2>1. UNCHANGED <<secret, op, held, seed, make>> /\ vm' = [vm EXCEPT ![ns] = None]
    BY <1>3 DEF DeleteMachine
  <2>2. NamedIsThere' /\ MakeType'
    BY <2>1 DEF IInv, NamedIsThere, MakeType
  <2>3. KeysInv'
    BY <2>1, StillKept DEF Kept
  <2>4. MakeInv'
    BY <2>1 DEF IInv, MakeInv, Making
  <2> QED
    BY <2>2, <2>3, <2>4 DEF IInv
<1>4. CASE UNCHANGED mvars
  <2>1. UNCHANGED <<secret, op, held, seed, vm, make>>
    BY <1>4 DEF mvars
  <2>2. KeysInv'
    BY <2>1, StillKept DEF Kept
  <2>3. NamedIsThere' /\ MakeType' /\ MakeInv'
    BY <2>1 DEF IInv, NamedIsThere, MakeType, MakeInv, Making
  <2> QED
    BY <2>2, <2>3 DEF IInv
<1> QED
  BY <1>1, <1>2, <1>3, <1>4 DEF CreateNext

LEMMA Inductive == CreateSpec => []IInv
<1>1. CreateInit => IInv
  BY InitKept
<1>2. IInv /\ [CreateNext]_mvars => IInv'
  BY NextKept
<1> QED
  BY <1>1, <1>2, PTL DEF CreateSpec

\* Every variable of the key store has its type, and the home Secret holds one of the
\* lists it held.
THEOREM KeyTypesCorrect == CreateSpec => []TypeOK
<1>1. IInv => TypeOK
  BY DEF IInv, KeysInv
<1> QED
  BY <1>1, Inductive, PTL

\* No copy is ever ahead of the home Secret: whatever writes fail, conflict or lose their
\* answer, with edits, attaches and creations under way together, a copy is a list the home
\* Secret held.
THEOREM CopiesComeFromHome == CreateSpec => []CopyOfHome
<1>1. IInv => CopyOfHome
  BY DEF IInv, KeysInv
<1> QED
  BY <1>1, Inductive, PTL

\* A confirmed edit that was alone and could list the copies has brought every one of them
\* up to date, and a key it removed is in no Secret, however many copies there are and
\* whatever earlier edits left in them.
THEOREM EditsReachCopies == CreateSpec => []EditReachesCopies
<1>1. IInv => EditReachesCopies
  <2> SUFFICES ASSUME IInv, NEW o \in Requests, Told(o, {"add", "remove"}), op[o].alone,
                      op[o].listed
               PROVE  /\ \A ns \in Copies : secret[ns] \in {None, secret[Home]}
                      /\ Told(o, {"remove"}) =>
                           \A ns \in Namespaces : op[o].key \notin List(secret[ns])
    BY DEF EditReachesCopies
  <2>1. op[o] \in Ops /\ Claims(op[o], secret, held) /\ op[o].pc = "confirmed"
    BY UnderwayType DEF IInv, Told, At
  <2>2. op[o].alone = TRUE /\ op[o].listed = TRUE
    BY <2>1 DEF Ops
  <2>3. secret[Home] = op[o].list /\ \A ns \in Copies : secret[ns] \in {None, op[o].list}
    BY <2>1, <2>2 DEF Claims, Sound, Current, Behind
  <2>4. Told(o, {"remove"}) => op[o].key \notin op[o].list
    BY <2>1 DEF Claims, Sound, Told
  <2> QED
    BY <2>3, <2>4 DEF Copies, List
<1> QED
  BY <1>1, Inductive, PTL

\* A confirmed attach that was alone left the machine's namespace with the list the home
\* Secret holds, whatever was there before.
THEOREM AttachesAreCurrent == CreateSpec => []AttachedIsCurrent
<1>1. IInv => AttachedIsCurrent
  <2> SUFFICES ASSUME IInv, NEW o \in Requests, Told(o, {"attach"}), op[o].alone
               PROVE  secret[op[o].target] = secret[Home]
    BY DEF AttachedIsCurrent
  <2>1. op[o] \in Ops /\ Claims(op[o], secret, held) /\ op[o].pc = "confirmed"
        /\ op[o].verb = "attach"
    BY UnderwayType DEF IInv, Told, At
  <2>2. op[o].alone = TRUE
    BY <2>1 DEF Ops
  <2> QED
    BY <2>1, <2>2 DEF Claims, Current
<1> QED
  BY <1>1, Inductive, PTL

\* A machine that is there has its seed, and the Secret it names for its keys, whichever
\* step of its creation failed, was lost or overtaken by an edit.
THEOREM NamedExists == CreateSpec => []NamedIsThere
<1>1. IInv => NamedIsThere
  BY DEF IInv
<1> QED
  BY <1>1, Inductive, PTL

=============================================================================
