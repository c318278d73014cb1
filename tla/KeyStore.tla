------------------------------ MODULE KeyStore ------------------------------
(***************************************************************************)
(* One user's SSH keys (vm/keystore.rs and the key handlers of vm/lib.rs): *)
(* the list in a home Secret, and a copy of it in every namespace where    *)
(* the user keyed a machine.                                               *)
(*                                                                         *)
(* Every read and write of a Secret is a request of its own, so requests   *)
(* of two pages interleave between them.  A write replaces the version it  *)
(* read (resourceVersion) or creates what was not there, and the apiserver *)
(* refuses it otherwise; it may refuse any, or take it and lose the answer.*)
(***************************************************************************)
EXTENDS Integers, FiniteSets

CONSTANTS
  Keys, Namespaces, Home,
  Requests,     \* requests that can be under way at once
  None          \* no such Secret, no key

ASSUME HomeAssumption == Home \in Namespaces
ASSUME NoneAssumption == \A list \in SUBSET Keys : list # None

VARIABLES
  secret,       \* the apiserver: the user's Secret in each namespace
  op,           \* the requests
  held          \* history: every list the home Secret has held

vars == <<secret, op, held>>

Copies  == Namespaces \ {Home}
Lists   == SUBSET Keys
List(s) == IF s = None THEN {} ELSE s

Idle == [pc |-> "idle"]

Init ==
  /\ secret = [ns \in Namespaces |-> None]
  /\ op = [o \in Requests |-> Idle]
  /\ held = {{}}

At(o, pc) == op[o].pc = pc

-----------------------------------------------------------------------------
(* What an operation makes of the list it read: keys_add, keys_remove and   *)
(* "Add my keys" of a machine (which makes nothing of it).                  *)

Edited(o, list) ==
  CASE op[o].verb = "add"    -> list \cup {op[o].key}
    [] op[o].verb = "remove" -> list \ {op[o].key}
    [] op[o].verb = "attach" -> list

\* Nothing to do: the key is saved already, there is no such key, or no key at all.
NothingToDo(o, list) ==
  CASE op[o].verb = "add"    -> op[o].key \in list
    [] op[o].verb = "remove" -> op[o].key \notin list
    [] op[o].verb = "attach" -> list = {}

\* `alone` is history: no other request was under way at any time since.
Arrived(o, pc, verb, key, ns) ==
  LET alone == \A p \in Requests : At(p, "idle") \/ At(p, "confirmed")
      New   == [pc |-> pc, verb |-> verb, key |-> key, list |-> {}, target |-> ns,
                existed |-> FALSE, fresh |-> FALSE, left |-> {}, listed |-> FALSE,
                alone |-> alone]
  IN  [p \in Requests |-> IF p = o THEN New
                          ELSE IF At(p, "idle") THEN Idle
                          ELSE [op[p] EXCEPT !.alone = FALSE]]

Arrive(o, verb, key, ns) ==
  /\ At(o, "idle")
  /\ op' = Arrived(o, "saved", verb, key, ns)
  /\ UNCHANGED <<secret, held>>

\* keystore::saved, and the list the handler makes of it.
Saved(o) ==
  /\ At(o, "saved")
  /\ LET list == List(secret[Home])
     IN  op' = IF NothingToDo(o, list) THEN [op EXCEPT ![o] = Idle]
               ELSE [op EXCEPT ![o].list = Edited(o, list), ![o].pc = "read",
                               ![o].target = IF op[o].verb = "attach" THEN @ ELSE Home]
  /\ UNCHANGED <<secret, held>>

Fail(o) ==
  /\ op[o].pc \in {"saved", "read", "write"}
  /\ op' = [op EXCEPT ![o] = Idle]
  /\ UNCHANGED <<secret, held>>

\* Mutant: a copy that is there is taken for current.
ReadIfAny(o) ==
  /\ At(o, "read")
  /\ LET s == secret[op[o].target]
     IN  op' = IF op[o].verb = "attach" /\ s # None
               THEN [op EXCEPT ![o].pc = "confirmed"]
               ELSE [op EXCEPT ![o].pc = "write", ![o].existed = (s # None),
                               ![o].fresh = TRUE]
  /\ UNCHANGED <<secret, held>>

\* The Secret is read for the version the write will carry.  A machine's copy that
\* holds the list already is left as it is (ensure_copy).
Read(o) ==
  /\ At(o, "read")
  /\ LET s == secret[op[o].target]
     IN  op' = IF op[o].verb = "attach" /\ s = op[o].list
               THEN [op EXCEPT ![o].pc = "confirmed"]
               ELSE [op EXCEPT ![o].pc = "write", ![o].existed = (s # None),
                               ![o].fresh = TRUE]
  /\ UNCHANGED <<secret, held>>

\* Mutant: a replace leaves the items it does not name.
Merged(old, list) == List(old) \cup list

\* What a replace leaves: its own items, because it empties `data` as well.
Replaced(old, list) == list

Accepted(o) ==
  LET s == secret[op[o].target]
  IN  IF op[o].existed THEN s # None /\ op[o].fresh ELSE s = None

\* The write takes effect, and every version read of that Secret is old.
Commit(o) ==
  LET ns == op[o].target
  IN  /\ secret' = [secret EXCEPT ![ns] = Replaced(@, op[o].list)]
      /\ held' = IF ns = Home THEN held \cup {secret'[Home]} ELSE held

Stale(ops, ns) ==
  [p \in Requests |-> IF ops[p].pc = "write" /\ ops[p].target = ns
                      THEN [ops[p] EXCEPT !.fresh = FALSE] ELSE ops[p]]

\* What comes after a write: the copies after the home Secret, and each in turn.
After(o) ==
  IF op[o].verb = "attach" THEN [op[o] EXCEPT !.pc = "confirmed"]
  ELSE [op[o] EXCEPT !.pc = IF op[o].target = Home THEN "copies" ELSE "next"]

Write(o) ==
  /\ At(o, "write")
  /\ Accepted(o)
  /\ Commit(o)
  /\ op' = [Stale(op, op[o].target) EXCEPT ![o] = After(o)]

\* Mutant: a home Secret that could not be written does not end the edit.
RefusedIgnored(o) ==
  /\ At(o, "write")
  /\ op' = [op EXCEPT ![o] = After(o)]
  /\ UNCHANGED <<secret, held>>

\* A 409, a 403, or no answer: the request ends, the copies left as they are.
Refused(o) ==
  /\ At(o, "write")
  /\ op' = [op EXCEPT ![o] = Idle]
  /\ UNCHANGED <<secret, held>>

WriteUnknown(o) ==
  /\ At(o, "write")
  /\ Accepted(o)
  /\ Commit(o)
  /\ op' = [Stale(op, op[o].target) EXCEPT ![o] = Idle]

\* keystore::copies: every namespace that has one, or none for a viewer who may not
\* list Secrets across the cluster.
ListCopies(o) ==
  /\ At(o, "copies")
  /\ \E listed \in BOOLEAN :
       op' = [op EXCEPT ![o].pc = "next", ![o].listed = listed,
                        ![o].left = IF listed THEN {ns \in Copies : secret[ns] # None}
                                    ELSE {}]
  /\ UNCHANGED <<secret, held>>

NextCopy(o) ==
  /\ At(o, "next")
  /\ IF op[o].left = {} THEN op' = [op EXCEPT ![o].pc = "confirmed"]
     ELSE \E ns \in op[o].left :
            op' = [op EXCEPT ![o].pc = "read", ![o].target = ns, ![o].left = @ \ {ns}]
  /\ UNCHANGED <<secret, held>>

Leave(o) ==
  /\ At(o, "confirmed")
  /\ op' = [op EXCEPT ![o] = Idle]
  /\ UNCHANGED <<secret, held>>

-----------------------------------------------------------------------------
Request(o) ==
  \/ \E key \in Keys : Arrive(o, "add", key, Home) \/ Arrive(o, "remove", key, Home)
  \/ \E ns \in Namespaces : Arrive(o, "attach", None, ns)
  \/ Saved(o) \/ Fail(o) \/ Read(o)
  \/ Write(o) \/ Refused(o) \/ WriteUnknown(o)
  \/ ListCopies(o) \/ NextCopy(o) \/ Leave(o)

Next == \E o \in Requests : Request(o)
Spec == Init /\ [][Next]_vars

-----------------------------------------------------------------------------
(* Properties. *)

\* "make" is a creation of VmCreate that is not at its copy.
Ops == [pc : {"make", "saved", "read", "write", "copies", "next", "confirmed"},
        verb : {"add", "remove", "attach"}, key : Keys \cup {None}, list : Lists,
        target : Namespaces, existed : BOOLEAN, fresh : BOOLEAN,
        left : SUBSET Copies, listed : BOOLEAN, alone : BOOLEAN]

\* Every variable has its type; the home Secret holds one of the lists it held.
TypeOK ==
  /\ secret \in [Namespaces -> Lists \cup {None}]
  /\ op \in [Requests -> Ops \cup {Idle}]
  /\ held \in SUBSET Lists
  /\ List(secret[Home]) \in held

\* "The home namespace holds the original": a copy is never ahead of it - whatever
\* writes fail, conflict or lose their answer, every copy is a list the home Secret
\* held, and what an attach is about to write is one too.
CopyOfHome == \A ns \in Copies : List(secret[ns]) \in held

Told(o, verbs) == At(o, "confirmed") /\ op[o].verb \in verbs

\* "An edit on the Account page reaches every one of them" (keys.rs), the copies
\* that failed edits left old included, and no key "would survive its deletion"
\* (write): once an edit is confirmed every copy is the home Secret's list and a
\* removed key is in none, if the copies could be listed and no other request was
\* under way.
EditReachesCopies ==
  \A o \in Requests : Told(o, {"add", "remove"}) /\ op[o].alone /\ op[o].listed =>
    /\ \A ns \in Copies : secret[ns] \in {None, secret[Home]}
    /\ Told(o, {"remove"}) => \A ns \in Namespaces : op[o].key \notin List(secret[ns])

\* "Make sure ns holds a current copy" (ensure_copy): once an attach is confirmed the
\* machine's namespace holds the list the home Secret holds, whatever edit or attach
\* left it stale before, if no other request was under way.
AttachedIsCurrent ==
  \A o \in Requests : Told(o, {"attach"}) /\ op[o].alone =>
    secret[op[o].target] = secret[Home]

=============================================================================
