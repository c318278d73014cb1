---------------------------- MODULE RenewedWord ----------------------------
(***************************************************************************)
(* What following a file promises: a word that is renewed under the        *)
(* threads that ask for it, each of which is answered a word that was held *)
(* while it asked - never an older one - and is told there is none only    *)
(* where there was none, or where its own look at the file went wrong.     *)
(* One look is not covered: what was read while the file came up is kept   *)
(* for a missing file, so a thread that found none may be told any word.   *)
(***************************************************************************)
CONSTANTS
  Readers,      \* the threads that ask
  Words,        \* what the file may hold
  NoWord        \* nothing, or no file

VARIABLES
  word,         \* what the file holds
  ask           \* what each thread is at

Idle == [pc |-> "idle"]
Asking(held, failed, missed) == [pc |-> "asking", held |-> held, failed |-> failed, missed |-> missed]
Answered(w) == [pc |-> "answered", word |-> w]

Init == word \in Words \cup {NoWord} /\ ask = [c \in Readers |-> Idle]

Renew ==
  /\ word' \in Words \cup {NoWord}
  /\ ask' = [c \in Readers |-> IF ask[c].pc = "asking"
                               THEN Asking(ask[c].held \cup {word'}, ask[c].failed, ask[c].missed)
                               ELSE ask[c]]

Begin(c) ==
  /\ ask[c].pc = "idle"
  /\ ask' = [ask EXCEPT ![c] = Asking({word}, FALSE, FALSE)]
  /\ UNCHANGED word

Fault(c) ==
  /\ ask[c].pc = "asking"
  /\ ask' = [ask EXCEPT ![c] = Asking(@.held, TRUE, @.missed)]
  /\ UNCHANGED word

\* It looks while there is nothing to find.
Miss(c) ==
  /\ ask[c].pc = "asking"
  /\ word = NoWord
  /\ ask' = [ask EXCEPT ![c] = Asking(@.held, @.failed, TRUE)]
  /\ UNCHANGED word

Answer(c) ==
  /\ ask[c].pc = "asking"
  /\ \E w \in ask[c].held \cup (IF ask[c].failed THEN {NoWord} ELSE {})
                           \cup (IF ask[c].missed THEN Words ELSE {}) :
       ask' = [ask EXCEPT ![c] = Answered(w)]
  /\ UNCHANGED word

Leave(c) ==
  /\ ask[c].pc = "answered"
  /\ ask' = [ask EXCEPT ![c] = Idle]
  /\ UNCHANGED word

Next == Renew \/ \E c \in Readers : Begin(c) \/ Fault(c) \/ Miss(c) \/ Answer(c) \/ Leave(c)

Spec == Init /\ [][Next]_<<word, ask>>

=============================================================================
