------------------------------ MODULE VmCreate ------------------------------
(***************************************************************************)
(* Creating a virtual machine (vm/create.rs), beside the edits of the SSH  *)
(* keys it carries (KeyStore): one machine name in every namespace but the *)
(* home of the keys.                                                       *)
(*                                                                         *)
(* A creation reads the saved keys, waits for its root disk (RootDisks),   *)
(* writes the cloud-init seed, then the Secrets its accessCredentials will *)
(* name, then the VirtualMachine: objects of one machine, one request      *)
(* each, and whatever was written stays when a later one is refused.       *)
(***************************************************************************)
EXTENDS KeyStore

CONSTANT Makers     \* the requests that may be creations

ASSUME MakersAssumption == Makers \subseteq Requests

VARIABLES
  seed,         \* the apiserver: the keys in the cloud-init Secret of each namespace
  vm,           \* the apiserver: what the machine's accessCredentials name
  make          \* what each creation under way has settled

mvars == <<secret, op, held, seed, vm, make>>

NotMaking == [pc |-> "none", ns |-> Home, lines |-> {}, whole |-> FALSE, cred |-> "own or none"]

CreateInit ==
  /\ Init
  /\ seed = [ns \in Copies |-> None]
  /\ vm   = [ns \in Copies |-> None]
  /\ make = [o \in Makers |-> NotMaking]

Making(o, pc) == o \in Makers /\ make[o].pc = pc

\* The saved keys without the unticked ones; a list that could not be read is empty.
\* All of them are the user's Secret, any other choice is the machine's own.
CreateAsked(o, ns) ==
  /\ Making(o, "none") /\ At(o, "idle")
  /\ \E lines \in SUBSET List(secret[Home]) :
       make' = [make EXCEPT ![o] = [NotMaking EXCEPT !.pc = "seed", !.ns = ns, !.lines = lines,
                                                     !.whole = (lines = List(secret[Home]))]]
  /\ op' = Arrived(o, "make", "attach", None, ns)
  /\ UNCHANGED <<secret, held, seed, vm>>

Ended(o) ==
  /\ op' = [op EXCEPT ![o] = Idle]
  /\ make' = [make EXCEPT ![o] = NotMaking]

\* The root disk cannot be had (RootDisks), the form makes no machine, the project is a
\* hidden or a system one, a write is refused: the creation ends, and what it wrote stays.
CreateFailed(o) ==
  /\ make[o].pc \in {"seed", "machine"}
  /\ Ended(o)
  /\ UNCHANGED <<secret, held, seed, vm>>

\* After the seed, the Secrets: KeyStore's ensure_copy, with the list read at first.
AfterSeed(o) ==
  /\ make' = [make EXCEPT ![o].pc = CASE make[o].lines = {} -> "machine"
                                      [] make[o].lines # {} /\ make[o].whole -> "copy"
                                      [] OTHER -> "own"]
  /\ op' = IF make'[o].pc = "copy"
           THEN [op EXCEPT ![o].pc = "read", ![o].list = make[o].lines] ELSE op

\* "409 is fine: recreating a machine of the same name reuses its seed".
Seed(o) ==
  /\ Making(o, "seed")
  /\ seed' = [seed EXCEPT ![make[o].ns] = IF @ = None THEN make[o].lines ELSE @]
  /\ AfterSeed(o)
  /\ UNCHANGED <<secret, held, vm>>

SeedUnknown(o) ==
  /\ Making(o, "seed")
  /\ seed[make[o].ns] = None
  /\ seed' = [seed EXCEPT ![make[o].ns] = make[o].lines]
  /\ Ended(o)
  /\ UNCHANGED <<secret, held, vm>>

CopyStep(o) ==
  /\ Making(o, "copy")
  /\ Read(o) \/ Write(o) \/ Refused(o) \/ WriteUnknown(o) \/ Fail(o)
  /\ UNCHANGED <<seed, vm, make>>

Named(o) == [make EXCEPT ![o].pc = "machine", ![o].cred = "copy"]
Noted(o) == [make EXCEPT ![o].pc = "machine"]

\* Mutant: the credential is named whether or not its Secret was written.
CopiedWhatever(o) ==
  /\ Making(o, "copy")
  /\ At(o, "confirmed") \/ At(o, "idle")
  /\ make' = Named(o)
  /\ UNCHANGED <<secret, op, held, seed, vm>>

\* The end of ensure_copy: one that failed is noted, and is not fatal.
Copied(o) ==
  /\ Making(o, "copy")
  /\ \/ At(o, "confirmed") /\ make' = Named(o)
     \/ At(o, "idle") /\ make' = Noted(o)
  /\ UNCHANGED <<secret, op, held, seed, vm>>

\* machine_secret: a Secret no one but the machine's creations write, named if it was
\* written; what else a machine names of its own is not told apart.
Own(o) ==
  /\ Making(o, "own")
  /\ make' = Noted(o)
  /\ UNCHANGED <<secret, op, held, seed, vm>>

\* The VirtualMachine, and what is said of it; or its answer is lost.
Machine(o) ==
  /\ Making(o, "machine")
  /\ vm[make[o].ns] = None
  /\ vm' = [vm EXCEPT ![make[o].ns] = make[o].cred]
  /\ \/ make' = [make EXCEPT ![o].pc = "told"] /\ UNCHANGED op
     \/ Ended(o)
  /\ UNCHANGED <<secret, held, seed>>

CreateLeft(o) ==
  /\ Making(o, "told")
  /\ Ended(o)
  /\ UNCHANGED <<secret, held, seed, vm>>

\* The definition goes; its seed and its Secret stay behind (delete_machine).
DeleteMachine(ns) ==
  /\ vm[ns] # None
  /\ vm' = [vm EXCEPT ![ns] = None]
  /\ UNCHANGED <<secret, op, held, seed, make>>

-----------------------------------------------------------------------------
Creation(o) ==
  \/ \E ns \in Copies : CreateAsked(o, ns)
  \/ CreateFailed(o) \/ Seed(o) \/ SeedUnknown(o)
  \/ CopyStep(o) \/ Copied(o) \/ Own(o) \/ Machine(o) \/ CreateLeft(o)

CreateNext ==
  \/ \E o \in Requests : (o \in Makers => Making(o, "none")) /\ Request(o) /\ UNCHANGED <<seed, vm, make>>
  \/ \E o \in Makers : Creation(o)
  \/ \E ns \in Copies : DeleteMachine(ns)

CreateSpec == CreateInit /\ [][CreateNext]_mvars

-----------------------------------------------------------------------------
(* Properties. *)

\* "A machine whose secret does not exist boots with no cloud-init at all", and a
\* credential whose Secret does not exist is one the node cannot read: whatever was
\* refused, lost or edited on the way, everything a machine names is there.
NamedIsThere ==
  \A ns \in Copies : vm[ns] # None =>
    /\ seed[ns] # None
    /\ vm[ns] = "copy" => secret[ns] # None

\* What a comment says and the code does not do (see the finding): "the seed already
\* carries every key", once a creation has counted them.
SeedCarriesKeys ==
  \A o \in Makers : Making(o, "told") => make[o].lines \subseteq seed[make[o].ns]

=============================================================================
