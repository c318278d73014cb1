------------------------------ MODULE RootDisks ------------------------------
(***************************************************************************)
(* What a new machine can boot from, and how one choice becomes the name   *)
(* of a disk (vm/images.rs, golden_from_reference and the first half of    *)
(* create in vm/create.rs): the list polled into a cache, the image        *)
(* operator that builds and copies meanwhile, and one creation at a time.  *)
(***************************************************************************)
EXTENDS FiniteSets

CONSTANTS
  Images,       \* the catalogue: references the operator knows how to build
  Media,        \* disks imported through the registry, sealed
  None

VARIABLES
  image,        \* the operator: [phase, named] of each reference
  onNode,       \* the volumes of the node a machine may be pinned to
  placing,      \* the images a copy on that node was asked of
  offered,      \* images::Cache: what the form offers
  form          \* the creation under way: [pc, kind, of, pinned, disk]

vars == <<image, onNode, placing, offered, form>>

\* An image has a local name at once; its digest, the volume, when it is told.
Phases == {"absent", "building", "available", "failed"}

\* A choice is a volume, a reference, or an imported medium.
Choice(kind, x) == [kind |-> kind, of |-> x]
NoForm == [pc |-> "none"]

Init ==
  /\ image = [i \in Images |-> [phase |-> "absent", named |-> FALSE]]
  /\ onNode = {} /\ placing = {}
  /\ offered = {}
  /\ form = NoForm

Goldened == {i \in Images : image[i].phase # "absent"}
Sealed   == {i \in Images : image[i].phase = "available"}

-----------------------------------------------------------------------------
(* The operator and the registry, at their own pace. *)

Build(i) ==
  /\ image[i].phase = "building"
  /\ image' = [image EXCEPT ![i] =
       IF ~@.named THEN [@ EXCEPT !.named = TRUE] ELSE [@ EXCEPT !.phase = "available"]]
  /\ UNCHANGED <<onNode, placing, offered, form>>

BuildFails(i) ==
  /\ image[i].phase = "building"
  /\ image' = [image EXCEPT ![i].phase = "failed"]
  /\ UNCHANGED <<onNode, placing, offered, form>>

\* An image asked for elsewhere: the images page, another console.
AskedElsewhere(i) ==
  /\ image[i].phase \in {"absent", "failed"}
  /\ image' = [image EXCEPT ![i] = [phase |-> "building", named |-> FALSE]]
  /\ UNCHANGED <<onNode, placing, offered, form>>

Copied(i) ==
  /\ i \in placing \cap Sealed
  /\ onNode' = onNode \cup {i}
  /\ placing' = placing \ {i}
  /\ UNCHANGED <<image, offered, form>>

-----------------------------------------------------------------------------
(* The list. *)

\* What the operator's two lists make, each answered or not: what is sealed by its
\* volume, and what nobody has asked for by its reference - so far as the images
\* were told, for a list that was not cannot say what is goldened already.
Fetched(images, catalog) ==
  (IF images THEN {Choice("volume", i) : i \in Sealed} ELSE {})
  \cup (IF catalog THEN {Choice("reference", i) : i \in Images \ (IF images THEN Goldened ELSE {})} ELSE {})

\* An empty answer keeps the choices.
Put(choices) == IF choices = {} THEN offered ELSE choices

Poll ==
  /\ \E images, catalog, registry \in BOOLEAN :
       offered' = Put(Fetched(images, catalog)
                      \cup (IF registry THEN {Choice("medium", m) : m \in Media} ELSE {}))
  /\ UNCHANGED <<image, onNode, placing, form>>

-----------------------------------------------------------------------------
(* A creation. *)

\* The value may be of a list older than the cache's, or typed: what value_of cannot
\* find is taken as it is.
Submit(c, pinned) ==
  /\ form = NoForm
  /\ form' = [pc |-> IF c.kind = "reference" THEN "golden" ELSE "place",
              kind |-> c.kind, of |-> c.of, pinned |-> pinned,
              disk |-> IF c.kind = "reference" THEN None ELSE c.kind]
  /\ UNCHANGED <<image, onNode, placing, offered>>

Refuse == form' = NoForm

\* The operator takes the reference, and the node it is pinned to.
Golden ==
  /\ form.pc = "golden"
  /\ \/ Refuse /\ UNCHANGED <<image, placing>>
     \/ /\ image' = IF image[form.of].phase \in {"absent", "failed"}
                    THEN [image EXCEPT ![form.of] = [phase |-> "building", named |-> FALSE]]
                    ELSE image
        /\ placing' = IF form.pinned THEN placing \cup {form.of} ELSE placing
        /\ form' = [form EXCEPT !.pc = "wait"]
  /\ UNCHANGED <<onNode, offered>>

Named(disk) == form' = [form EXCEPT !.pc = "place", !.disk = disk]

\* Asked every half second: the digest is the name, and only a failed phase fails.
WaitDigest ==
  /\ form.pc = "wait"
  /\ \/ image[form.of].named /\ Named("volume")
     \/ ~image[form.of].named /\ image[form.of].phase = "failed" /\ Refuse
  /\ UNCHANGED <<image, onNode, placing, offered>>

\* Mutant: the local name is taken for a machine that is pinned nowhere, too.
DeadlineAnyway ==
  /\ form.pc = "wait"
  /\ image[form.of].phase # "failed" /\ Named("local name")
  /\ UNCHANGED <<image, onNode, placing, offered>>

\* 20 seconds later: the local name, if a copy under it was asked for on a node, and
\* the last look finds it building.
Deadline ==
  /\ form.pc = "wait"
  /\ \/ form.pinned /\ image[form.of].phase # "failed" /\ Named("local name")
     \/ Refuse
  /\ UNCHANGED <<image, onNode, placing, offered>>

\* ensure_local: nothing to do for a machine the scheduler places; else it is there,
\* or the image that makes it is told to copy it, or the creation is refused.
Place ==
  /\ form.pc = "place"
  /\ \/ form' = [form EXCEPT !.pc = "made"] /\ ~form.pinned /\ UNCHANGED placing
     \/ form' = [form EXCEPT !.pc = "made"] /\ form.of \in onNode /\ UNCHANGED placing
     \/ /\ form.pinned /\ form.of \in Images /\ form.of \notin onNode
        /\ image[form.of].phase # "absent"
        /\ placing' = placing \cup {form.of}
        /\ form' = [form EXCEPT !.pc = "made"]
     \/ form.pinned /\ Refuse /\ UNCHANGED placing
  /\ UNCHANGED <<image, onNode, offered>>

Leave == form.pc = "made" /\ Refuse /\ UNCHANGED <<image, onNode, placing, offered>>

Next ==
  \/ \E i \in Images : Build(i) \/ BuildFails(i) \/ AskedElsewhere(i) \/ Copied(i)
  \/ Poll
  \/ \E i \in Images, pinned \in BOOLEAN :
       \/ Submit(Choice("reference", i), pinned)
       \/ image[i].named /\ Submit(Choice("volume", i), pinned)
  \/ \E m \in Media, pinned \in BOOLEAN : Submit(Choice("medium", m), pinned)
  \/ Golden \/ WaitDigest \/ Deadline \/ Place \/ Leave

Spec == Init /\ [][Next]_vars

-----------------------------------------------------------------------------
(* Properties. *)

\* "A VM created against a name that will never be a volume is not fine, and that is
\* the only thing this wait prevents": a machine that is made names a volume - the
\* digest of an image, or a local name a copy was asked of on its node, whatever else
\* was built, failed or asked for meanwhile - and a pinned one has it there or coming.
NamesAVolume ==
  form.pc = "made" =>
    /\ form.disk = "local name" => form.pinned
    /\ form.pinned => form.of \in onNode \cup placing

\* "Available only: a golden still building cannot be cloned": however old the list, a
\* volume it offers is sealed.
OfferedIsTaken == \A c \in offered : c.kind = "volume" => image[c.of].phase = "available"

=============================================================================
