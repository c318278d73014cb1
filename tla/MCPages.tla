------------------------------- MODULE MCPages -------------------------------
(***************************************************************************)
(* The pages of the console, one at a time: the plugins keep no state in   *)
(* common, so a behaviour is that of one of them.  A property of the run   *)
(* says the same thing of every page it is true of.                        *)
(***************************************************************************)
EXTENDS Naturals, Sequences

CONSTANTS
  Requests, Fields, Sizes, Values, Names, Secrets, Multus, Blank, Bad, MaxWrites,
  Images, Media,
  None

VARIABLES
  part,                                     \* whose page it is
  card, world,                              \* a page computed from what the plugin holds
  def, inst, seen, writes, op,              \* MachineEdits
  image, onNode, placing, offered, form     \* RootDisks

views == <<card, world>>
edits == <<def, inst, seen, writes, op>>
disks == <<image, onNode, placing, offered, form>>

Edit    == INSTANCE MachineEdits
Disk    == INSTANCE RootDisks
Machine == INSTANCE MachineViews
Cluster == INSTANCE ClusterViews
Fleet   == INSTANCE FleetViews
Pod     == INSTANCE PodViews
Record  == INSTANCE PodRecord
History == INSTANCE NodeHistory
Drive   == INSTANCE Drives
Image   == INSTANCE Registry
Block   == INSTANCE Engine

\* The form's fields, some of them; and a machine is made with a size.
ASSUME EditAssumption == Fields \subseteq Edit!AllFields /\ Blank \notin Sizes

\* What is not there is none of what it stands beside: an address, a disk's offer, what
\* is outside policy, the messages a door lets through, a session.
ASSUME NoneAssumption ==
  /\ None \notin {"its own", "as configured", "", "blank", "foreign", "nat", "bridge", "answered", "running",
                "terminated", "Error", "failed", "volume", "golden", "clean", "rebuilding", "degraded", "Warn", "Idle"}
  /\ None \notin {{"app"}, {"other"}}
  /\ \A messages \in SUBSET {"ping", "pong", "text", "binary"} : None # messages
  /\ \A says \in SUBSET {"failure", "output"}, takes \in SUBSET {"stdin", "resize", "ping"} :
        None # [says |-> says, takes |-> takes]
  /\ None \notin Seq([at : Nat, cpu : Nat, of : Nat, network : SUBSET {"network"}])

NoViews == card = None /\ world = None
NoEdits == def = None /\ inst = None /\ seen = None /\ writes = 0 /\ op = None
NoDisks == image = None /\ onNode = None /\ placing = None /\ offered = None /\ form = None

\* A page with no form of its own is in card and world.
ViewInit ==
  \/ part = "machine" /\ Machine!Init
  \/ part = "cluster" /\ Cluster!Init
  \/ part = "fleet" /\ Fleet!Init
  \/ part = "pod" /\ Pod!Init
  \/ part = "record" /\ Record!Init
  \/ part = "history" /\ History!Init
  \/ part = "drive" /\ Drive!Init
  \/ part = "image" /\ Image!Init
  \/ part = "block" /\ Block!Init

ViewNext ==
  \/ part = "machine" /\ Machine!Next
  \/ part = "cluster" /\ Cluster!Next
  \/ part = "fleet" /\ Fleet!Next
  \/ part = "pod" /\ Pod!Next
  \/ part = "record" /\ Record!Next
  \/ part = "history" /\ History!Next
  \/ part = "drive" /\ Drive!Next
  \/ part = "image" /\ Image!Next
  \/ part = "block" /\ Block!Next

PagesInit ==
  \/ part = "edit" /\ Edit!Init /\ NoViews /\ NoDisks
  \/ part = "disk" /\ Disk!Init /\ NoViews /\ NoEdits
  \/ ViewInit /\ NoEdits /\ NoDisks

PagesNext ==
  /\ UNCHANGED part
  /\ \/ part = "edit" /\ Edit!Next /\ UNCHANGED <<views, disks>>
     \/ part = "disk" /\ Disk!Next /\ UNCHANGED <<views, edits>>
     \/ ViewNext /\ UNCHANGED <<edits, disks>>

PagesSpec == PagesInit /\ [][PagesNext]_<<part, views, edits, disks>>

Symmetry == Edit!RequestSymmetry

-----------------------------------------------------------------------------
\* Every disk of a machine has its volume, whatever edits overlap.
DisksPaired == part = "edit" => Edit!DisksPaired

\* What was said to be written is what the form shows.
EditShows == part = "edit" => Edit!EditShows

\* Whatever a page enables or a form offers, its handler takes.
OfferedIsTaken ==
  CASE part = "machine" -> Machine!OfferedIsTaken
    [] part = "disk"    -> Disk!OfferedIsTaken
    [] part = "cluster" -> Cluster!OfferedIsTaken
    [] part = "fleet"   -> Fleet!OfferedIsTaken
    [] part = "pod"     -> Pod!OfferedIsTaken
    [] part = "block"   -> Block!OfferedIsTaken
    [] OTHER            -> TRUE

\* What a page says of a thing is so, for each page what is easiest said wrongly.
SaidIsSo ==
  CASE part = "machine" -> Machine!FenceIsReal /\ Machine!AnsweredIsOwn
    [] part = "cluster" -> Cluster!SaidIsSo
    [] part = "fleet"   -> Fleet!SaidIsSo
    [] part = "pod"     -> Pod!SaidIsSo
    [] part = "record"  -> Record!RunsAreItsOwn /\ Record!WindowIsWhole
    [] part = "history" -> History!RecordsAreKnown
    [] part = "drive"   -> Drive!FormatIsTrue /\ Drive!RowsAreReached
    [] part = "image"   -> Image!RefusalIsSaid
    [] part = "block"   -> Block!SaidIsSo
    [] OTHER            -> TRUE

\* What a page finds by going through many things is what is there: a boot's timeline among
\* directories, the newest lines back through the months, the worst API down the list, and
\* what a volume was made from up its parents.
FoundIsSo ==
  CASE part = "history" -> History!BootsAreWhole /\ History!LinesAreNewest /\ History!StallIsSaid
    [] part = "image"   -> Image!HoldersAreTrue
    [] part = "block"   -> Block!SameImage
    [] OTHER            -> TRUE

\* What is told of a project that is not this viewer's to see, though the answers are made
\* from what is kept for everyone.  Of the cluster: no row of a watched kind, no relation
\* to one, no page, table entry, write or event.  Of a pod's own routes:
\* nothing, and of a flow's hidden end only that it is one.  Of a drive: no consumer.  Of
\* the registry: no holder, and no clone of one by its own row.  Two things the program
\* does let through are not in it: the rows of a hidden pod's containers (lib.rs:593), and a
\* hidden clone's name among what a visible clone was made through (holdings.rs:308).
HiddenUnreferenced ==
  CASE part = "cluster" -> Cluster!HiddenUnreferenced
    [] part = "pod"     -> Pod!HiddenUnreferenced
    [] part = "drive"   -> Drive!ConsumersHidden
    [] part = "image"   -> Image!HoldersHidden
    [] OTHER            -> TRUE

\* A machine is made of a disk that is a volume, or will be one.
NamesAVolume == part = "disk" => Disk!NamesAVolume

=============================================================================
