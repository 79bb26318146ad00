------------------------------- MODULE Snapshot -------------------------------
(***************************************************************************)
(* scope.repository.snapshot: three listings by git, then one file after   *)
(* the other is read, while somebody edits, replaces, deletes, tracks,     *)
(* untracks and ignores files.                                             *)
(*                                                                         *)
(* A file has two halves, which an editor in place changes one at a time,  *)
(* and a stamp (size and times) that every write changes.  Names are       *)
(* numbers in sorted order.  Path rules, symbols, text and hashes are left *)
(* out; a file refused for its text, its size or by the system is          *)
(* "unavailable".                                                          *)
(***************************************************************************)
EXTENDS Naturals, FiniteSets

CONSTANTS
  Names,
  Unsuitable,   (* Names that _path_reason refuses.                        *)
  MaxFiles,     (* MAX_FILES.                                              *)
  MaxSkipped,   (* MAX_SKIPPED.                                            *)
  MaxEdits,     (* Bound: what the user does in all.                       *)
  MayFail,      (* Bound: whether reading fails and listings are cut off.  *)
  None

Nodes == 0 .. Cardinality(Names) + MaxEdits
Halves == {1, 2}

ASSUME SnapshotAssumption ==
  /\ Names \subseteq Nat /\ IsFiniteSet(Names) /\ Unsuitable \subseteq Names
  /\ {MaxFiles, MaxSkipped, MaxEdits} \subseteq Nat
  /\ MayFail \in BOOLEAN
  /\ None \notin Nodes

VARIABLES
  tracked, ignored,   (* As git sees the names.                            *)
  node,         (* The file of each name, or None.                         *)
  data, stamp,  (* The halves of each file, and its stamp.                 *)
  open,         (* A file that an editor has half written, or None.        *)
  edits,
  pc,           (* Where snapshot stands,                                  *)
  listed, hidden, untracked, complete,  (* what the listings said,         *)
  todo,         (* the names it has still to look at,                      *)
  reading,      (* the file it reads: its node, its stamp, what it got.    *)
  files,        (* What it has included, with the halves it read,          *)
  skipped, overflow,  (* what it has skipped, and how many it did not note. *)
  moment        (* History: see Remember.                                  *)

gitVars == <<tracked, ignored>>
diskVars == <<node, data, stamp>>
editVars == <<gitVars, diskVars, open, edits>>
listVars == <<listed, hidden, untracked, complete>>
outVars == <<files, skipped, overflow>>
vars == <<editVars, pc, listVars, todo, reading, outVars, moment>>

(* What git ls-files says of the working tree.                             *)
Present == {n \in Names : node[n] # None}
Listed == tracked \cup (Present \ ignored)
HiddenTracked == tracked \cap ignored
HiddenUntracked == (Present \ tracked) \cap ignored

NotReading == [node |-> None, stamp |-> 0, got |-> <<>>]

Init ==
  /\ tracked \in SUBSET Names /\ ignored \in SUBSET Names
  /\ node = [n \in Names |-> Cardinality({m \in Names : m < n})]
  /\ data = [i \in Nodes |-> [h \in Halves |-> 0]]
  /\ stamp = [i \in Nodes |-> 0]
  /\ open = None /\ edits = 0
  /\ pc = "names"
  /\ listed = {} /\ hidden = {} /\ untracked = {} /\ complete = TRUE
  /\ todo = {} /\ reading = NotReading
  /\ files = {} /\ skipped = {} /\ overflow = 0
  /\ moment = [ignored |-> ignored, listed |-> Listed, moved |-> {}, contents |-> {}]

-----------------------------------------------------------------------------
(* The user.                                                               *)

(* History: the names ignored, and those git lists, since the snapshot     *)
(* began; the names tracked or untracked since; what the file being read   *)
(* has held since it was opened.                                           *)
Remember ==
  moment' = [ignored |-> moment.ignored \cap ignored',
             listed |-> moment.listed \cap Listed',
             moved |-> moment.moved \cup {n \in Names : (n \in tracked) # (n \in tracked')},
             contents |-> IF reading.node = None THEN {}
                          ELSE moment.contents \cup {data'[reading.node]}]

Edits ==
  /\ edits < MaxEdits /\ edits' = edits + 1
  /\ pc # "done"
  /\ UNCHANGED <<pc, listVars, todo, reading, outVars>>
  /\ Remember

Write(i, half) ==
  /\ data' = [data EXCEPT ![i][half] = edits + 1]
  /\ stamp' = [stamp EXCEPT ![i] = @ + 1]

(* An editor that writes in place: the first half, then the second.        *)
StartsWriting ==
  /\ open = None
  /\ \E n \in Present : Write(node[n], 1) /\ open' = node[n]
  /\ UNCHANGED <<gitVars, node>>
  /\ Edits

EndsWriting ==
  /\ open # None
  /\ data' = [data EXCEPT ![open][2] = data[open][1]]
  /\ stamp' = [stamp EXCEPT ![open] = @ + 1]
  /\ open' = None
  /\ UNCHANGED <<gitVars, node, edits, pc, listVars, todo, reading, outVars>>
  /\ Remember

(* One that writes another file and renames it, or a file that comes back. *)
Replaces ==
  /\ \E n \in Names :
       LET new == Cardinality(Names) + edits
       IN  /\ node' = [node EXCEPT ![n] = new]
           /\ data' = [data EXCEPT ![new] = [h \in Halves |-> edits + 1]]
  /\ UNCHANGED <<gitVars, stamp, open>>
  /\ Edits

Deletes ==
  /\ \E n \in Present : node' = [node EXCEPT ![n] = None]
  /\ UNCHANGED <<gitVars, data, stamp, open>>
  /\ Edits

(* git add, and git rm --cached.                                           *)
Tracks ==
  /\ \E n \in Names : \/ n \in Present /\ tracked' = tracked \cup {n}
                      \/ tracked' = tracked \ {n}
  /\ UNCHANGED <<ignored, diskVars, open>>
  /\ Edits

Ignores ==
  /\ \E n \in Names : ignored' = IF n \in ignored THEN ignored \ {n} ELSE ignored \cup {n}
  /\ UNCHANGED <<tracked, diskVars, open>>
  /\ Edits

-----------------------------------------------------------------------------
(* The listings: a name that is cut off is not used.                       *)

Listing(all) == IF MayFail THEN SUBSET all ELSE {all}

ListNames ==
  /\ pc = "names" /\ pc' = "hidden"
  /\ \E names \in Listing(Listed) :
       listed' = names /\ todo' = names /\ complete' = (names = Listed)
  /\ UNCHANGED <<editVars, hidden, untracked, reading, outVars, moment>>

(* A mutant of ListHidden: an incomplete listing is used.                  *)
MutListHiddenAlways ==
  /\ pc = "hidden" /\ pc' = "untracked"
  /\ \E names \in Listing(HiddenTracked) :
       hidden' = names /\ complete' = (complete /\ names = HiddenTracked)
  /\ UNCHANGED <<editVars, listed, untracked, todo, reading, outVars, moment>>

(* If the list of ignored names is not complete, no name is looked at.     *)
ListHidden ==
  /\ pc = "hidden" /\ pc' = "untracked"
  /\ \E names \in Listing(HiddenTracked) :
       /\ hidden' = IF names = HiddenTracked THEN names ELSE Names
       /\ complete' = (complete /\ names = HiddenTracked)
  /\ UNCHANGED <<editVars, listed, untracked, todo, reading, outVars, moment>>

ListUntracked ==
  /\ pc = "untracked" /\ pc' = "next"
  /\ \E names \in Listing(HiddenUntracked) :
       untracked' = names /\ complete' = (complete /\ names = HiddenUntracked)
  /\ UNCHANGED <<editVars, listed, hidden, todo, reading, outVars, moment>>

-----------------------------------------------------------------------------
(* The loop, and _read_source.                                             *)

Current == CHOOSE n \in todo : \A m \in todo : n <= m
Leave == todo' = todo \ {Current} /\ reading' = NotReading /\ pc' = "next"

(* A mutant of Skip: beyond the limit nothing is counted.                  *)
MutSkipSilently(names) ==
  /\ skipped' = IF Cardinality(skipped) < MaxSkipped THEN skipped \cup names ELSE skipped
  /\ UNCHANGED overflow

(* skip, for one name or for several in turn.                              *)
Skip(names) ==
  LET room == IF Cardinality(skipped) < MaxSkipped THEN MaxSkipped - Cardinality(skipped) ELSE 0
  IN  IF Cardinality(names) <= room THEN skipped' = skipped \cup names /\ UNCHANGED overflow
      ELSE /\ \E noted \in SUBSET names :
                Cardinality(noted) = room /\ skipped' = skipped \cup noted
           /\ overflow' = overflow + Cardinality(names) - room

Refuse == Skip({Current}) /\ Leave /\ UNCHANGED files

LoopKeeps == UNCHANGED <<editVars, listVars>>

(* Ignored, not a source file, or one too many.                            *)
PassOver ==
  /\ pc = "next" /\ todo # {}
  /\ Current \in hidden \cup Unsuitable \/ Cardinality(files) >= MaxFiles
  /\ Refuse
  /\ LoopKeeps /\ UNCHANGED moment

(* path.stat.                                                              *)
LookAt ==
  /\ pc = "next" /\ todo # {}
  /\ Current \notin hidden \cup Unsuitable /\ Cardinality(files) < MaxFiles
  /\ node[Current] # None
  /\ reading' = [NotReading EXCEPT !.node = node[Current]]
  /\ pc' = "open"
  /\ LoopKeeps /\ UNCHANGED <<todo, outVars, moment>>

(* The file is opened; it must be the one looked at.                       *)
OpenFile ==
  /\ pc = "open" /\ node[Current] = reading.node
  /\ reading' = [reading EXCEPT !.stamp = stamp[reading.node]]
  /\ pc' = "first"
  /\ moment' = [moment EXCEPT !.contents = {data[reading.node]}]
  /\ LoopKeeps /\ UNCHANGED <<todo, outVars>>

ReadHalf ==
  /\ \/ pc = "first" /\ reading' = [reading EXCEPT !.got = <<data[reading.node][1]>>]
        /\ pc' = "second"
     \/ pc = "second" /\ reading' = [reading EXCEPT !.got = <<@[1], data[reading.node][2]>>]
        /\ pc' = "after"
  /\ LoopKeeps /\ UNCHANGED <<todo, outVars, moment>>

(* A mutant of SameFile: only the file is compared, not its stamp.         *)
MutSameFileOnly == TRUE

(* fstat after the read.                                                   *)
SameFile == stamp[reading.node] = reading.stamp

CheckRead ==
  /\ pc = "after" /\ SameFile
  /\ pc' = "current"
  /\ LoopKeeps /\ UNCHANGED <<todo, reading, outVars, moment>>

(* The name still means this file: it is included.                         *)
Include ==
  /\ pc = "current" /\ node[Current] = reading.node
  /\ files' = files \cup {[name |-> Current, got |-> reading.got, contents |-> moment.contents]}
  /\ Leave
  /\ LoopKeeps /\ UNCHANGED <<skipped, overflow, moment>>

(* "changed_during_read" or "unavailable".                                 *)
GiveUp ==
  /\ \/ pc = "next" /\ todo # {} /\ Current \notin hidden \cup Unsuitable
        /\ Cardinality(files) < MaxFiles /\ node[Current] = None
     \/ pc = "open" /\ node[Current] # reading.node
     \/ pc = "after" /\ ~SameFile
     \/ pc = "current" /\ node[Current] # reading.node
     \/ pc \in {"open", "current"} /\ MayFail
  /\ Refuse
  /\ LoopKeeps /\ UNCHANGED moment

(* The last loop: untracked ignored files are noted as skipped.            *)
Finish ==
  /\ pc = "next" /\ todo = {}
  /\ Skip(untracked \ skipped)
  /\ pc' = "done"
  /\ LoopKeeps /\ UNCHANGED <<todo, reading, files, moment>>

SnapshotStep ==
  \/ ListNames \/ ListHidden \/ ListUntracked \/ PassOver \/ LookAt \/ OpenFile \/ ReadHalf
  \/ CheckRead \/ Include \/ GiveUp \/ Finish

Over == pc = "done" /\ UNCHANGED vars

Next ==
  \/ SnapshotStep
  \/ StartsWriting \/ EndsWriting \/ Replaces \/ Deletes \/ Tracks \/ Ignores
  \/ Over

Spec == Init /\ [][Next]_vars

-----------------------------------------------------------------------------
(* Types, and the limits.                                                  *)
TypeOK ==
  /\ node \in [Names -> Nodes \cup {None}]
  /\ open \in Nodes \cup {None}
  /\ todo \subseteq listed /\ listed \subseteq Names /\ skipped \subseteq Names
  /\ Cardinality(files) <= MaxFiles /\ Cardinality(skipped) <= MaxSkipped
  /\ reading.node \in Nodes \cup {None}

(* What is included is what the file held at one moment while it was read, *)
(* never a mixture of two versions, whoever writes meanwhile.              *)
IncludedWasThere == \A f \in files : f.got \in f.contents

(* The snapshot never exceeds its limits (repository.py:193-218), and what *)
(* it holds was there.                                                     *)
SnapshotInv == TypeOK /\ IncludedWasThere

Included == {f.name : f \in files}

(* "Tracked files that have subsequently become ignored are excluded too": *)
(* a file ignored all the time is not included, unless it is tracked or    *)
(* untracked between the listings, also when listings are cut off.         *)
IgnoredStaysOutUnlessMoved == (Included \cap moment.ignored) \subseteq moment.moved

(* "Unavailable files are not treated as deleted": a file that git lists   *)
(* all the time is included, is noted as skipped, or the snapshot says     *)
(* that its listing is incomplete or that it skipped more than it noted.   *)
NoneMissing ==
  pc = "done" /\ complete /\ overflow = 0 => moment.listed \subseteq Included \cup skipped

-----------------------------------------------------------------------------
(* Facts the proofs rest on.  The ranges that TypeOK leaves out; the files *)
(* that were ever given out are those below the next one.                  *)
Ranges ==
  /\ tracked \subseteq Names /\ ignored \subseteq Names
  /\ data \in [Nodes -> [Halves -> Nat]] /\ stamp \in [Nodes -> Nat]
  /\ edits \in 0..MaxEdits
  /\ \A i \in {node[n] : n \in Names} \cup {open, reading.node} :
       i # None => i < Cardinality(Names) + edits
  /\ reading = [node |-> reading.node, stamp |-> reading.stamp, got |-> reading.got]
  /\ reading.stamp \in Nat
  /\ IsFiniteSet(files) /\ overflow \in Nat /\ untracked \subseteq Names

Looking == {"open", "first", "second", "after", "current"}

(* In the loop there is room for a file, and none is being read else.      *)
RoomToRead ==
  /\ pc \in Looking =>
       todo # {} /\ Current \notin hidden /\ Cardinality(files) < MaxFiles /\ reading.node # None
  /\ pc \in {"names", "hidden", "untracked"} => files = {} /\ skipped = {} /\ overflow = 0

(* A read that nobody disturbed got what the file holds; undisturbed means *)
(* that the stamp is the one of the opening.                               *)
ReadsOneVersion ==
  LET i == reading.node
  IN  /\ pc \in {"first", "second", "after"} =>
           /\ reading.stamp <= stamp[i]
           /\ stamp[i] = reading.stamp =>
                /\ data[i] \in moment.contents
                /\ pc = "second" => reading.got = <<data[i][1]>>
                /\ pc = "after" => reading.got = <<data[i][1], data[i][2]>>
      /\ pc = "current" => reading.got \in moment.contents

(* What history remembers is still so.                                     *)
MomentHolds == moment.ignored \subseteq ignored /\ moment.listed \subseteq Listed

(* An ignored name in the listing is a tracked one, so it is in the list   *)
(* of hidden names, unless it moved in between; and a hidden name stays    *)
(* out.                                                                    *)
IgnoredIsHidden ==
  /\ pc = "names" => listed = {} /\ files = {}
  /\ pc = "hidden" => listed \cap moment.ignored \subseteq tracked \cup moment.moved
  /\ pc \notin {"names", "hidden"} => listed \cap moment.ignored \subseteq hidden \cup moment.moved
  /\ Included \subseteq listed \ hidden

(* Every listed name is still to come, in the snapshot or accounted for.   *)
NoneLost ==
  /\ pc # "names" /\ complete => moment.listed \subseteq listed
  /\ pc # "names" /\ overflow = 0 => listed \subseteq todo \cup Included \cup skipped
  /\ pc = "done" => todo = {}

CaptureInv ==
  /\ SnapshotInv /\ Ranges /\ RoomToRead /\ ReadsOneVersion /\ MomentHolds /\ IgnoredIsHidden
  /\ NoneLost
=============================================================================
