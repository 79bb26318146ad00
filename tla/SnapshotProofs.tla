----------------------------- MODULE SnapshotProofs -----------------------------
(***************************************************************************)
(* Proofs about a snapshot, for any names, limits, edits and failures.     *)
(*                                                                         *)
(* The invariant (CaptureInv) follows a name: from the listings, which an  *)
(* ignored one leaves only as hidden or moved, through the loop, where a   *)
(* read whose stamp is still that of its opening got one version, to the   *)
(* snapshot or to the names that are noted or counted as skipped.          *)
(***************************************************************************)
EXTENDS Snapshot, FiniteSetTheorems, WellFoundedInduction, TLAPS

N == Cardinality(Names)

LEMMA Limits ==
  /\ Names \subseteq Nat /\ IsFiniteSet(Names) /\ N \in Nat
  /\ MaxFiles \in Nat /\ MaxSkipped \in Nat /\ MaxEdits \in Nat
  /\ Nodes = 0 .. N + MaxEdits /\ None \notin Nodes
BY SnapshotAssumption, FS_CardinalityType DEF N, Nodes

(* The loop's next name is one it has still to look at.                    *)
LEMMA CurrentIsToDo ==
  ASSUME todo \subseteq Names, todo # {}
  PROVE  Current \in todo
<1> DEFINE R == {ss \in Nat \X Nat : ss[1] < ss[2]}
<1>a. todo \subseteq Nat
  BY Limits
<1>1. IsWellFoundedOn(R, Nat)
  BY NatLessThanWellFounded DEF OpToRel
<1>2. PICK n \in todo : \A m \in todo : ~(<<m, n>> \in R)
  <2> HIDE DEF R
  <2> QED
    BY <1>a, <1>1, WFMin
<1>3. ASSUME NEW m \in todo
      PROVE  n <= m
  <2>1. n \in Nat /\ m \in Nat /\ ~(<<m, n>> \in R)
    BY <1>a, <1>2
  <2> QED
    BY <2>1
<1> QED
  BY <1>3 DEF Current

(* Every name that is skipped is noted or counted, and the list stays      *)
(* within its limit.                                                       *)
LEMMA SkipsAreCounted ==
  ASSUME NEW names \in SUBSET Names, Skip(names), skipped \subseteq Names,
         Cardinality(skipped) <= MaxSkipped, overflow \in Nat
  PROVE  /\ skipped' \subseteq Names /\ Cardinality(skipped') <= MaxSkipped
         /\ overflow' \in Nat /\ skipped \subseteq skipped'
         /\ overflow' = 0 => overflow = 0 /\ skipped' = skipped \cup names
<1> DEFINE room == IF Cardinality(skipped) < MaxSkipped THEN MaxSkipped - Cardinality(skipped) ELSE 0
<1>1. IsFiniteSet(skipped) /\ Cardinality(skipped) \in Nat
  BY Limits, FS_Subset, FS_CardinalityType
<1>2. IsFiniteSet(names) /\ Cardinality(names) \in Nat
  BY Limits, FS_Subset, FS_CardinalityType
<1>3. room \in Nat /\ Cardinality(skipped) + room = MaxSkipped
  BY <1>1, Limits
<1>4. \/ Cardinality(names) <= room /\ skipped' = skipped \cup names /\ UNCHANGED overflow
      \/ /\ ~(Cardinality(names) <= room)
         /\ \E noted \in SUBSET names : Cardinality(noted) = room /\ skipped' = skipped \cup noted
         /\ overflow' = overflow + Cardinality(names) - room
  BY DEF Skip
<1> HIDE DEF room
<1>5. PICK noted \in SUBSET names : Cardinality(noted) <= room /\ skipped' = skipped \cup noted
  BY <1>2, <1>3, <1>4
<1>6. IsFiniteSet(noted) /\ Cardinality(noted) \in Nat
  BY <1>2, FS_Subset, FS_CardinalityType
<1>7. Cardinality(skipped') <= MaxSkipped
  <2>1. Cardinality(skipped \cup noted)
          = Cardinality(skipped) + Cardinality(noted) - Cardinality(skipped \cap noted)
    BY <1>1, <1>6, FS_Union
  <2>2. Cardinality(skipped \cap noted) \in Nat
    BY <1>1, FS_Subset, FS_CardinalityType
  <2> QED
    BY <1>1, <1>3, <1>5, <1>6, <2>1, <2>2, Limits
<1>8. overflow' \in Nat /\ (overflow' = 0 => overflow = 0 /\ skipped' = skipped \cup names)
  BY <1>2, <1>3, <1>4
<1> QED
  BY <1>5, <1>7, <1>8

-----------------------------------------------------------------------------
(* The user.                                                               *)

LEMMA UserKeeps ==
  ASSUME CaptureInv, Remember, UNCHANGED <<pc, listVars, todo, reading, outVars>>,
         tracked' \subseteq Names, ignored' \subseteq Names,
         node' \in [Names -> Nodes \cup {None}], open' \in Nodes \cup {None},
         data' \in [Nodes -> [Halves -> Nat]], stamp' \in [Nodes -> Nat],
         edits' \in 0..MaxEdits, edits <= edits',
         \A n \in Names : node'[n] # None => node'[n] < N + edits',
         open' # None => open' < N + edits',
         \A i \in Nodes : i < N + edits =>
           (data'[i] = data[i] /\ stamp'[i] = stamp[i]) \/ stamp'[i] > stamp[i]
  PROVE  CaptureInv'
<1> USE DEF CaptureInv, listVars, outVars
<1>1. SnapshotInv'
  BY DEF SnapshotInv, TypeOK, IncludedWasThere
<1>2. Ranges'
  <2>1. \A i \in {node'[n] : n \in Names} \cup {open', reading'.node} :
          i # None => i < N + edits'
    <3>1. reading.node # None => reading.node < N + edits
      BY DEF Ranges, N
    <3>2. reading.node # None => reading.node \in Nat
      BY Limits DEF SnapshotInv, TypeOK
    <3>3. edits \in Nat /\ edits' \in Nat /\ N \in Nat
      BY Limits DEF Ranges
    <3> QED
      BY <3>1, <3>2, <3>3
  <2> QED
    BY <2>1 DEF Ranges, N
<1>3. RoomToRead'
  <2>1. Current' = Current
    BY DEF Current
  <2> QED
    BY <2>1 DEF RoomToRead
<1>4. ReadsOneVersion'
  <2> SUFFICES ASSUME pc \in Looking, reading.node # None
               PROVE  ReadsOneVersion'
    BY DEF ReadsOneVersion, RoomToRead, Looking
  <2> DEFINE i == reading.node
  <2>1. i \in Nodes /\ i < N + edits /\ stamp[i] \in Nat /\ stamp'[i] \in Nat
    BY DEF SnapshotInv, TypeOK, Ranges, N
  <2>2. (data'[i] = data[i] /\ stamp'[i] = stamp[i]) \/ stamp'[i] > stamp[i]
    BY <2>1
  <2>3. moment.contents \subseteq moment'.contents /\ data'[i] \in moment'.contents
    BY DEF Remember
  <2>4. reading.stamp \in Nat
    BY DEF Ranges
  <2>5. ASSUME pc \in {"first", "second", "after"}
        PROVE  reading.stamp <= stamp[i] /\ reading.stamp <= stamp'[i]
    BY <2>1, <2>2, <2>4, <2>5 DEF ReadsOneVersion
  <2>6. ASSUME pc \in {"first", "second", "after"}, stamp'[i] = reading.stamp
        PROVE  data'[i] = data[i] /\ stamp'[i] = stamp[i]
    BY <2>1, <2>2, <2>4, <2>5, <2>6
  <2> HIDE DEF i
  <2>7. reading' = reading /\ pc' = pc
    OBVIOUS
  <2> QED
    BY <2>2, <2>3, <2>5, <2>6, <2>7 DEF ReadsOneVersion, i
<1>5. MomentHolds'
  BY DEF MomentHolds, Remember
<1>6. IgnoredIsHidden'
  <2>1. moment'.ignored \subseteq moment.ignored /\ moment.moved \subseteq moment'.moved
    BY DEF Remember
  <2>2. Included' = Included
    BY DEF Included
  <2>3. listed \cap tracked \subseteq tracked' \cup moment'.moved
    BY DEF Remember, SnapshotInv, TypeOK
  <2> QED
    BY <2>1, <2>2, <2>3 DEF IgnoredIsHidden
<1>7. NoneLost'
  <2>1. moment'.listed \subseteq moment.listed /\ Included' = Included
    BY DEF Remember, Included
  <2> QED
    BY <2>1 DEF NoneLost
<1> QED
  BY <1>1, <1>2, <1>3, <1>4, <1>5, <1>6, <1>7

LEMMA UserSteps ==
  ASSUME CaptureInv,
         StartsWriting \/ EndsWriting \/ Replaces \/ Deletes \/ Tracks \/ Ignores
  PROVE  CaptureInv'
<1>a. /\ node \in [Names -> Nodes \cup {None}] /\ open \in Nodes \cup {None}
      /\ tracked \subseteq Names /\ ignored \subseteq Names
      /\ data \in [Nodes -> [Halves -> Nat]] /\ stamp \in [Nodes -> Nat] /\ edits \in 0..MaxEdits
  BY DEF CaptureInv, SnapshotInv, TypeOK, Ranges
<1>b. /\ \A n \in Names : node[n] # None => node[n] \in Nodes /\ node[n] < N + edits
      /\ open # None => open \in Nodes /\ open < N + edits
  BY <1>a DEF CaptureInv, Ranges, N
<1>c. /\ N \in Nat /\ edits \in Nat /\ MaxEdits \in Nat /\ Nodes \subseteq Nat /\ None \notin Nodes
      /\ \A n \in Present : n \in Names /\ node[n] # None
  BY <1>a, Limits DEF Present
<1>d. \A i \in Nodes : i < N + edits => i < N + (edits + 1)
  BY <1>c
<1>1. CASE StartsWriting
  <2>1. PICK n \in Present : Write(node[n], 1) /\ open' = node[n]
    BY <1>1 DEF StartsWriting
  <2>2. /\ edits < MaxEdits /\ edits' = edits + 1 /\ Remember
        /\ UNCHANGED <<gitVars, node, pc, listVars, todo, reading, outVars>>
    BY <1>1 DEF StartsWriting, Edits
  <2>3. /\ data' = [data EXCEPT ![node[n]][1] = edits + 1]
        /\ stamp' = [stamp EXCEPT ![node[n]] = @ + 1]
    BY <2>1 DEF Write
  <2>4. data' \in [Nodes -> [Halves -> Nat]] /\ stamp' \in [Nodes -> Nat]
    <3>1. edits + 1 \in Nat /\ 1 \in Halves /\ node[n] \in Nodes
      BY <1>b, <1>c DEF Halves
    <3> QED
      BY <1>a, <2>3, <3>1
  <2>5. \A i \in Nodes : (data'[i] = data[i] /\ stamp'[i] = stamp[i]) \/ stamp'[i] > stamp[i]
    BY <1>a, <2>3
  <2>6. /\ \A m \in Names : node'[m] # None => node'[m] < N + edits'
        /\ open' < N + edits'
    BY <1>b, <1>c, <1>d, <2>1, <2>2
  <2> QED
    BY <1>a, <1>b, <1>c, <2>1, <2>2, <2>4, <2>5, <2>6, UserKeeps DEF gitVars
<1>2. CASE EndsWriting
  <2>1. /\ open # None /\ open' = None /\ Remember
        /\ UNCHANGED <<gitVars, node, edits, pc, listVars, todo, reading, outVars>>
        /\ data' = [data EXCEPT ![open][2] = data[open][1]]
        /\ stamp' = [stamp EXCEPT ![open] = @ + 1]
    BY <1>2 DEF EndsWriting
  <2>2. data' \in [Nodes -> [Halves -> Nat]] /\ stamp' \in [Nodes -> Nat]
    BY <1>a, <1>b, <2>1 DEF Halves
  <2>3. \A i \in Nodes : (data'[i] = data[i] /\ stamp'[i] = stamp[i]) \/ stamp'[i] > stamp[i]
    BY <1>a, <2>1
  <2>4. \A m \in Names : node'[m] # None => node'[m] < N + edits'
    BY <1>b, <2>1
  <2> QED
    BY <1>a, <1>b, <1>c, <2>1, <2>2, <2>3, <2>4, UserKeeps DEF gitVars
<1>3. CASE Replaces
  <2> DEFINE new == N + edits
  <2>1. PICK n \in Names : /\ node' = [node EXCEPT ![n] = new]
                           /\ data' = [data EXCEPT ![new] = [h \in Halves |-> edits + 1]]
    BY <1>3 DEF Replaces, N
  <2>2. /\ edits < MaxEdits /\ edits' = edits + 1 /\ Remember
        /\ UNCHANGED <<gitVars, stamp, open, pc, listVars, todo, reading, outVars>>
    BY <1>3 DEF Replaces, Edits
  <2>3. new \in Nodes /\ new < N + edits' /\ edits' \in 0..MaxEdits
    BY <1>c, <2>2, Limits
  <2>4. data' \in [Nodes -> [Halves -> Nat]] /\ node' \in [Names -> Nodes \cup {None}]
    BY <1>a, <1>c, <2>1, <2>3
  <2>5. \A i \in Nodes : i < N + edits => data'[i] = data[i] /\ stamp'[i] = stamp[i]
    BY <1>a, <1>c, <2>1, <2>2
  <2>6. /\ \A m \in Names : node'[m] # None => node'[m] < N + edits'
        /\ open' # None => open' < N + edits'
    <3>1. \A m \in Names : node'[m] = node[m] \/ node'[m] = new
      BY <1>a, <2>1
    <3> HIDE DEF new
    <3> QED
      BY <1>b, <1>d, <2>2, <2>3, <3>1
  <2> QED
    BY <1>a, <1>c, <2>2, <2>3, <2>4, <2>5, <2>6, UserKeeps DEF gitVars
<1>4. CASE Deletes \/ Tracks \/ Ignores
  <2>1. /\ edits < MaxEdits /\ edits' = edits + 1 /\ Remember
        /\ UNCHANGED <<data, stamp, open, pc, listVars, todo, reading, outVars>>
    BY <1>4 DEF Deletes, Tracks, Ignores, Edits, diskVars
  <2>2. /\ tracked' \subseteq Names /\ ignored' \subseteq Names
        /\ node' \in [Names -> Nodes \cup {None}]
        /\ \A m \in Names : node'[m] = node[m] \/ node'[m] = None
    BY <1>4, <1>a DEF Deletes, Tracks, Ignores, gitVars, diskVars, Present
  <2>3. /\ \A m \in Names : node'[m] # None => node'[m] < N + edits'
        /\ open' # None => open' < N + edits'
    BY <1>b, <1>d, <2>1, <2>2
  <2> QED
    BY <1>a, <1>c, <2>1, <2>2, <2>3, UserKeeps
<1> QED
  BY <1>1, <1>2, <1>3, <1>4

-----------------------------------------------------------------------------
(* The listings.                                                           *)

(* A listing names no more than there is, and all of it if it is complete. *)
LEMMA ListingSteps ==
  ASSUME CaptureInv, ListNames \/ ListHidden \/ ListUntracked
  PROVE  CaptureInv'
<1> USE DEF CaptureInv, editVars, gitVars, diskVars, outVars
<1>a. /\ UNCHANGED <<editVars, reading, outVars, moment>>
      /\ pc \in {"names", "hidden", "untracked"} /\ pc' \in {"hidden", "untracked", "next"}
  BY DEF ListNames, ListHidden, ListUntracked
<1>b. files = {} /\ skipped = {} /\ overflow = 0 /\ Included = {} /\ Included' = {}
  BY <1>a DEF RoomToRead, Included
<1>c. Listed \subseteq Names /\ HiddenTracked \subseteq Names /\ HiddenUntracked \subseteq Names
  BY DEF Listed, HiddenTracked, HiddenUntracked, Present, Ranges
<1>d. /\ todo' \subseteq listed' /\ listed' \subseteq Names
      /\ pc = "names" => /\ listed' = todo' /\ listed' \subseteq Listed
                         /\ complete' => listed' = Listed
      /\ pc # "names" => UNCHANGED <<listed, todo>> /\ (complete' => complete)
  <2>1. CASE ListNames
    BY <1>c, <2>1 DEF ListNames, Listing
  <2>2. CASE ListHidden \/ ListUntracked
    BY <2>2 DEF ListHidden, ListUntracked, SnapshotInv, TypeOK
  <2> QED
    BY <2>1, <2>2
<1>1. SnapshotInv'
  BY <1>a, <1>d DEF SnapshotInv, TypeOK, IncludedWasThere
<1>2. Ranges'
  <2>1. untracked' \subseteq Names
    BY <1>c DEF ListNames, ListHidden, ListUntracked, Listing, Ranges
  <2> QED
    BY <1>a, <2>1 DEF Ranges
<1>3. RoomToRead' /\ ReadsOneVersion'
  BY <1>a, <1>b DEF RoomToRead, ReadsOneVersion, Looking
<1>4. MomentHolds'
  BY <1>a DEF MomentHolds, Listed, Present
<1>5. IgnoredIsHidden'
  <2>1. CASE ListNames
    <3>1. pc = "names" /\ pc' = "hidden" /\ listed' \subseteq Listed
      BY <1>d, <2>1 DEF ListNames
    <3>2. Listed \cap moment.ignored \subseteq tracked
      BY DEF Listed, MomentHolds
    <3> QED
      BY <1>a, <1>b, <3>1, <3>2 DEF IgnoredIsHidden
  <2>2. CASE ListHidden
    <3>1. HiddenTracked \subseteq hidden'
      BY <2>2, <1>c DEF ListHidden
    <3> QED
      BY <1>a, <1>b, <1>d, <2>2, <3>1 DEF ListHidden, IgnoredIsHidden, MomentHolds, HiddenTracked
  <2>3. CASE ListUntracked
    BY <1>a, <1>b, <1>d, <2>3 DEF ListUntracked, IgnoredIsHidden
  <2> QED
    BY <2>1, <2>2, <2>3
<1>6. NoneLost'
  <2>1. todo' = listed'
    <3>1. CASE pc = "names"
      BY <1>d, <3>1
    <3>2. CASE pc # "names"
      <4>1. listed \subseteq todo /\ todo \subseteq listed
        BY <1>b, <3>2 DEF NoneLost, SnapshotInv, TypeOK
      <4> QED
        BY <1>d, <3>2, <4>1
    <3> QED
      BY <3>1, <3>2
  <2>2. complete' => moment'.listed \subseteq listed'
    <3>1. CASE pc = "names"
      BY <1>a, <1>d, <3>1 DEF MomentHolds
    <3>2. CASE pc # "names"
      BY <1>a, <1>d, <3>2 DEF NoneLost
    <3> QED
      BY <3>1, <3>2
  <2> QED
    BY <1>a, <2>1, <2>2 DEF NoneLost
<1> QED
  BY <1>1, <1>2, <1>3, <1>4, <1>5, <1>6

-----------------------------------------------------------------------------
(* The loop.                                                               *)

(* A step that only reads keeps what is not about the file being read.     *)
LEMMA ReadingKeeps ==
  ASSUME CaptureInv, UNCHANGED <<editVars, listVars, todo, outVars>>,
         pc \in Looking \cup {"next"}, pc' \in Looking,
         todo # {} /\ Current \notin hidden /\ Cardinality(files) < MaxFiles,
         reading' = [node |-> reading'.node, stamp |-> reading'.stamp, got |-> reading'.got],
         reading'.node \in Nodes, reading'.node < N + edits, reading'.stamp \in Nat,
         moment'.ignored = moment.ignored, moment'.listed = moment.listed,
         moment'.moved = moment.moved
  PROVE  ReadsOneVersion' => CaptureInv'
<1> USE DEF CaptureInv, editVars, gitVars, diskVars, listVars, outVars
<1>1. SnapshotInv' /\ Ranges'
  BY DEF SnapshotInv, TypeOK, IncludedWasThere, Ranges, N
<1>2. RoomToRead'
  <2>1. Current' = Current
    BY DEF Current
  <2>2. reading'.node # None
    BY Limits
  <2> QED
    BY <2>1, <2>2 DEF RoomToRead, Looking
<1>3. MomentHolds' /\ IgnoredIsHidden' /\ NoneLost'
  BY DEF MomentHolds, Listed, Present, IgnoredIsHidden, Included, NoneLost, Looking
<1> QED
  BY <1>1, <1>2, <1>3

LEMMA ReadingSteps ==
  ASSUME CaptureInv, LookAt \/ OpenFile \/ ReadHalf \/ CheckRead
  PROVE  CaptureInv'
<1> DEFINE i == reading.node
<1>a. UNCHANGED <<editVars, listVars, todo, outVars>>
  BY DEF LookAt, OpenFile, ReadHalf, CheckRead, LoopKeeps
<1>b. /\ UNCHANGED <<node, data, stamp, edits>>
      /\ node \in [Names -> Nodes \cup {None}] /\ data \in [Nodes -> [Halves -> Nat]]
      /\ stamp \in [Nodes -> Nat]
      /\ \A n \in Names : node[n] # None => node[n] < N + edits
      /\ reading = [node |-> reading.node, stamp |-> reading.stamp, got |-> reading.got]
      /\ reading.stamp \in Nat
  BY <1>a DEF CaptureInv, SnapshotInv, TypeOK, Ranges, editVars, diskVars, N
<1>c. pc \in Looking => i \in Nodes /\ i < N + edits
  BY DEF CaptureInv, SnapshotInv, TypeOK, Ranges, RoomToRead, N
<1>d. todo # {} /\ Current \notin hidden /\ Cardinality(files) < MaxFiles
  BY DEF CaptureInv, RoomToRead, Looking, LookAt, OpenFile, ReadHalf, CheckRead
<1>1. CASE LookAt
  <2>1. Current \in Names
    BY <1>d, CurrentIsToDo DEF CaptureInv, SnapshotInv, TypeOK
  <2>2. /\ pc = "next" /\ pc' = "open" /\ moment' = moment
        /\ reading' = [node |-> node[Current], stamp |-> 0, got |-> <<>>]
        /\ node[Current] # None
    BY <1>1 DEF LookAt, NotReading
  <2>3. node[Current] \in Nodes /\ node[Current] < N + edits
    BY <1>b, <2>1, <2>2
  <2>4. ReadsOneVersion'
    BY <2>2 DEF ReadsOneVersion
  <2> QED
    BY <1>a, <1>d, <2>2, <2>3, <2>4, ReadingKeeps DEF Looking
<1>2. CASE OpenFile
  <2>1. /\ pc = "open" /\ pc' = "first"
        /\ reading' = [node |-> i, stamp |-> stamp[i], got |-> reading.got]
        /\ moment' = [moment EXCEPT !.contents = {data[i]}]
    BY <1>2, <1>b DEF OpenFile
  <2>2. stamp[i] \in Nat /\ i \in Nodes /\ i < N + edits
    BY <1>b, <1>c, <2>1 DEF Looking
  <2>3. /\ moment'.ignored = moment.ignored /\ moment'.listed = moment.listed
        /\ moment'.moved = moment.moved
    BY <2>1
  <2>4. ReadsOneVersion'
    BY <1>b, <2>1, <2>2 DEF ReadsOneVersion
  <2> QED
    BY <1>a, <1>d, <2>1, <2>2, <2>3, <2>4, ReadingKeeps DEF Looking
<1>3. CASE ReadHalf
  <2>1. /\ moment' = moment
        /\ reading' = [node |-> i, stamp |-> reading.stamp, got |-> reading'.got]
        /\ \/ pc = "first" /\ pc' = "second" /\ reading'.got = <<data[i][1]>>
           \/ pc = "second" /\ pc' = "after" /\ reading'.got = <<reading.got[1], data[i][2]>>
    BY <1>3, <1>b DEF ReadHalf
  <2>2. i \in Nodes /\ i < N + edits
    BY <1>c, <2>1 DEF Looking
  <2>3. ReadsOneVersion'
    BY <1>b, <2>1 DEF CaptureInv, ReadsOneVersion
  <2> QED
    BY <1>a, <1>b, <1>d, <2>1, <2>2, <2>3, ReadingKeeps DEF Looking
<1>4. CASE CheckRead
  <2>1. pc = "after" /\ pc' = "current" /\ stamp[i] = reading.stamp /\ UNCHANGED <<reading, moment>>
    BY <1>4 DEF CheckRead, SameFile
  <2>2. i \in Nodes /\ i < N + edits
    BY <1>c, <2>1 DEF Looking
  <2>3. reading.got = <<data[i][1], data[i][2]>> /\ data[i] \in moment.contents
    BY <2>1 DEF CaptureInv, ReadsOneVersion
  <2>4. data[i] = <<data[i][1], data[i][2]>>
    BY <1>b, <2>2 DEF Halves
  <2>5. ReadsOneVersion'
    BY <2>1, <2>3, <2>4 DEF ReadsOneVersion
  <2> QED
    BY <1>a, <1>b, <1>d, <2>1, <2>2, <2>5, ReadingKeeps DEF Looking
<1> QED
  BY <1>1, <1>2, <1>3, <1>4

(* A name that is left is in the snapshot, or it is noted or counted.      *)
LEMMA LeavingKeeps ==
  ASSUME CaptureInv, UNCHANGED <<editVars, listVars, moment>>, Leave,
         pc \notin {"names", "hidden", "untracked", "done"},
         files' \subseteq files \cup {[name |-> Current, got |-> reading.got,
                                       contents |-> moment.contents]},
         files \subseteq files',
         files' # files => pc = "current",
         skipped' \subseteq Names, Cardinality(skipped') <= MaxSkipped, skipped \subseteq skipped',
         overflow' \in Nat,
         overflow' = 0 => overflow = 0 /\ Current \in Included' \cup skipped'
  PROVE  CaptureInv'
<1> DEFINE f == [name |-> Current, got |-> reading.got, contents |-> moment.contents]
<1> USE DEF CaptureInv, editVars, gitVars, diskVars, listVars
<1>a. /\ pc' = "next" /\ todo' = todo \ {Current} /\ reading' = NotReading
      /\ files' = files \/ (files' = files \cup {f} /\ pc = "current")
  BY DEF Leave
<1>b. reading' = [node |-> None, stamp |-> 0, got |-> <<>>]
  BY <1>a DEF NotReading
<1>1. IsFiniteSet(files') /\ Cardinality(files') <= MaxFiles
  <2>1. CASE files' = files
    BY <2>1 DEF SnapshotInv, TypeOK, Ranges
  <2>2. CASE files' = files \cup {f} /\ pc = "current"
    <3>1. IsFiniteSet(files) /\ Cardinality(files) \in Nat /\ Cardinality(files) < MaxFiles
      BY <2>2, FS_CardinalityType DEF Ranges, RoomToRead, Looking
    <3> HIDE DEF f
    <3>2. /\ IsFiniteSet(files \cup {f})
          /\ Cardinality(files \cup {f}) \in {Cardinality(files), Cardinality(files) + 1}
      BY <3>1, FS_AddElement
    <3> QED
      BY <2>2, <3>1, <3>2, Limits
  <2> QED
    BY <1>a, <2>1, <2>2
<1>2. SnapshotInv'
  <2>1. TypeOK'
    BY <1>1, <1>a, <1>b DEF SnapshotInv, TypeOK
  <2>2. pc = "current" => f.got \in f.contents
    BY DEF ReadsOneVersion
  <2>3. IncludedWasThere'
    BY <1>a, <2>2 DEF SnapshotInv, IncludedWasThere
  <2> QED
    BY <2>1, <2>3 DEF SnapshotInv
<1>3. Ranges'
  <2>1. reading'.node = None /\ reading'.stamp = 0 /\ reading'.got = <<>>
    BY <1>b
  <2> QED
    BY <1>1, <1>b, <2>1 DEF Ranges
<1>4. RoomToRead' /\ ReadsOneVersion' /\ MomentHolds'
  BY <1>a DEF RoomToRead, Looking, ReadsOneVersion, MomentHolds, Listed, Present
<1>5. IgnoredIsHidden'
  <2>1. Included' \subseteq Included \cup {Current}
    BY <1>a DEF Included
  <2>2. pc = "current" => Current \in listed \ hidden
    BY CurrentIsToDo DEF RoomToRead, Looking, SnapshotInv, TypeOK
  <2>3. files' = files => Included' = Included
    BY DEF Included
  <2> QED
    BY <1>a, <2>1, <2>2, <2>3 DEF IgnoredIsHidden
<1>6. NoneLost'
  <2>1. Included \subseteq Included'
    BY DEF Included
  <2>2. overflow' = 0 => listed \subseteq todo' \cup Included' \cup skipped'
    BY <1>a, <2>1 DEF NoneLost
  <2> QED
    BY <1>a, <2>2 DEF NoneLost
<1> QED
  BY <1>2, <1>3, <1>4, <1>5, <1>6

LEMMA LeavingSteps ==
  ASSUME CaptureInv, PassOver \/ GiveUp \/ Include
  PROVE  CaptureInv'
<1>a. UNCHANGED <<editVars, listVars, moment>> /\ Leave
  BY DEF PassOver, GiveUp, Include, Refuse, LoopKeeps
<1>b. pc \in Looking \cup {"next"} /\ todo # {}
  BY DEF PassOver, GiveUp, Include, CaptureInv, RoomToRead, Looking
<1>c. Current \in todo /\ Current \in Names
  BY <1>b, CurrentIsToDo DEF CaptureInv, SnapshotInv, TypeOK
<1>d. /\ skipped \subseteq Names /\ Cardinality(skipped) <= MaxSkipped /\ overflow \in Nat
  BY DEF CaptureInv, SnapshotInv, TypeOK, Ranges
<1>1. CASE PassOver \/ GiveUp
  <2>1. Skip({Current}) /\ UNCHANGED files
    BY <1>1 DEF PassOver, GiveUp, Refuse
  <2>2. /\ skipped' \subseteq Names /\ Cardinality(skipped') <= MaxSkipped
        /\ overflow' \in Nat /\ skipped \subseteq skipped'
        /\ overflow' = 0 => overflow = 0 /\ skipped' = skipped \cup {Current}
    BY <1>c, <1>d, <2>1, SkipsAreCounted
  <2> QED
    BY <1>a, <1>b, <2>1, <2>2, LeavingKeeps DEF Looking
<1>2. CASE Include
  <2> DEFINE f == [name |-> Current, got |-> reading.got, contents |-> moment.contents]
  <2>1. pc = "current" /\ files' = files \cup {f} /\ UNCHANGED <<skipped, overflow>>
    BY <1>2 DEF Include
  <2>2. Current \in Included'
    <3>1. f \in files' /\ f.name = Current
      BY <2>1
    <3> QED
      BY <3>1 DEF Included
  <2> QED
    BY <1>a, <1>d, <2>1, <2>2, LeavingKeeps
<1> QED
  BY <1>1, <1>2

LEMMA FinishKeeps ==
  ASSUME CaptureInv, Finish
  PROVE  CaptureInv'
<1> USE DEF CaptureInv, editVars, gitVars, diskVars, listVars
<1>a. /\ pc = "next" /\ todo = {} /\ pc' = "done"
      /\ UNCHANGED <<editVars, listVars, todo, reading, files, moment>>
      /\ Skip(untracked \ skipped)
  BY DEF Finish, LoopKeeps
<1>b. /\ skipped' \subseteq Names /\ Cardinality(skipped') <= MaxSkipped
      /\ overflow' \in Nat /\ skipped \subseteq skipped'
      /\ overflow' = 0 => overflow = 0
  <2>1. untracked \ skipped \in SUBSET Names
    BY DEF Ranges
  <2>2. skipped \subseteq Names /\ Cardinality(skipped) <= MaxSkipped /\ overflow \in Nat
    BY DEF SnapshotInv, TypeOK, Ranges
  <2> QED
    BY <1>a, <2>1, <2>2, SkipsAreCounted
<1>1. SnapshotInv' /\ Ranges'
  BY <1>a, <1>b DEF SnapshotInv, TypeOK, IncludedWasThere, Ranges
<1>2. RoomToRead' /\ ReadsOneVersion' /\ MomentHolds'
  BY <1>a DEF RoomToRead, Looking, ReadsOneVersion, MomentHolds, Listed, Present
<1>3. IgnoredIsHidden' /\ NoneLost'
  BY <1>a, <1>b DEF IgnoredIsHidden, NoneLost, Included
<1> QED
  BY <1>1, <1>2, <1>3

-----------------------------------------------------------------------------
LEMMA CaptureStarts == Init => CaptureInv
<1> SUFFICES ASSUME Init
             PROVE  CaptureInv
  OBVIOUS
<1>1. \A n \in Names : node[n] \in Nodes /\ node[n] < N
  <2> SUFFICES ASSUME NEW n \in Names
               PROVE  node[n] \in Nodes /\ node[n] < N
    OBVIOUS
  <2> DEFINE below == {m \in Names : m < n}
  <2>1. IsFiniteSet(below) /\ Cardinality(below) <= N /\ (N = Cardinality(below) => Names = below)
    BY Limits, FS_Subset DEF N
  <2>2. n \notin below /\ n \in Names
    BY Limits
  <2>3. Cardinality(below) \in Nat
    BY <2>1, FS_CardinalityType
  <2>4. node[n] = Cardinality(below)
    BY DEF Init
  <2> HIDE DEF below
  <2> QED
    BY <2>1, <2>2, <2>3, <2>4, Limits
<1>2. SnapshotInv
  BY <1>1, Limits, FS_EmptySet DEF Init, SnapshotInv, TypeOK, IncludedWasThere, NotReading
<1>3. Ranges
  <2>1. \A i \in {node[n] : n \in Names} \cup {open, reading.node} :
          i # None => i < Cardinality(Names) + edits
    <3>1. edits = 0 /\ open = None /\ reading.node = None
      BY DEF Init, NotReading
    <3>2. \A n \in Names : node[n] < N + edits
      BY <1>1, <3>1, Limits
    <3> QED
      BY <3>1, <3>2 DEF N
  <2>2. data \in [Nodes -> [Halves -> Nat]] /\ stamp \in [Nodes -> Nat] /\ edits \in 0..MaxEdits
    BY Limits DEF Init
  <2> QED
    BY <2>1, <2>2, FS_EmptySet DEF Init, Ranges, NotReading
<1>4. RoomToRead /\ ReadsOneVersion /\ MomentHolds /\ IgnoredIsHidden /\ NoneLost
  BY DEF Init, RoomToRead, Looking, ReadsOneVersion, MomentHolds, IgnoredIsHidden, Included,
         NoneLost
<1> QED
  BY <1>2, <1>3, <1>4 DEF CaptureInv

LEMMA RestKeeps ==
  ASSUME CaptureInv, UNCHANGED vars
  PROVE  CaptureInv'
<1> USE DEF vars, editVars, gitVars, diskVars, listVars, outVars, CaptureInv
<1>1. Current' = Current /\ Listed' = Listed /\ Included' = Included
  BY DEF Current, Listed, Present, Included
<1>2. SnapshotInv' /\ Ranges' /\ ReadsOneVersion'
  BY DEF SnapshotInv, TypeOK, IncludedWasThere, Ranges, ReadsOneVersion
<1>3. RoomToRead' /\ MomentHolds' /\ IgnoredIsHidden' /\ NoneLost'
  BY <1>1 DEF RoomToRead, MomentHolds, IgnoredIsHidden, NoneLost
<1> QED
  BY <1>2, <1>3

(* What a snapshot has got so far: the versions it read, what it has left  *)
(* out and why, and what it has still to look at.                          *)
THEOREM CaptureIsSound == Spec => []CaptureInv
<1>1. CaptureInv /\ [Next]_vars => CaptureInv'
  BY ListingSteps, ReadingSteps, LeavingSteps, FinishKeeps, UserSteps, RestKeeps
     DEF Next, SnapshotStep, Over
<1> QED
  BY <1>1, CaptureStarts, PTL DEF Spec

(* The snapshot keeps its limits, and what it includes is what the file    *)
(* held at one moment, whoever writes or replaces it meanwhile             *)
(* (_read_source).                                                         *)
THEOREM SnapshotsAreTrue == Spec => []SnapshotInv
<1>1. CaptureInv => SnapshotInv
  BY DEF CaptureInv
<1> QED
  BY <1>1, CaptureIsSound, PTL

(* A file that was ignored all the time is left out, unless it was tracked *)
(* or untracked between the listings.                                      *)
THEOREM IgnoredFilesStayOut == Spec => []IgnoredStaysOutUnlessMoved
<1>1. CaptureInv => IgnoredStaysOutUnlessMoved
  BY DEF CaptureInv, IgnoredIsHidden, RoomToRead, IgnoredStaysOutUnlessMoved, Included
<1> QED
  BY <1>1, CaptureIsSound, PTL

(* A file that git lists all the time is included or accounted for.        *)
THEOREM NoFileIsMissing == Spec => []NoneMissing
<1>1. CaptureInv => NoneMissing
  BY DEF CaptureInv, NoneLost, NoneMissing
<1> QED
  BY <1>1, CaptureIsSound, PTL
=============================================================================
