------------------------------ MODULE MapStore ------------------------------
(***************************************************************************)
(* The map file: Slam::save_map writes a temporary file and renames it,    *)
(* Slam::load_map reads it back at the start of a later mission.  In       *)
(* between: full disks, kills, power cuts, and copies of the file.         *)
(*                                                                         *)
(* A file is a sequence of blocks: a header with the number of keyframes,  *)
(* then for each keyframe its poses, which say whether points follow, and  *)
(* the points.  A block may be torn.  What is in a block is the keyframe.  *)
(***************************************************************************)
EXTENDS Integers, Sequences, SequencesExt

CONSTANTS
  MaxBorn,    \* bound on keyframes, over all missions
  MaxSaves,   \* bound on saves
  MaxCuts,    \* bound on power cuts
  MaxDamage   \* bound on copies that went wrong

ASSUME StoreAssumption ==
  MaxBorn \in Nat /\ MaxSaves \in Nat /\ MaxCuts \in Nat /\ MaxDamage \in Nat

VARIABLES
  up,         \* is a mission running?
  keyframes,  \* its keyframes
  phase,      \* how far save_map is
  todo,       \* what it has not written yet
  file,       \* the map file, None if there is none
  temp,       \* the temporary file
  synced,     \* is the map file on the disk, or still in the page cache?
  report,     \* what the last save of this mission answered
  before,     \* the map file and the session when it began
  saved,      \* the maps that were put in place
  born, saves, cuts, damages

counters == <<born, saves, cuts, damages>>
disk     == <<file, temp, synced>>
vars     == <<up, keyframes, phase, todo, file, temp, synced,
              report, before, saved, born, saves, cuts, damages>>

Torn == [kind |-> "torn"]
None == <<[kind |-> "none"]>>   \* there is no file

Init ==
  /\ up = FALSE /\ keyframes = <<>>
  /\ phase = "idle" /\ todo = <<>>
  /\ file = None /\ temp = None /\ synced = TRUE
  /\ report = "none" /\ before = [file |-> None, map |-> <<>>] /\ saved = {}
  /\ born = 0 /\ saves = 0 /\ cuts = 0 /\ damages = 0

----------------------------------------------------------------------------
(* The format.                                                             *)

Blocks(map) ==
  <<[kind |-> "head", n |-> Len(map)]>> \o
  FlattenSeq([k \in DOMAIN map |->
    <<[kind |-> "poses", of |-> map[k]]>> \o
    IF map[k].dense THEN <<[kind |-> "points", of |-> map[k]]>> ELSE <<>>])

Has(f, i, kind) == i \in DOMAIN f /\ f[i].kind = kind

\* Where the keyframe that begins at block i ends, 0 if it is not all there.
After(f, i) ==
  IF ~Has(f, i, "poses") THEN 0
  ELSE IF ~f[i].of.dense THEN i + 1
  ELSE IF Has(f, i + 1, "points") THEN i + 2
  ELSE 0

\* Where keyframe k of the file begins, 0 if the file breaks off before.
Starts(f) ==
  LET at[k \in 0 .. f[1].n] == IF k = 0 THEN 2 ELSE After(f, at[k - 1])
  IN  at

\* Mutant: trailing data are not noticed.
ReadablePrefix(f) == Has(f, 1, "head") /\ Starts(f)[f[1].n] # 0

\* load_map accepts what has a header, all its keyframes and nothing more.
Readable(f) ==
  /\ Has(f, 1, "head")
  /\ Starts(f)[f[1].n] = Len(f) + 1

Contents(f) == [k \in 1 .. f[1].n |-> f[Starts(f)[k - 1]].of]

----------------------------------------------------------------------------
(* The mission.                                                            *)

\* The node starts.  With map_load_path set the map is unless it is
\* refused or fails to solve: then, and without the parameter, it starts fresh.
Start ==
  /\ ~up /\ up' = TRUE
  /\ \/ keyframes' = <<>>
     \/ Readable(file) /\ keyframes' = Contents(file)
  /\ UNCHANGED <<phase, todo, disk, report, before, saved, counters>>

\* Frames and the save service share the node's mutex.
AddKeyframe ==
  /\ up /\ phase = "idle" /\ born < MaxBorn
  /\ \E dense \in BOOLEAN :
       keyframes' = Append(keyframes, [id |-> born + 1, dense |-> dense])
  /\ born' = born + 1
  /\ UNCHANGED <<up, phase, todo, disk, report, before, saved,
                 saves, cuts, damages>>

----------------------------------------------------------------------------
(* save_map.                                                               *)

\* Mutant: what an earlier save left behind is not truncated.
OpenAppending ==
  /\ up /\ phase = "idle" /\ keyframes # <<>> /\ saves < MaxSaves
  /\ saves' = saves + 1
  /\ before' = [file |-> file, map |-> keyframes]
  /\ temp' = (IF temp = None THEN <<>> ELSE temp) /\ phase' = "write"
  /\ todo' = Blocks(keyframes) /\ report' = "none"
  /\ UNCHANGED <<up, keyframes, file, synced, saved, born, cuts, damages>>

\* The temporary file is opened and truncated, if it can be.
Open ==
  /\ up /\ phase = "idle" /\ keyframes # <<>> /\ saves < MaxSaves
  /\ saves' = saves + 1
  /\ before' = [file |-> file, map |-> keyframes]
  /\ \/ /\ temp' = <<>> /\ phase' = "write"
        /\ todo' = Blocks(keyframes) /\ report' = "none"
     \/ /\ report' = "failed" /\ UNCHANGED <<temp, phase, todo>>
  /\ UNCHANGED <<up, keyframes, file, synced, saved, born, cuts, damages>>

\* The stream is buffered: blocks reach the file one by one, until it is closed.
Write ==
  /\ phase = "write" /\ todo # <<>>
  /\ temp' = Append(temp, Head(todo)) /\ todo' = Tail(todo)
  /\ UNCHANGED <<up, keyframes, phase, file, synced, report, before,
                 saved, counters>>

\* Mutant: the verdict is taken before the stream is flushed.
DiskFullUnnoticed ==
  /\ phase = "write" /\ todo # <<>>
  /\ \E tail \in {<<>>, <<Torn>>} : temp' = temp \o tail
  /\ todo' = <<>>
  /\ UNCHANGED <<up, keyframes, phase, file, synced, report, before,
                 saved, counters>>

\* The disk is full: the stream fails, at the latest when it is flushed.
DiskFull ==
  /\ phase = "write" /\ todo # <<>>
  /\ \E tail \in {<<>>, <<Torn>>} : temp' = temp \o tail
  /\ todo' = <<>> /\ phase' = "remove"
  /\ UNCHANGED <<up, keyframes, file, synced, report, before, saved,
                 counters>>

\* The closed file takes the place of the map file, in one step.
Rename ==
  /\ phase = "write" /\ todo = <<>>
  /\ file' = temp /\ temp' = None /\ synced' = FALSE
  /\ phase' = "idle" /\ report' = "ok"
  /\ saved' = saved \cup {keyframes}
  /\ UNCHANGED <<up, keyframes, todo, before, counters>>

RenameFails ==
  /\ phase = "write" /\ todo = <<>>
  /\ phase' = "remove"
  /\ UNCHANGED <<up, keyframes, todo, disk, report, before, saved, counters>>

\* After a failure the temporary file goes, unless that fails too.
CleanUp ==
  /\ phase = "remove"
  /\ temp' \in {None, temp}
  /\ phase' = "idle" /\ report' = "failed"
  /\ UNCHANGED <<up, keyframes, todo, file, synced, before, saved, counters>>

----------------------------------------------------------------------------
(* The world.                                                              *)

Down ==
  /\ up' = FALSE /\ keyframes' = <<>>
  /\ phase' = "idle" /\ todo' = <<>> /\ report' = "none" /\ before' = [file |-> None, map |-> <<>>]
  /\ UNCHANGED <<saved, born, saves>>

\* The mission ends, or the node is killed, at any point.
Kill == up /\ Down /\ UNCHANGED <<disk, cuts, damages>>

\* What a file may be once its end is lost.
Cut(f) == {SubSeq(f, 1, n) : n \in 0 .. Len(f) - 1} \cup
          {Append(SubSeq(f, 1, n), Torn) : n \in 0 .. Len(f) - 1}

\* The power fails.  Nothing calls fsync: the rename may have reached the disk
\* before the data did.
PowerCut ==
  /\ cuts < MaxCuts /\ cuts' = cuts + 1
  /\ Down
  /\ file' \in {file} \cup IF synced THEN {} ELSE Cut(file)
  /\ temp' \in {temp} \cup IF temp = None THEN {} ELSE Cut(temp)
  /\ synced' = TRUE
  /\ UNCHANGED damages

WriteBack ==
  /\ ~synced /\ synced' = TRUE
  /\ UNCHANGED <<up, keyframes, phase, todo, file, temp, report, before,
                 saved, counters>>

\* Between missions the file is moved about: part of it is lost, or another
\* file ends up behind it.
Damage ==
  /\ ~up /\ file # None /\ damages < MaxDamage
  /\ damages' = damages + 1
  /\ file' \in Cut(file) \cup {file \o Blocks(map) : map \in saved}
  /\ UNCHANGED <<up, keyframes, phase, todo, temp, synced, report,
                 before, saved, born, saves, cuts>>

Next == \/ Start \/ AddKeyframe
        \/ Open \/ Write \/ DiskFull \/ Rename \/ RenameFails \/ CleanUp
        \/ Kill \/ PowerCut \/ WriteBack \/ Damage

Spec == Init /\ [][Next]_vars

----------------------------------------------------------------------------
(* Properties.                                                             *)

\* A reader finds the old map or the complete new one: at no point of a save,
\* whatever kills it, is the map file missing, torn or a mixture.  Only the loss
\* of power, or of the file, can make it so.
OldOrNew ==
  cuts = 0 /\ damages = 0 =>
    IF saved = {} THEN file = None ELSE \E map \in saved : file = Blocks(map)

\* What the operator is told is so: after a success the map file holds the
\* session as it was, after a failure it is the one that was there before.
ReportIsTrue ==
  /\ report = "ok" => file = Blocks(before.map)
  /\ report = "failed" => file = before.file

\* Whatever became of the file, load_map accepts it if and only if it is the
\* whole of a map that was saved, and then reads every keyframe as it was: a
\* file cut short, or with data behind it, never yields part of a map.
LoadsExactly ==
  Readable(file) <=>
    \E map \in saved : file = Blocks(map) /\ Contents(file) = map
=============================================================================
