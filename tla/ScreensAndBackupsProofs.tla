-------------------------- MODULE ScreensAndBackupsProofs --------------------------
(***************************************************************************)
(* Proofs about the backups, for any images and any number of archives,    *)
(* commands and faults; about the lists of the logger page, for any        *)
(* stations and any number of events; and, with what LoggerLayoutProofs    *)
(* proves of its panels, about the parts side by side.                     *)
(***************************************************************************)
EXTENDS ScreensAndBackups, LoggerLayoutProofs, FiniteSetTheorems, FunctionTheorems, WellFoundedInduction, SequenceTheorems, TLAPS

-----------------------------------------------------------------------------
(* The backups: the invariant. *)

Files == [archive : Backups!Dump \cup {None}, uploads : (SUBSET Images) \cup {None}, manifest : Backups!Manifest \cup {None}]
RunType == [pc : {"idle", "dumping", "packing", "signing", "copying", "pruning"}, name : 0..MaxNames,
            left : SUBSET (Images \cup Backups!Names), seen : SUBSET Images]
CommandType == [pc : {"idle", "dumping", "restoring", "unpacking", "done", "failed"},
                kind : {"none", "restore", "migrate"}, name : 0..MaxNames, files : BOOLEAN, drop : BOOLEAN,
                left : SUBSET Images, seen : SUBSET Images]

FilesInv ==
    /\ image \in [Images -> {"none", "filed", "posted", "unlinked", "withdrawn"}]
    /\ dir \in [Backups!Names -> Files]
    /\ offsite \in [Backups!Names -> SUBSET {"archive", "uploads", "manifest"}]
    /\ aged \subseteq 1..named
    /\ run \in RunType /\ command \in CommandType
    /\ target \in [images : SUBSET Images, sessions : BOOLEAN, files : SUBSET Images]
    /\ named \in 0..MaxNames /\ commands \in 0..MaxCommands /\ faults \in 0..MaxFaults

Writing == run.pc \in {"dumping", "packing", "signing"}
Commanded == command.pc \in {"dumping", "restoring", "unpacking"}

\* What is at work is on an archive of its own, and a name that was not given has no files.
NamesInv ==
    /\ run.pc # "idle" => run.name \in 1..named /\ run.name \notin aged
    /\ Commanded => command.name \in 1..named
    /\ \A n \in Backups!Names : n > named => dir[n] = Backups!NoFiles /\ offsite[n] = {}
    /\ command.pc = "dumping" /\ run.pc # "idle" => run.name # command.name
    /\ Commanded /\ command.files /\ Writing => run.name # command.name

\* How far a backup has come, and what a migration leaves alone.
StageInv ==
    /\ Writing => dir[run.name].manifest = None
    /\ run.pc \in {"dumping", "packing"} => dir[run.name].uploads = None
    /\ run.pc \in {"packing", "signing"} => dir[run.name].archive # None /\ dir[run.name].archive.whole
    /\ run.pc = "signing" => dir[run.name].uploads # None
    /\ run.pc \in {"copying", "pruning"} => Backups!Complete(run.name)
    /\ run.pc \in {"dumping", "packing"} => run.left \subseteq Images
    /\ run.pc = "pruning" => run.left \subseteq aged
    /\ command.pc = "dumping" => dir[command.name].manifest = None /\ dir[command.name].uploads = None
    /\ command.pc = "unpacking" => command.files

\* An image whose message was read is posted, or was.
Stored(S) == \A i \in S : image[i] \in {"posted", "unlinked", "withdrawn"}
\* Those of S that are still shown are in T.
StillShown(S, T) == \A i \in S : image[i] = "posted" => i \in T

ImagesInv ==
    /\ \A n \in Backups!Names : dir[n].archive # None =>
          /\ Stored(dir[n].archive.images)
          /\ dir[n].uploads # None => StillShown(dir[n].archive.images, dir[n].uploads)
    /\ run.pc = "dumping" => Stored(run.seen)
    /\ command.pc = "dumping" => Stored(command.seen)
    /\ Stored(target.images)
    /\ run.pc = "packing" => StillShown(dir[run.name].archive.images \ run.left, run.seen)
    /\ command.pc = "unpacking" /\ command.drop /\ dir[command.name].uploads # None =>
          StillShown(target.images, dir[command.name].uploads)

BackupInv == FilesInv /\ NamesInv /\ StageInv /\ Backups!ManifestMeansComplete /\ ImagesInv /\ Backups!RestoredTogether

LEMMA FilesBounds == /\ MaxNames \in Nat /\ MaxCommands \in Nat /\ MaxFaults \in Nat
                /\ None \notin Backups!Dump /\ None \notin Backups!Manifest /\ None \notin SUBSET Images
  BY PartsAssumption DEF Backups!BackupAssumption

LEMMA LifeIs == /\ \A i \in Images : Backups!Lives(i) => /\ image[i] \in {"none", "filed", "posted", "unlinked"}
                                                         /\ image' = [image EXCEPT ![i] =
                                                            CASE image[i] = "none" -> "filed" [] image[i] = "filed" -> "posted"
                                                              [] image[i] = "posted" -> "unlinked" [] OTHER -> "withdrawn"]
                /\ {Backups!Life[k] : k \in DOMAIN Backups!Life} = {"none", "filed", "posted", "unlinked", "withdrawn"}
<1>1. DOMAIN Backups!Life = 1 .. 5 /\ Len(Backups!Life) = 5 /\ Backups!Life[1] = "none" /\ Backups!Life[2] = "filed"
      /\ Backups!Life[3] = "posted"
      /\ Backups!Life[4] = "unlinked" /\ Backups!Life[5] = "withdrawn"
  BY DEF Backups!Life
<1>2. ASSUME NEW i \in Images, Backups!Lives(i)
      PROVE  /\ image[i] \in {"none", "filed", "posted", "unlinked"}
             /\ image' = [image EXCEPT ![i] =
                    CASE image[i] = "none" -> "filed" [] image[i] = "filed" -> "posted"
                      [] image[i] = "posted" -> "unlinked" [] OTHER -> "withdrawn"]
  <2>1. PICK k \in 1 .. 4 : image[i] = Backups!Life[k] /\ image' = [image EXCEPT ![i] = Backups!Life[k + 1]]
    <3>1. 1 .. (Len(Backups!Life) - 1) = 1 .. 4
      BY <1>1
    <3> QED
      BY <1>2, <3>1 DEF Backups!Lives
  <2>2. k = 1 \/ k = 2 \/ k = 3 \/ k = 4
    OBVIOUS
  <2>3. /\ k = 1 => image[i] = "none" /\ image' = [image EXCEPT ![i] = "filed"]
        /\ k = 2 => image[i] = "filed" /\ image' = [image EXCEPT ![i] = "posted"]
        /\ k = 3 => image[i] = "posted" /\ image' = [image EXCEPT ![i] = "unlinked"]
        /\ k = 4 => image[i] = "unlinked" /\ image' = [image EXCEPT ![i] = "withdrawn"]
    <3>1. 1 + 1 = 2 /\ 2 + 1 = 3 /\ 3 + 1 = 4 /\ 4 + 1 = 5
      OBVIOUS
    <3> QED
      BY <1>1, <2>1, <3>1, Zenon
  <2> QED
    BY <2>2, <2>3
<1>3. {Backups!Life[k] : k \in DOMAIN Backups!Life} = {"none", "filed", "posted", "unlinked", "withdrawn"}
  <2>1. 1 .. 5 = {1, 2, 3, 4, 5}
    OBVIOUS
  <2> QED
    BY <1>1, <2>1
<1> QED
  BY <1>2, <1>3

LEMMA BackupStart == Backups!Init => BackupInv
<1> SUFFICES ASSUME Backups!Init PROVE BackupInv
  OBVIOUS
<1>1. FilesInv
  <2>1. {} \subseteq Images /\ {} \subseteq Images \cup Backups!Names /\ Backups!NoFiles \in Files
    BY DEF Backups!NoFiles, Files
  <2> QED
    BY <2>1, FilesBounds DEF Backups!Init, FilesInv, RunType, CommandType, Backups!Idle, Backups!Waiting
<1>2. NamesInv /\ StageInv /\ Backups!RestoredTogether
  BY DEF Backups!Init, NamesInv, StageInv, Backups!RestoredTogether, Writing, Commanded, Backups!Idle, Backups!Waiting
<1>3. Backups!ManifestMeansComplete /\ ImagesInv
  BY DEF Backups!Init, Backups!ManifestMeansComplete, ImagesInv, Backups!NoFiles, Backups!Idle, Backups!Waiting,
     Stored, Backups!Has
<1> QED
  BY <1>1, <1>2, <1>3 DEF BackupInv

-----------------------------------------------------------------------------
(* The application.  An image is shown for a while, once. *)

LEMMA ApplicationKept ==
    ASSUME BackupInv, Backups!Application PROVE BackupInv'
<1>1. PICK j \in Images : Backups!Lives(j) \/ Backups!PostFails(j)
  BY DEF Backups!Application
<1>2. UNCHANGED <<dir, offsite, aged, run, command, target, named, commands>> /\ faults' \in 0 .. MaxFaults
  BY <1>1, FilesBounds DEF Backups!Lives, Backups!PostFails, Backups!Fault, BackupInv, FilesInv
<1>3. image' \in [Images -> {"none", "filed", "posted", "unlinked", "withdrawn"}]
  BY <1>1, LifeIs DEF Backups!PostFails, BackupInv, FilesInv
<1>4. \A i \in Images : /\ image[i] \in {"posted", "unlinked", "withdrawn"}
                           => image'[i] \in {"posted", "unlinked", "withdrawn"}
                        /\ image'[i] = "posted" => image[i] \in {"filed", "posted"}
  BY <1>1, LifeIs DEF Backups!PostFails, BackupInv, FilesInv
<1>5. ASSUME NEW S \in SUBSET Images, Stored(S)
      PROVE  /\ \A i \in S : image'[i] \in {"posted", "unlinked", "withdrawn"}
             /\ \A T : StillShown(S, T) => \A i \in S : image'[i] = "posted" => i \in T
  BY <1>4, <1>5 DEF Stored, StillShown
<1>6. ImagesInv'
  <2>0. ImagesInv
    BY DEF BackupInv
  <2>1. \A n \in Backups!Names : dir[n].archive # None => dir[n].archive.images \in SUBSET Images
    BY DEF BackupInv, FilesInv, Files, Backups!Dump
  <2>2. run.seen \in SUBSET Images /\ command.seen \in SUBSET Images /\ target.images \in SUBSET Images
    BY DEF BackupInv, FilesInv, RunType, CommandType
  <2>3. run.pc = "packing" => run.name \in Backups!Names /\ dir[run.name].archive # None
    BY FilesBounds DEF BackupInv, FilesInv, NamesInv, StageInv, Backups!Names
  <2>4. (\A n \in Backups!Names : dir[n].archive # None =>
            /\ Stored(dir[n].archive.images)
            /\ dir[n].uploads # None => StillShown(dir[n].archive.images, dir[n].uploads))'
    <3>1. ASSUME NEW n \in Backups!Names, dir[n].archive # None
          PROVE  LET S == dir[n].archive.images IN
                 /\ \A i \in S : image'[i] \in {"posted", "unlinked", "withdrawn"}
                 /\ dir[n].uploads # None => \A i \in S : image'[i] = "posted" => i \in dir[n].uploads
      BY <1>5, <2>0, <2>1, <3>1 DEF ImagesInv
    <3> QED
      BY <1>2, <3>1 DEF Stored, StillShown
  <2>5. (/\ run.pc = "dumping" => Stored(run.seen)
         /\ command.pc = "dumping" => Stored(command.seen)
         /\ Stored(target.images))'
    BY <1>2, <1>5, <2>0, <2>2 DEF ImagesInv, Stored
  <2>6. (run.pc = "packing" => StillShown(dir[run.name].archive.images \ run.left, run.seen))'
    <3> DEFINE S == dir[run.name].archive.images \ run.left
    <3>1. run.pc = "packing" => S \in SUBSET Images /\ Stored(S) /\ StillShown(S, run.seen)
      BY <2>0, <2>1, <2>3 DEF ImagesInv, Stored
    <3> QED
      BY <1>2, <1>5, <3>1 DEF StillShown
  <2>7. (command.pc = "unpacking" /\ command.drop /\ dir[command.name].uploads # None =>
            StillShown(target.images, dir[command.name].uploads))'
    <3>1. \A T : StillShown(target.images, T) => \A i \in target.images : image'[i] = "posted" => i \in T
      BY <1>5, <2>0, <2>2 DEF ImagesInv
    <3> QED
      BY <1>2, <2>0, <3>1 DEF ImagesInv, StillShown
  <2> QED
    BY <2>4, <2>5, <2>6, <2>7 DEF ImagesInv
<1>7. Backups!RestoredTogether'
  <2>1. Stored(target.images) /\ target' = target /\ command' = command
    BY <1>2 DEF BackupInv, ImagesInv
  <2> QED
    BY <1>4, <2>1 DEF BackupInv, Backups!RestoredTogether, Stored, FilesInv
<1> QED
  BY <1>2, <1>3, <1>6, <1>7 DEF BackupInv, FilesInv, NamesInv, StageInv, Backups!ManifestMeansComplete,
     Backups!Complete, Backups!Coordinated, Backups!Has, Writing, Commanded

-----------------------------------------------------------------------------
(* The scheduler. *)

\* What the variables hold.
Sorts ==
    /\ \A n \in Backups!Names : /\ n \in Nat /\ dir[n] \in Files
                                /\ dir[n].archive # None => dir[n].archive \in Backups!Dump
                                   /\ dir[n].archive.images \in SUBSET Images
                                /\ dir[n].uploads # None => dir[n].uploads \in SUBSET Images
                                /\ dir[n].manifest # None => dir[n].manifest \in Backups!Manifest
    /\ 1 .. named \subseteq Backups!Names
    /\ run = [pc |-> run.pc, name |-> run.name, left |-> run.left, seen |-> run.seen]
    /\ run.seen \in SUBSET Images /\ run.left \in SUBSET (Images \cup Backups!Names) /\ run.name \in 0 .. MaxNames
    /\ command.seen \in SUBSET Images /\ command.left \in SUBSET Images

LEMMA Sorted == FilesInv => Sorts
<1> SUFFICES ASSUME FilesInv PROVE Sorts
  OBVIOUS
<1>1. ASSUME NEW n \in Backups!Names
      PROVE  /\ n \in Nat /\ dir[n] \in Files
             /\ dir[n].archive # None => dir[n].archive \in Backups!Dump /\ dir[n].archive.images \in SUBSET Images
             /\ dir[n].uploads # None => dir[n].uploads \in SUBSET Images
             /\ dir[n].manifest # None => dir[n].manifest \in Backups!Manifest
  BY DEF FilesInv, Files, Backups!Dump, Backups!Names
<1>2. 1 .. named \subseteq Backups!Names
  BY FilesBounds DEF FilesInv, Backups!Names
<1>3. run \in RunType /\ command \in CommandType
  BY DEF FilesInv
<1> QED
  BY <1>1, <1>2, <1>3 DEF Sorts, RunType, CommandType

\* The files of one archive are written, those of the others stay.
LEMMA Wrote ==
    ASSUME FilesInv, NEW n \in Backups!Names, NEW f \in Files, dir' = [dir EXCEPT ![n] = f]
    PROVE  dir' \in [Backups!Names -> Files] /\ dir'[n] = f /\ \A m \in Backups!Names : m # n => dir'[m] = dir[m]
  BY DEF FilesInv

\* A manifest still means a complete backup, when it does in the one archive whose files are written.
LEMMA ManifestKept ==
    ASSUME Backups!ManifestMeansComplete, NEW n \in Backups!Names, \A m \in Backups!Names : m # n
        => dir'[m] = dir[m], UNCHANGED offsite,
           (dir[n].archive # None /\ dir[n].manifest # None => Backups!Complete(n))'
    PROVE  Backups!ManifestMeansComplete'
<1>1. ASSUME NEW m \in Backups!Names, m # n, (Backups!Has(m, "archive") /\ Backups!Has(m, "manifest"))'
      PROVE Backups!Complete(m)'
  BY <1>1 DEF Backups!ManifestMeansComplete, Backups!Complete, Backups!Coordinated, Backups!Has
<1>2. ASSUME (Backups!Has(n, "archive") /\ Backups!Has(n, "manifest"))' PROVE Backups!Complete(n)'
  BY <1>2 DEF Backups!Has
<1> QED
  BY <1>1, <1>2 DEF Backups!ManifestMeansComplete

LEMMA BeginBackupKept == BackupInv /\ Backups!BeginBackup => BackupInv'
<1> SUFFICES ASSUME BackupInv, Backups!BeginBackup PROVE BackupInv'
  OBVIOUS
<1>t. FilesInv /\ NamesInv /\ StageInv /\ Backups!ManifestMeansComplete /\ ImagesInv /\ Backups!RestoredTogether /\ Sorts
  BY Sorted DEF BackupInv
<1>0. /\ run' = [pc |-> "dumping", name |-> named + 1, left |-> Images, seen |-> {}]
      /\ UNCHANGED <<image, dir, offsite, aged, command, target, commands, faults>>
      /\ named' = named + 1 /\ named < MaxNames
  BY <1>t DEF Backups!BeginBackup, Backups!Reading, Sorts
<1>1. named \in Nat /\ MaxNames \in Nat /\ named + 1 \in Backups!Names /\ named + 1 \in 0 .. MaxNames
  BY <1>t, <1>0, FilesBounds DEF FilesInv, Backups!Names
<1>2. dir[named + 1] = Backups!NoFiles
  BY <1>t, <1>1 DEF NamesInv
<1>3. FilesInv'
  <2>1. run' \in RunType
    BY <1>0, <1>1 DEF RunType
  <2>2. aged \subseteq 1 .. (named + 1)
    BY <1>t, <1>1 DEF FilesInv
  <2> QED
    BY <1>t, <1>0, <1>1, <2>1, <2>2 DEF FilesInv
<1>4. NamesInv'
  BY <1>t, <1>0, <1>1 DEF NamesInv, FilesInv, Backups!Names, Commanded, Writing
<1>5. StageInv'
  BY <1>t, <1>0, <1>2 DEF StageInv, Backups!NoFiles, Writing
<1>6. Backups!ManifestMeansComplete' /\ Backups!RestoredTogether'
  BY <1>t, <1>0 DEF Backups!ManifestMeansComplete, Backups!RestoredTogether, Backups!Complete, Backups!Coordinated,
     Backups!Has
<1>7. ImagesInv'
  BY <1>t, <1>0 DEF ImagesInv, Stored, StillShown
<1> QED
  BY <1>3, <1>4, <1>5, <1>6, <1>7 DEF BackupInv

LEMMA ReadsKept == BackupInv /\ Backups!Reads => BackupInv'
<1> SUFFICES ASSUME BackupInv, Backups!Reads PROVE BackupInv'
  OBVIOUS
<1>t. FilesInv /\ NamesInv /\ StageInv /\ Backups!ManifestMeansComplete /\ ImagesInv /\ Backups!RestoredTogether /\ Sorts
  BY Sorted DEF BackupInv
<1>0. PICK i \in run.left : run' = Backups!Read(run, i)
  BY DEF Backups!Reads
<1>1. /\ run.pc \in {"dumping", "packing"} /\ i \in Images
      /\ run' = [pc |-> run.pc, name |-> run.name, left |-> run.left \ {i},
                 seen |-> IF Backups!Met(run, i) THEN run.seen \cup {i} ELSE run.seen]
      /\ UNCHANGED <<image, dir, offsite, aged, command, target, named, commands, faults>>
  <2>1. run.pc \in {"dumping", "packing"} /\ i \in Images
        /\ UNCHANGED <<image, dir, offsite, aged, command, target, named, commands, faults>>
    BY <1>t DEF Backups!Reads, StageInv
  <2> QED
    BY <1>t, <1>0, <2>1 DEF Backups!Read, Sorts
<1>3. FilesInv'
  <2>1. run' \in RunType
    BY <1>t, <1>1 DEF RunType, Sorts
  <2> QED
    BY <1>t, <1>1, <2>1 DEF FilesInv
<1>4. NamesInv' /\ StageInv'
  BY <1>t, <1>1 DEF NamesInv, StageInv, Writing, Commanded
<1>6. Backups!ManifestMeansComplete' /\ Backups!RestoredTogether'
  BY <1>t, <1>1 DEF Backups!ManifestMeansComplete, Backups!RestoredTogether, Backups!Complete, Backups!Coordinated,
     Backups!Has
<1>7. ImagesInv'
  <2>1. run.pc = "dumping" => Stored(run'.seen)
    BY <1>t, <1>1 DEF ImagesInv, Stored, Backups!Met, Backups!InDatabase
  <2>2. run.pc = "packing" => StillShown(dir[run.name].archive.images \ run'.left, run'.seen)
    BY <1>t, <1>1 DEF ImagesInv, StillShown, Backups!Met, Backups!InUploads
  <2> QED
    BY <1>t, <1>1, <2>1, <2>2 DEF ImagesInv, Stored, StillShown
<1> QED
  BY <1>3, <1>4, <1>6, <1>7 DEF BackupInv

LEMMA DumpedKept == BackupInv /\ Backups!Dumped => BackupInv'
<1> SUFFICES ASSUME BackupInv, Backups!Dumped PROVE BackupInv'
  OBVIOUS
<1>t. FilesInv /\ NamesInv /\ StageInv /\ Backups!ManifestMeansComplete /\ ImagesInv /\ Backups!RestoredTogether /\ Sorts
  BY Sorted DEF BackupInv
<1> DEFINE n == run.name
           a == [whole |-> TRUE, images |-> run.seen, sessions |-> FALSE]
           f == [archive |-> a, uploads |-> None, manifest |-> None]
<1>0. /\ run.pc = "dumping" /\ run' = [pc |-> "packing", name |-> n, left |-> Images, seen |-> {}]
      /\ UNCHANGED <<image, offsite, aged, command, target, named, commands, faults>>
  BY <1>t DEF Backups!Dumped, Backups!Reading, Sorts
<1>1. n \in Backups!Names /\ n \in 1 .. named /\ dir[n].uploads = None /\ dir[n].manifest = None
  BY <1>t, <1>0 DEF NamesInv, StageInv, Sorts, Writing
<1>2. a \in Backups!Dump /\ a # None /\ f \in Files
  <2>1. a \in Backups!Dump
    BY <1>t DEF Sorts, Backups!Dump
  <2> HIDE DEF a
  <2> QED
    BY <2>1, FilesBounds DEF Files
<1> HIDE DEF a
<1>3. dir' \in [Backups!Names -> Files] /\ dir'[n] = f /\ \A m \in Backups!Names : m # n => dir'[m] = dir[m]
  <2>1. [dir[n] EXCEPT !.archive = a] = f
    <3>1. dir[n] \in Files
      BY <1>t, <1>1 DEF Sorts
    <3> QED
      BY <1>1, <3>1 DEF Files
  <2>2. dir' = [dir EXCEPT ![n] = f]
    BY <1>t, <1>1, <2>1 DEF Backups!Dumped, FilesInv, a
  <2> QED
    BY <1>t, <1>1, <1>2, <2>2, Wrote
<1>4. FilesInv'
  <2>1. run' \in RunType
    BY <1>t, <1>0 DEF RunType, Sorts
  <2> QED
    BY <1>t, <1>0, <1>3, <2>1 DEF FilesInv
<1>5. NamesInv'
  BY <1>t, <1>0, <1>1, <1>3 DEF NamesInv, FilesInv, Sorts, Writing, Commanded
<1>6. StageInv'
  <2>1. dir'[n].archive # None /\ dir'[n].archive.whole
    BY <1>2, <1>3 DEF a
  <2>2. command.pc = "dumping" => dir'[command.name] = dir[command.name]
    BY <1>t, <1>0, <1>3 DEF NamesInv, Commanded, Sorts
  <2> QED
    BY <1>t, <1>0, <1>3, <2>1, <2>2 DEF StageInv, Writing
<1>7. Backups!ManifestMeansComplete' /\ Backups!RestoredTogether'
  <2>1. dir'[n].manifest = None
    BY <1>3
  <2>2. Backups!ManifestMeansComplete'
    BY <1>t, <1>0, <1>1, <1>3, <2>1, ManifestKept
  <2> QED
    BY <1>t, <1>0, <2>2 DEF Backups!RestoredTogether
<1>8. ImagesInv'
  <2>1. Stored(a.images)
    BY <1>t, <1>0 DEF ImagesInv, a
  <2>2. command.pc = "unpacking" => command.name \in Backups!Names
    BY <1>t DEF NamesInv, Commanded, Sorts
  <2>3. dir'[n].archive = a /\ dir'[n].uploads = None
    BY <1>3
  <2>4. ASSUME NEW m \in Backups!Names, dir'[m].archive # None
        PROVE  /\ Stored(dir'[m].archive.images)
               /\ dir'[m].uploads # None => StillShown(dir'[m].archive.images, dir'[m].uploads)
    BY <1>t, <1>3, <2>1, <2>3, <2>4 DEF ImagesInv
  <2>5. StillShown(dir'[n].archive.images \ Images, {})
    BY <1>t, <2>3 DEF StillShown, Sorts, a
  <2>6. command.pc = "unpacking" /\ command.drop /\ dir'[command.name].uploads # None
            => StillShown(target.images, dir'[command.name].uploads)
    BY <1>t, <1>3, <2>2, <2>3 DEF ImagesInv
  <2> QED
    BY <1>t, <1>0, <2>4, <2>5, <2>6 DEF ImagesInv, Stored, StillShown
<1> QED
  BY <1>4, <1>5, <1>6, <1>7, <1>8 DEF BackupInv

LEMMA PackedKept == BackupInv /\ Backups!Packed => BackupInv'
<1> SUFFICES ASSUME BackupInv, Backups!Packed PROVE BackupInv'
  OBVIOUS
<1>t. FilesInv /\ NamesInv /\ StageInv /\ Backups!ManifestMeansComplete /\ ImagesInv /\ Backups!RestoredTogether /\ Sorts
  BY Sorted DEF BackupInv
<1> DEFINE n == run.name
           f == [archive |-> dir[n].archive, uploads |-> run.seen, manifest |-> None]
<1>0. /\ run.pc = "packing" /\ run.left = {} /\ run' = [pc |-> "signing", name |-> n, left |-> {}, seen |-> run.seen]
      /\ UNCHANGED <<image, offsite, aged, command, target, named, commands, faults>>
  BY <1>t DEF Backups!Packed, Sorts
<1>1. n \in Backups!Names /\ n \in 1 .. named /\ dir[n].uploads = None /\ dir[n].manifest = None
      /\ dir[n].archive # None /\ dir[n].archive.whole
  BY <1>t, <1>0 DEF NamesInv, StageInv, Sorts, Writing
<1>2. f \in Files /\ run.seen # None
  BY <1>t, <1>1, FilesBounds DEF Sorts, Files
<1>3. dir' \in [Backups!Names -> Files] /\ dir'[n] = f /\ \A m \in Backups!Names : m # n => dir'[m] = dir[m]
  <2>1. [dir[n] EXCEPT !.uploads = run.seen] = f
    <3>1. dir[n] \in Files
      BY <1>t, <1>1 DEF Sorts
    <3> QED
      BY <1>1, <3>1 DEF Files
  <2>2. dir' = [dir EXCEPT ![n] = f]
    BY <1>t, <1>1, <2>1 DEF Backups!Packed, FilesInv
  <2> QED
    BY <1>t, <1>1, <1>2, <2>2, Wrote
<1>4. FilesInv'
  <2>1. run' \in RunType
    BY <1>t, <1>0 DEF RunType, Sorts
  <2> QED
    BY <1>t, <1>0, <1>3, <2>1 DEF FilesInv
<1>5. NamesInv'
  BY <1>t, <1>0, <1>1, <1>3 DEF NamesInv, FilesInv, Sorts, Writing, Commanded
<1>6. StageInv'
  <2>1. dir'[n].archive # None /\ dir'[n].archive.whole /\ dir'[n].uploads # None /\ dir'[n].manifest = None
    BY <1>1, <1>2, <1>3
  <2>2. command.pc = "dumping" => dir'[command.name] = dir[command.name]
    BY <1>t, <1>0, <1>3 DEF NamesInv, Commanded, Sorts
  <2> QED
    BY <1>t, <1>0, <1>3, <2>1, <2>2 DEF StageInv, Writing
<1>7. Backups!ManifestMeansComplete' /\ Backups!RestoredTogether'
  <2>1. dir'[n].manifest = None
    BY <1>3
  <2>2. Backups!ManifestMeansComplete'
    BY <1>t, <1>0, <1>1, <1>3, <2>1, ManifestKept
  <2> QED
    BY <1>t, <1>0, <2>2 DEF Backups!RestoredTogether
<1>8. ImagesInv'
  <2>1. Stored(dir[n].archive.images) /\ StillShown(dir[n].archive.images, run.seen)
    BY <1>t, <1>0, <1>1 DEF ImagesInv, StillShown
  <2>2. command.pc = "unpacking" => command.name \in Backups!Names /\ command.name # n
    BY <1>t, <1>0 DEF NamesInv, StageInv, Commanded, Writing, Sorts
  <2>3. dir'[n].archive = dir[n].archive /\ dir'[n].uploads = run.seen
    BY <1>3
  <2>4. ASSUME NEW m \in Backups!Names, dir'[m].archive # None
        PROVE  /\ Stored(dir'[m].archive.images)
               /\ dir'[m].uploads # None => StillShown(dir'[m].archive.images, dir'[m].uploads)
    BY <1>t, <1>3, <2>1, <2>3, <2>4 DEF ImagesInv
  <2>6. command.pc = "unpacking" /\ command.drop /\ dir'[command.name].uploads # None
            => StillShown(target.images, dir'[command.name].uploads)
    BY <1>t, <1>0, <1>3, <2>2, <2>3 DEF ImagesInv
  <2> QED
    BY <1>t, <1>0, <2>4, <2>6 DEF ImagesInv, Stored, StillShown
<1> QED
  BY <1>4, <1>5, <1>6, <1>7, <1>8 DEF BackupInv

LEMMA SignedKept == BackupInv /\ Backups!Signed => BackupInv'
<1> SUFFICES ASSUME BackupInv, Backups!Signed PROVE BackupInv'
  OBVIOUS
<1>t. FilesInv /\ NamesInv /\ StageInv /\ Backups!ManifestMeansComplete /\ ImagesInv /\ Backups!RestoredTogether /\ Sorts
  BY Sorted DEF BackupInv
<1>n. PICK n : n = run.name
  OBVIOUS
<1> DEFINE d == [archive |-> dir[n].archive.images, uploads |-> dir[n].uploads]
           f == [archive |-> dir[n].archive, uploads |-> dir[n].uploads, manifest |-> d]
<1>0. /\ run.pc = "signing" /\ run' = [pc |-> "copying", name |-> n, left |-> run.left, seen |-> run.seen]
      /\ UNCHANGED <<image, offsite, aged, command, target, named, commands, faults>>
  BY <1>t, <1>n DEF Backups!Signed, Sorts
<1>1. n \in Backups!Names /\ n \in 1 .. named /\ dir[n].uploads # None /\ dir[n].archive # None /\ dir[n].archive.whole
  BY <1>t, <1>0, <1>n DEF NamesInv, StageInv, Sorts, Writing
<1>2. f \in Files /\ d # None
  <2>1. d \in Backups!Manifest
    BY <1>t, <1>1 DEF Sorts, Backups!Manifest
  <2>2. dir[n] \in Files
    BY <1>t, <1>1 DEF Sorts
  <2> HIDE DEF d
  <2> QED
    BY <2>1, <2>2, FilesBounds DEF Files
<1>3. dir' \in [Backups!Names -> Files] /\ dir'[n] = f /\ \A m \in Backups!Names : m # n => dir'[m] = dir[m]
  <2>1. [dir[n] EXCEPT !.manifest = d] = f
    <3>1. dir[n] \in Files
      BY <1>t, <1>1 DEF Sorts
    <3> QED
      BY <3>1 DEF Files
  <2>2. dir' = [dir EXCEPT ![n] = f]
    BY <1>t, <1>1, <1>n, <2>1 DEF Backups!Signed, FilesInv
  <2> QED
    BY <1>t, <1>1, <1>2, <2>2, Wrote
<1>4. FilesInv'
  <2>1. run' \in RunType
    BY <1>t, <1>0, <1>n DEF RunType, Sorts
  <2> QED
    BY <1>t, <1>0, <1>3, <2>1 DEF FilesInv
<1>5. NamesInv'
  BY <1>t, <1>0, <1>1, <1>3, <1>n DEF NamesInv, FilesInv, Sorts, Writing, Commanded
<1>6. Backups!Complete(n)'
  <2>1. dir'[n].archive # None /\ dir'[n].archive.whole /\ dir'[n].uploads # None /\ dir'[n].manifest # None
        /\ dir'[n].manifest = [archive |-> dir'[n].archive.images, uploads |-> dir'[n].uploads]
    BY <1>1, <1>2, <1>3
  <2> QED
    BY <2>1 DEF Backups!Complete, Backups!Coordinated, Backups!Has
<1>7. StageInv'
  <2>1. command.pc = "dumping" => dir'[command.name] = dir[command.name]
    BY <1>t, <1>0, <1>3, <1>n DEF NamesInv, Commanded, Sorts
  <2>3. Backups!Complete(run.name)'
    BY <1>0, <1>6
  <2> QED
    BY <1>t, <1>0, <2>1, <2>3 DEF StageInv, Writing
<1>8. Backups!ManifestMeansComplete' /\ Backups!RestoredTogether'
  <2>1. Backups!ManifestMeansComplete'
    BY <1>t, <1>0, <1>1, <1>3, <1>6, ManifestKept
  <2> QED
    BY <1>t, <1>0, <2>1 DEF Backups!RestoredTogether
<1>9. ImagesInv'
  <2>1. \A m \in Backups!Names : dir'[m].archive = dir[m].archive /\ dir'[m].uploads = dir[m].uploads
    BY <1>3
  <2>2. command.pc = "unpacking" => command.name \in Backups!Names
    BY <1>t DEF NamesInv, Commanded, Sorts
  <2> QED
    BY <1>t, <1>0, <2>1, <2>2 DEF ImagesInv, Stored, StillShown
<1> QED
  BY <1>4, <1>5, <1>7, <1>8, <1>9 DEF BackupInv

LEMMA BackupFailsKept == BackupInv /\ Backups!BackupFails => BackupInv'
<1> SUFFICES ASSUME BackupInv, Backups!BackupFails PROVE BackupInv'
  OBVIOUS
<1>t. FilesInv /\ NamesInv /\ StageInv /\ Backups!ManifestMeansComplete /\ ImagesInv /\ Backups!RestoredTogether /\ Sorts
  BY Sorted DEF BackupInv
<1>n. PICK n : n = run.name
  OBVIOUS
<1>0. /\ run.pc \in {"dumping", "packing", "signing"} /\ run' = Backups!Idle /\ faults' \in 0 .. MaxFaults
      /\ UNCHANGED <<image, offsite, aged, command, target, named, commands>>
  BY <1>t, FilesBounds DEF Backups!BackupFails, Backups!Fault, FilesInv
<1>1. n \in Backups!Names /\ n \in 1 .. named
  BY <1>t, <1>0, <1>n DEF NamesInv, Sorts
<1>3. dir' \in [Backups!Names -> Files] /\ dir'[n] = Backups!NoFiles /\ \A m \in Backups!Names : m # n => dir'[m] = dir[m]
  <2>1. Backups!NoFiles \in Files
    BY DEF Backups!NoFiles, Files
  <2> QED
    BY <1>t, <1>1, <1>n, <2>1, Wrote DEF Backups!BackupFails
<1>4. FilesInv'
  <2>1. run' \in RunType
    BY <1>0, FilesBounds DEF RunType, Backups!Idle
  <2> QED
    BY <1>t, <1>0, <1>3, <2>1 DEF FilesInv
<1>5. NamesInv'
  BY <1>t, <1>0, <1>1, <1>3 DEF NamesInv, FilesInv, Sorts, Writing, Commanded, Backups!Idle
<1>6. StageInv'
  <2>1. command.pc = "dumping" => dir'[command.name] = dir[command.name]
    BY <1>t, <1>0, <1>3, <1>n DEF NamesInv, Commanded, Sorts
  <2> QED
    BY <1>t, <1>0, <2>1 DEF StageInv, Writing, Backups!Idle
<1>7. Backups!ManifestMeansComplete' /\ Backups!RestoredTogether'
  <2>1. dir'[n].archive = None
    BY <1>3 DEF Backups!NoFiles
  <2>2. Backups!ManifestMeansComplete'
    BY <1>t, <1>0, <1>1, <1>3, <2>1, ManifestKept
  <2> QED
    BY <1>t, <1>0, <2>2 DEF Backups!RestoredTogether
<1>8. ImagesInv'
  <2>1. dir'[n].archive = None /\ dir'[n].uploads = None
    BY <1>3 DEF Backups!NoFiles
  <2>2. command.pc = "unpacking" => command.name \in Backups!Names
    BY <1>t DEF NamesInv, Commanded, Sorts
  <2>3. \A m \in Backups!Names : (dir'[m].archive # None => m # n) /\ (dir'[m].uploads # None => m # n)
    BY <2>1
  <2> QED
    BY <1>t, <1>0, <1>3, <2>2, <2>3 DEF ImagesInv, Stored, StillShown, Backups!Idle
<1> QED
  BY <1>4, <1>5, <1>6, <1>7, <1>8 DEF BackupInv

\* The first of the files that are missing, or that are there
LEMMA EarlyPart ==
    ASSUME NEW S \in SUBSET (DOMAIN Backups!Parts), S # {}
    PROVE  /\ Backups!Min(S) \in S /\ Backups!Min(S) = IF 1 \in S THEN 1 ELSE IF 2 \in S THEN 2 ELSE 3
           /\ DOMAIN Backups!Parts = {1, 2, 3} /\ Backups!Parts[1] = "archive" /\ Backups!Parts[2] = "uploads"
              /\ Backups!Parts[3] = "manifest"
<1>1. DOMAIN Backups!Parts = {1, 2, 3} /\ Backups!Parts[1] = "archive" /\ Backups!Parts[2] = "uploads"
      /\ Backups!Parts[3] = "manifest"
  BY DEF Backups!Parts
<1> DEFINE x == IF 1 \in S THEN 1 ELSE IF 2 \in S THEN 2 ELSE 3
<1>2. x \in S /\ \A y \in S : x <= y
  BY <1>1
<1>3. \A z \in S : (\A y \in S : z <= y) => z = x
  BY <1>1, <1>2
<1> HIDE DEF x
<1>4. Backups!Min(S) = x
  BY <1>2, <1>3 DEF Backups!Min
<1> QED
  BY <1>1, <1>2, <1>4 DEF x

LEMMA CopiesKept == BackupInv /\ Backups!Copies => BackupInv'
<1> SUFFICES ASSUME BackupInv, Backups!Copies PROVE BackupInv'
  OBVIOUS
<1>t. FilesInv /\ NamesInv /\ StageInv /\ Backups!ManifestMeansComplete /\ ImagesInv /\ Backups!RestoredTogether /\ Sorts
  BY Sorted DEF BackupInv
<1>n. PICK n : n = run.name
  OBVIOUS
<1> DEFINE missing == {k \in DOMAIN Backups!Parts : Backups!Parts[k] \notin offsite[n]}
<1>0. run.pc = "copying" /\ UNCHANGED <<image, dir, aged, command, target, named, commands, faults>>
  BY DEF Backups!Copies
<1>1. n \in Backups!Names /\ n \in 1 .. named /\ n \notin aged
  BY <1>t, <1>0, <1>n DEF NamesInv, Sorts
<1>2. \/ /\ missing = {} /\ UNCHANGED offsite
         /\ run' = [pc |-> "pruning", name |-> n, left |-> {m \in aged : Backups!Has(m, "archive")}, seen |-> run.seen]
      \/ /\ missing # {} /\ UNCHANGED run
         /\ offsite' = [offsite EXCEPT ![n] = @ \cup {Backups!Parts[Backups!Min(missing)]}]
  BY <1>t, <1>n DEF Backups!Copies, Sorts
<1>3. run' \in RunType
  <2> DEFINE old == {m \in aged : Backups!Has(m, "archive")}
  <2>1. old \in SUBSET (Images \cup Backups!Names)
    BY <1>t DEF FilesInv, Sorts
  <2> HIDE DEF old
  <2>2. [pc |-> "pruning", name |-> n, left |-> old, seen |-> run.seen] \in RunType
    BY <1>t, <1>n, <2>1 DEF RunType, Sorts
  <2>3. run \in RunType
    BY <1>t DEF FilesInv
  <2> QED
    BY <1>2, <2>2, <2>3 DEF old
<1>4. /\ offsite' \in [Backups!Names -> SUBSET {"archive", "uploads", "manifest"}]
      /\ \A m \in Backups!Names : m # n => offsite'[m] = offsite[m]
      /\ "manifest" \in offsite'[n] => {"archive", "uploads", "manifest"} \subseteq offsite'[n]
  <2>0. offsite \in [Backups!Names -> SUBSET {"archive", "uploads", "manifest"}]
        /\ ("manifest" \in offsite[n] => offsite[n] = {Backups!Parts[k] : k \in DOMAIN Backups!Parts})
    BY <1>t, <1>1 DEF FilesInv, Backups!ManifestMeansComplete
  <2>1. CASE missing = {}
    BY <1>2, <2>0, <2>1 DEF Backups!Parts
  <2>2. CASE missing # {}
    <3>1. missing \in SUBSET (DOMAIN Backups!Parts)
      OBVIOUS
    <3>2. Backups!Parts[Backups!Min(missing)] \in {"archive", "uploads", "manifest"}
          /\ (Backups!Parts[Backups!Min(missing)] = "manifest" => "archive" \in offsite[n] /\ "uploads" \in offsite[n])
      BY <2>2, <3>1, EarlyPart
    <3>3. {Backups!Parts[k] : k \in DOMAIN Backups!Parts} = {"archive", "uploads", "manifest"}
      BY <2>2, <3>1, EarlyPart
    <3> QED
      BY <1>1, <1>2, <2>0, <2>2, <3>2, <3>3
  <2> QED
    BY <2>1, <2>2
<1>5. FilesInv'
  BY <1>t, <1>0, <1>3, <1>4 DEF FilesInv
<1>6. NamesInv' /\ StageInv'
  <2>1. run'.pc \in {"copying", "pruning"} /\ run'.name = n /\ Backups!Complete(n)
    BY <1>t, <1>0, <1>2, <1>n DEF StageInv
  <2>2. Backups!Complete(run.name)'
    BY <1>0, <2>1 DEF Backups!Complete, Backups!Coordinated, Backups!Has
  <2>3. run'.pc = "pruning" => run'.left \subseteq aged
    BY <1>0, <1>2
  <2>4. \A m \in Backups!Names : m > named => offsite'[m] = {}
    BY <1>t, <1>1, <1>4 DEF NamesInv, FilesInv, Backups!Names
  <2> QED
    BY <1>t, <1>0, <1>1, <1>n, <2>1, <2>2, <2>3, <2>4 DEF NamesInv, StageInv, Writing, Commanded
<1>7. Backups!ManifestMeansComplete' /\ Backups!RestoredTogether'
  <2>1. ASSUME NEW m \in Backups!Names PROVE "manifest" \in offsite'[m]
               => offsite'[m] = {Backups!Parts[k] : k \in DOMAIN Backups!Parts}
    <3>1. {Backups!Parts[k] : k \in DOMAIN Backups!Parts} = {"archive", "uploads", "manifest"}
      BY EarlyPart, 1 \in DOMAIN Backups!Parts DEF Backups!Parts
    <3> QED
      BY <1>t, <1>4, <3>1 DEF Backups!ManifestMeansComplete
  <2> QED
    BY <1>t, <1>0, <2>1 DEF Backups!ManifestMeansComplete, Backups!RestoredTogether, Backups!Complete,
       Backups!Coordinated, Backups!Has
<1>8. ImagesInv'
  BY <1>t, <1>0, <1>2 DEF ImagesInv, Stored, StillShown
<1> QED
  BY <1>5, <1>6, <1>7, <1>8 DEF BackupInv

LEMMA RestsKept == BackupInv /\ (Backups!Sleeps \/ Backups!Killed) => BackupInv'
<1> SUFFICES ASSUME BackupInv, Backups!Sleeps \/ Backups!Killed PROVE BackupInv'
  OBVIOUS
<1>t. FilesInv /\ NamesInv /\ StageInv /\ Backups!ManifestMeansComplete /\ ImagesInv /\ Backups!RestoredTogether
  BY DEF BackupInv
<1>0. run' = Backups!Idle /\ UNCHANGED <<image, dir, offsite, aged, command, target, named, commands>>
      /\ faults' \in 0 .. MaxFaults
  BY <1>t, FilesBounds DEF Backups!Sleeps, Backups!Killed, Backups!Fault, FilesInv
<1>1. FilesInv'
  <2>1. run' \in RunType
    BY <1>0, FilesBounds DEF RunType, Backups!Idle
  <2> QED
    BY <1>t, <1>0, <2>1 DEF FilesInv
<1>2. NamesInv' /\ StageInv'
  BY <1>t, <1>0 DEF NamesInv, StageInv, Writing, Commanded, Backups!Idle
<1>3. Backups!ManifestMeansComplete' /\ Backups!RestoredTogether'
  BY <1>t, <1>0 DEF Backups!ManifestMeansComplete, Backups!RestoredTogether, Backups!Complete, Backups!Coordinated,
     Backups!Has
<1>4. ImagesInv'
  BY <1>t, <1>0 DEF ImagesInv, Stored, StillShown, Backups!Idle
<1> QED
  BY <1>1, <1>2, <1>3, <1>4 DEF BackupInv

LEMMA AgesKept == ASSUME NEW n \in Backups!Names, BackupInv, Backups!Ages(n) PROVE BackupInv'
<1>t. FilesInv /\ NamesInv /\ StageInv /\ Backups!ManifestMeansComplete /\ ImagesInv /\ Backups!RestoredTogether
  BY DEF BackupInv
<1>0. /\ UNCHANGED <<image, dir, offsite, run, command, target, named, commands, faults>>
      /\ aged' = aged \cup {n} /\ n # run.name /\ Backups!Has(n, "archive")
  BY DEF Backups!Ages
<1>1. n \in 1 .. named
  <2>1. dir[n] # Backups!NoFiles /\ n \in Nat /\ n >= 1 /\ named \in Nat
    BY <1>t, <1>0, FilesBounds DEF Backups!Has, Backups!NoFiles, Backups!Names, FilesInv
  <2> QED
    BY <1>t, <2>1 DEF NamesInv
<1>2. FilesInv'
  BY <1>t, <1>0, <1>1 DEF FilesInv
<1>3. NamesInv' /\ StageInv'
  <2>1. Backups!Complete(run.name) => Backups!Complete(run.name)'
    BY <1>0 DEF Backups!Complete, Backups!Coordinated, Backups!Has
  <2> QED
    BY <1>t, <1>0, <2>1 DEF NamesInv, StageInv, Writing, Commanded
<1>4. Backups!ManifestMeansComplete' /\ Backups!RestoredTogether'
  BY <1>t, <1>0 DEF Backups!ManifestMeansComplete, Backups!RestoredTogether, Backups!Complete, Backups!Coordinated,
     Backups!Has
<1>5. ImagesInv'
  BY <1>t, <1>0 DEF ImagesInv, Stored, StillShown
<1> QED
  BY <1>2, <1>3, <1>4, <1>5 DEF BackupInv

\* A finite set of numbers has a least one, with the fewest below it.
LEMMA FirstOf ==
    ASSUME NEW S, S \subseteq Nat, IsFiniteSet(S), S # {}
    PROVE  \E x \in S : \A y \in S : x <= y
<1> DEFINE Below(x) == {y \in S : y < x}
           C == {Below(x) : x \in S}
<1>1. C # {} /\ C \subseteq FiniteSubsetsOf(S)
  <2>1. ASSUME NEW x \in S PROVE Below(x) \in FiniteSubsetsOf(S)
    BY FS_Subset, Below(x) \in SUBSET S DEF FiniteSubsetsOf
  <2> QED
    BY <2>1
<1>2. PICK U \in C : \A T \in C : ~(<<T, U>> \in StrictSubsetOrdering(S))
  BY <1>1, FS_StrictSubsetOrderingWellFounded, WFMin
<1>3. PICK x \in S : U = Below(x)
  OBVIOUS
<1>4. ASSUME NEW y \in S, y < x PROVE FALSE
  <2> /\ x \in Nat /\ y \in Nat /\ y < x
    BY <1>4
  <2>0. y \in Below(x) \ Below(y) /\ Below(y) \in C
    OBVIOUS
  <2>3. ASSUME NEW z \in Below(y) PROVE z \in Below(x)
    <3> z \in S /\ z \in Nat /\ z < y
      BY <2>3
    <3> QED
      OBVIOUS
  <2>1. Below(y) \subseteq Below(x) /\ y \in Below(x) \ Below(y) /\ Below(y) \in C
    BY <2>0, <2>3
  <2>2. <<Below(y), U>> \in StrictSubsetOrdering(S)
    BY <2>1, <1>3 DEF StrictSubsetOrdering
  <2> QED
    BY <2>1, <2>2, <1>2
<1> QED
  BY <1>4

LEMMA PrunesKept == BackupInv /\ Backups!Prunes => BackupInv'
<1> SUFFICES ASSUME BackupInv, Backups!Prunes PROVE BackupInv'
  OBVIOUS
<1>t. FilesInv /\ NamesInv /\ StageInv /\ Backups!ManifestMeansComplete /\ ImagesInv /\ Backups!RestoredTogether /\ Sorts
  BY Sorted DEF BackupInv
<1>n. PICK n : n = Backups!Min(run.left)
  OBVIOUS
<1> DEFINE present == {k \in DOMAIN Backups!Parts : Backups!Has(n, Backups!Parts[k])}
<1>0. /\ run.pc = "pruning" /\ run.left # {} /\ run.left \subseteq aged
      /\ UNCHANGED <<image, offsite, aged, command, target, named, commands, faults>>
  BY <1>t DEF Backups!Prunes, StageInv
<1>1. n \in run.left /\ n \in Backups!Names /\ n \in aged /\ n \in 1 .. named /\ n # run.name
  <2>1. run.left \subseteq 1 .. named /\ 1 .. named \subseteq Backups!Names /\ named \in Nat
    BY <1>t, <1>0 DEF FilesInv, Sorts
  <2>2. run.left \subseteq Nat /\ IsFiniteSet(run.left)
    BY <2>1, FS_Interval, FS_Subset
  <2>3. Backups!Min(run.left) \in run.left
    BY <1>0, <2>2, FirstOf DEF Backups!Min
  <2> QED
    BY <1>t, <1>0, <1>n, <2>1, <2>3 DEF NamesInv
<1>2. \/ UNCHANGED dir /\ run' = [pc |-> "pruning", name |-> run.name, left |-> run.left \ {n}, seen |-> run.seen]
      \/ present # {} /\ UNCHANGED run
         /\ dir' = [dir EXCEPT ![n] = [@ EXCEPT ![Backups!Parts[Backups!Min(present)]] = None]]
  BY <1>t, <1>n, <1>0 DEF Backups!Prunes, Sorts
<1>3. /\ dir' \in [Backups!Names -> Files] /\ \A m \in Backups!Names : m # n => dir'[m] = dir[m]
      /\ UNCHANGED dir \/ dir'[n].archive = None
      /\ dir'[n].uploads \in {dir[n].uploads, None} /\ dir'[n].manifest \in {dir[n].manifest, None}
  <2>1. CASE UNCHANGED dir
    BY <1>t, <2>1 DEF FilesInv
  <2>2. CASE present # {} /\ dir' = [dir EXCEPT ![n] = [@ EXCEPT ![Backups!Parts[Backups!Min(present)]] = None]]
    <3> DEFINE p == Backups!Parts[Backups!Min(present)]
               f == [dir[n] EXCEPT ![p] = None]
    <3>1. dir[n] \in Files
      BY <1>t, <1>1 DEF Sorts
    <3>2. \/ p = "archive"
          \/ p = "uploads" /\ dir[n].archive = None
          \/ p = "manifest" /\ dir[n].archive = None
      <4>1. present \in SUBSET (DOMAIN Backups!Parts)
        OBVIOUS
      <4>2. 1 \in DOMAIN Backups!Parts /\ Backups!Parts[1] = "archive"
        BY DEF Backups!Parts
      <4>3. 1 \in present \/ dir[n].archive = None
        BY <4>2 DEF Backups!Has
      <4> HIDE DEF present
      <4> QED
        BY <2>2, <4>1, <4>3, EarlyPart
    <3> HIDE DEF p
    <3>3. f \in Files /\ f.archive = None /\ f.uploads \in {dir[n].uploads, None}
          /\ f.manifest \in {dir[n].manifest, None}
      BY <3>1, <3>2 DEF Files
    <3>4. dir' = [dir EXCEPT ![n] = f]
      BY <2>2 DEF p
    <3> HIDE DEF f
    <3> QED
      BY <1>t, <1>1, <3>3, <3>4, Wrote
  <2> QED
    BY <1>2, <2>1, <2>2
<1>4. /\ run'.pc = "pruning" /\ run'.name = run.name /\ run'.seen = run.seen /\ run'.left \subseteq aged
         /\ run' \in RunType
  BY <1>t, <1>0, <1>2 DEF FilesInv, RunType
<1>5. FilesInv'
  BY <1>t, <1>0, <1>3, <1>4 DEF FilesInv
<1>6. NamesInv' /\ StageInv'
  <2>1. Backups!Complete(run.name)'
    <3>1. Backups!Complete(run.name) /\ run.name \in Backups!Names
      BY <1>t, <1>0 DEF StageInv, NamesInv, Sorts
    <3>2. dir'[run'.name] = dir[run.name]
      BY <1>1, <1>3, <1>4, <3>1
    <3> QED
      BY <3>1, <3>2 DEF Backups!Complete, Backups!Coordinated, Backups!Has
  <2>2. command.pc = "dumping" => dir'[command.name].manifest = None /\ dir'[command.name].uploads = None
    BY <1>t, <1>3 DEF StageInv, NamesInv, Commanded, Sorts
  <2>3. ASSUME NEW m \in Backups!Names, m > named PROVE dir'[m] = Backups!NoFiles /\ offsite'[m] = {}
    <3>1. m # n
      BY <1>t, <1>1, <2>3 DEF FilesInv, Backups!Names
    <3> QED
      BY <1>t, <1>0, <1>3, <2>3, <3>1 DEF NamesInv
  <2>4. NamesInv'
    BY <1>t, <1>0, <1>4, <2>3 DEF NamesInv, Writing, Commanded
  <2>5. StageInv'
    BY <1>t, <1>0, <1>4, <2>1, <2>2 DEF StageInv, Writing
  <2> QED
    BY <2>4, <2>5
<1>7. Backups!ManifestMeansComplete' /\ Backups!RestoredTogether'
  <2>1. (dir[n].archive # None /\ dir[n].manifest # None => Backups!Complete(n))'
    <3>1. CASE UNCHANGED dir
      BY <1>t, <1>1, <3>1 DEF Backups!ManifestMeansComplete, Backups!Complete, Backups!Coordinated, Backups!Has
    <3>2. CASE dir'[n].archive = None
      BY <3>2
    <3> QED
      BY <1>3, <3>1, <3>2
  <2>2. Backups!ManifestMeansComplete'
    BY <1>t, <1>0, <1>1, <1>3, <2>1, ManifestKept
  <2> QED
    BY <1>t, <1>0, <2>2 DEF Backups!RestoredTogether
<1>8. ImagesInv'
  <2>1. ASSUME NEW m \in Backups!Names, dir'[m].archive # None PROVE dir'[m] = dir[m]
    BY <1>3, <2>1
  <2>2. command.pc = "unpacking" => command.name \in Backups!Names
    BY <1>t DEF NamesInv, Commanded, Sorts
  <2>3. \A m \in Backups!Names : dir'[m].uploads # None => dir'[m].uploads = dir[m].uploads
    BY <1>3
  <2> QED
    BY <1>t, <1>0, <1>4, <2>1, <2>2, <2>3 DEF ImagesInv, Stored, StillShown
<1> QED
  BY <1>5, <1>6, <1>7, <1>8 DEF BackupInv

-----------------------------------------------------------------------------
(* The operator's commands. *)

LEMMA BeginRestoreKept == BackupInv /\ Backups!BeginRestore => BackupInv'
<1> SUFFICES ASSUME BackupInv, Backups!BeginRestore PROVE BackupInv'
  OBVIOUS
<1>t. FilesInv /\ NamesInv /\ StageInv /\ Backups!ManifestMeansComplete /\ ImagesInv /\ Backups!RestoredTogether /\ Sorts
  BY Sorted DEF BackupInv
<1>0. PICK n \in Backups!Names, files, drop \in BOOLEAN :
         /\ Backups!Has(n, "archive") /\ (files => Backups!Coordinated(n))
         /\ command' = [pc |-> "restoring", kind |-> "restore", name |-> n, files |-> files, drop |-> drop,
                        left |-> {}, seen |-> {}]
  BY DEF Backups!BeginRestore, Backups!Waiting
<1>1. UNCHANGED <<image, dir, offsite, aged, run, target, named, faults>> /\ commands' \in 0 .. MaxCommands
  BY <1>t, FilesBounds DEF Backups!BeginRestore, Backups!Command, FilesInv
<1>2. n \in 1 .. named
  <2>1. dir[n] # Backups!NoFiles /\ n \in Nat /\ n >= 1 /\ named \in Nat
    BY <1>t, <1>0, FilesBounds DEF Backups!Has, Backups!NoFiles, Backups!Names, FilesInv
  <2> QED
    BY <1>t, <2>1 DEF NamesInv
<1>3. FilesInv'
  <2>1. command' \in CommandType
    BY <1>0, FilesBounds DEF CommandType, Backups!Names
  <2> QED
    BY <1>t, <1>1, <2>1 DEF FilesInv
<1>4. files /\ Writing => n # run.name
  BY <1>t, <1>0 DEF Backups!Coordinated, Backups!Has, StageInv
<1>5. NamesInv' /\ StageInv'
  <2>1. Backups!Complete(run.name) => Backups!Complete(run.name)'
    BY <1>1 DEF Backups!Complete, Backups!Coordinated, Backups!Has
  <2> QED
    BY <1>t, <1>0, <1>1, <1>2, <1>4, <2>1 DEF NamesInv, StageInv, Writing, Commanded
<1>6. Backups!ManifestMeansComplete' /\ Backups!RestoredTogether'
  BY <1>t, <1>0, <1>1 DEF Backups!ManifestMeansComplete, Backups!RestoredTogether, Backups!Complete,
     Backups!Coordinated, Backups!Has
<1>7. ImagesInv'
  BY <1>t, <1>0, <1>1 DEF ImagesInv, Stored, StillShown
<1> QED
  BY <1>3, <1>5, <1>6, <1>7 DEF BackupInv

LEMMA RestoresKept == BackupInv /\ Backups!Restores => BackupInv'
<1> SUFFICES ASSUME BackupInv, Backups!Restores PROVE BackupInv'
  OBVIOUS
<1>t. FilesInv /\ NamesInv /\ StageInv /\ Backups!ManifestMeansComplete /\ ImagesInv /\ Backups!RestoredTogether /\ Sorts
  BY Sorted DEF BackupInv
<1>n. PICK n : n = command.name
  OBVIOUS
<1>0. /\ command.pc = "restoring" /\ dir[n].archive # None
      /\ target' = Backups!Loaded(dir[n].archive.images, dir[n].archive.sessions)
      /\ UNCHANGED <<image, dir, offsite, aged, run, named, commands, faults>>
  BY <1>n DEF Backups!Restores, Backups!Has
<1>1. n \in Backups!Names /\ n \in 1 .. named
  BY <1>t, <1>n, <1>0 DEF NamesInv, Commanded, Sorts
<1>2. command' = [pc |-> IF command.files THEN "unpacking" ELSE "done", kind |-> command.kind,
                  name |-> IF command.files THEN n ELSE 0, files |-> command.files, drop |-> command.drop,
                  left |-> IF command.files THEN command.left ELSE {}, seen |-> IF command.files THEN command.seen ELSE {}]
  <2>1. command \in CommandType
    BY <1>t DEF FilesInv
  <2> QED
    BY <1>n, <2>1 DEF Backups!Restores, Backups!Ended, Backups!Waiting, CommandType
<1>3. /\ target'.images \in SUBSET Images /\ target'.images \subseteq dir[n].archive.images \cup target.images
      /\ (command.drop => target'.images = dir[n].archive.images)
      /\ target' \in [images : SUBSET Images, sessions : BOOLEAN, files : SUBSET Images]
  <2>1. dir[n].archive.images \in SUBSET Images /\ dir[n].archive.sessions \in BOOLEAN
    BY <1>t, <1>0, <1>1 DEF Sorts, Backups!Dump
  <2>2. target \in [images : SUBSET Images, sessions : BOOLEAN, files : SUBSET Images]
    BY <1>t DEF FilesInv
  <2> QED
    BY <1>0, <2>1, <2>2 DEF Backups!Loaded
<1>4. FilesInv'
  <2>1. command' \in CommandType
    <3>1. command \in CommandType
      BY <1>t DEF FilesInv
    <3> QED
      BY <1>2, <1>n, <3>1, FilesBounds DEF CommandType
  <2> QED
    BY <1>t, <1>0, <1>3, <2>1 DEF FilesInv
<1>5. NamesInv' /\ StageInv'
  <2>1. Backups!Complete(run.name) => Backups!Complete(run.name)'
    BY <1>0 DEF Backups!Complete, Backups!Coordinated, Backups!Has
  <2> QED
    BY <1>t, <1>n, <1>0, <1>1, <1>2, <2>1 DEF NamesInv, StageInv, Writing, Commanded
<1>6. Backups!ManifestMeansComplete' /\ Backups!RestoredTogether'
  BY <1>t, <1>0, <1>2 DEF Backups!ManifestMeansComplete, Backups!RestoredTogether, Backups!Complete,
     Backups!Coordinated, Backups!Has
<1>7. ImagesInv'
  <2>1. Stored(target'.images)
    BY <1>t, <1>0, <1>1, <1>3 DEF ImagesInv, Stored
  <2>2. command.drop /\ dir[n].uploads # None => StillShown(target'.images, dir[n].uploads)
    BY <1>t, <1>0, <1>1, <1>3 DEF ImagesInv
  <2> QED
    BY <1>t, <1>0, <1>2, <2>1, <2>2 DEF ImagesInv, Stored, StillShown
<1> QED
  BY <1>4, <1>5, <1>6, <1>7 DEF BackupInv

\* A command that ends, done or failed.
LEMMA EndsKept ==
    ASSUME BackupInv, UNCHANGED <<image, dir, offsite, aged, run, named, commands>>, faults' \in 0 .. MaxFaults,
           NEW outcome \in {"done", "failed"}, command' = Backups!Ended(outcome),
           target' \in [images : SUBSET Images, sessions : BOOLEAN, files : SUBSET Images], Stored(target'.images),
           outcome = "done" /\ command.files /\ command.drop => StillShown(target'.images, target'.files)
    PROVE  BackupInv'
<1>t. FilesInv /\ NamesInv /\ StageInv /\ Backups!ManifestMeansComplete /\ ImagesInv
  BY DEF BackupInv
<1>1. command' = [pc |-> outcome, kind |-> command.kind, name |-> 0, files |-> command.files, drop |-> command.drop,
                  left |-> {}, seen |-> {}]
  BY DEF Backups!Ended, Backups!Waiting
<1>2. FilesInv'
  <2>1. command' \in CommandType
    BY <1>t, <1>1, FilesBounds DEF FilesInv, CommandType
  <2> QED
    BY <1>t, <2>1 DEF FilesInv
<1>3. NamesInv' /\ StageInv'
  <2>1. Backups!Complete(run.name) => Backups!Complete(run.name)'
    BY DEF Backups!Complete, Backups!Coordinated, Backups!Has
  <2> QED
    BY <1>t, <1>1, <2>1 DEF NamesInv, StageInv, Writing, Commanded
<1>4. Backups!ManifestMeansComplete' /\ Backups!RestoredTogether'
  BY <1>t, <1>1 DEF Backups!ManifestMeansComplete, Backups!RestoredTogether, Backups!Complete, Backups!Coordinated,
     Backups!Has, StillShown
<1>5. ImagesInv'
  BY <1>t, <1>1 DEF ImagesInv, Stored, StillShown
<1> QED
  BY <1>2, <1>3, <1>4, <1>5 DEF BackupInv

LEMMA UnpacksKept == BackupInv /\ (Backups!Unpacks \/ Backups!RestoreFails) => BackupInv'
<1> SUFFICES ASSUME BackupInv, Backups!Unpacks \/ Backups!RestoreFails PROVE BackupInv'
  OBVIOUS
<1>t. FilesInv /\ NamesInv /\ StageInv /\ Backups!ManifestMeansComplete /\ ImagesInv /\ Backups!RestoredTogether /\ Sorts
      /\ target \in [images : SUBSET Images, sessions : BOOLEAN, files : SUBSET Images]
  BY Sorted DEF BackupInv, FilesInv
<1>1. CASE Backups!Unpacks
  <2>n. PICK n : n = command.name
    OBVIOUS
  <2>0. /\ command.pc = "unpacking" /\ dir[n].uploads # None /\ command' = Backups!Ended("done")
        /\ target' = [target EXCEPT !.files = @ \cup dir[n].uploads]
        /\ UNCHANGED <<image, dir, offsite, aged, run, named, commands, faults>>
    BY <1>1, <2>n DEF Backups!Unpacks, Backups!Has
  <2>1. n \in Backups!Names
    BY <1>t, <2>n, <2>0 DEF NamesInv, Commanded, Sorts
  <2>2. /\ target' \in [images : SUBSET Images, sessions : BOOLEAN, files : SUBSET Images]
        /\ target'.images = target.images /\ dir[n].uploads \subseteq target'.files
    BY <1>t, <2>0, <2>1 DEF Sorts
  <2>3. Stored(target.images) /\ (command.drop => StillShown(target.images, dir[n].uploads))
    BY <1>t, <2>n, <2>0 DEF ImagesInv
  <2>4. command.drop => StillShown(target'.images, target'.files)
    BY <2>2, <2>3 DEF StillShown
  <2> QED
    BY <1>t, <2>0, <2>2, <2>3, <2>4, EndsKept DEF FilesInv
<1>2. CASE Backups!RestoreFails
  <2>1. command' = Backups!Ended("failed")
        /\ UNCHANGED <<image, dir, offsite, aged, run, target, named, commands, faults>>
    BY <1>2 DEF Backups!RestoreFails
  <2> QED
    BY <1>t, <2>1, EndsKept DEF FilesInv, ImagesInv
<1> QED
  BY <1>1, <1>2

LEMMA BeginMigrateKept == BackupInv /\ Backups!BeginMigrate => BackupInv'
<1> SUFFICES ASSUME BackupInv, Backups!BeginMigrate PROVE BackupInv'
  OBVIOUS
<1>t. FilesInv /\ NamesInv /\ StageInv /\ Backups!ManifestMeansComplete /\ ImagesInv /\ Backups!RestoredTogether /\ Sorts
  BY Sorted DEF BackupInv
<1>n. PICK n : n = named + 1
  OBVIOUS
<1> DEFINE a == [whole |-> FALSE, images |-> {}, sessions |-> FALSE]
           f == [archive |-> a, uploads |-> None, manifest |-> None]
<1>0. PICK drop \in BOOLEAN :
         command' = [pc |-> "dumping", kind |-> "migrate", name |-> n, files |-> FALSE, drop |-> drop,
                     left |-> Images, seen |-> {}]
  BY <1>n DEF Backups!BeginMigrate, Backups!Reading, Backups!Waiting
<1>1. /\ UNCHANGED <<image, offsite, aged, run, target, faults>>
      /\ commands' \in 0 .. MaxCommands /\ named' = n /\ named < MaxNames /\ ~Commanded
  BY <1>t, <1>n, FilesBounds DEF Backups!BeginMigrate, Backups!Command, FilesInv, Backups!NoCommand, Commanded
<1>2. n \in Backups!Names /\ n \in 0 .. MaxNames /\ n > named /\ named \in Nat /\ n \in 1 .. n
      /\ 1 .. named \subseteq 1 .. n
  BY <1>t, <1>n, <1>1, FilesBounds DEF FilesInv, Backups!Names
<1>3. dir[n] = Backups!NoFiles
  BY <1>t, <1>2 DEF NamesInv
<1>4. f \in Files
  BY FilesBounds DEF Files, Backups!Dump
<1>5. dir' \in [Backups!Names -> Files] /\ dir'[n] = f /\ \A m \in Backups!Names : m # n => dir'[m] = dir[m]
  <2>1. [dir[n] EXCEPT !.archive = a] = f
    <3> HIDE DEF a
    <3> QED
      BY <1>3 DEF Backups!NoFiles
  <2>2. dir' = [dir EXCEPT ![n] = f]
    BY <1>t, <1>n, <1>2, <2>1 DEF Backups!BeginMigrate, FilesInv
  <2> QED
    BY <1>t, <1>2, <1>4, <2>2, Wrote
<1>6. FilesInv'
  <2>1. command' \in CommandType
    BY <1>0, <1>2 DEF CommandType
  <2>2. aged \subseteq 1 .. n
    BY <1>t, <1>2 DEF FilesInv
  <2> QED
    BY <1>t, <1>1, <1>2, <1>5, <2>1, <2>2 DEF FilesInv
<1>7. NamesInv'
  BY <1>t, <1>0, <1>1, <1>2, <1>5 DEF NamesInv, Writing, Commanded, Backups!Names
<1>8. run.pc # "idle" => run.name \in Backups!Names /\ run.name # n /\ dir'[run.name] = dir[run.name]
  BY <1>t, <1>2, <1>5 DEF NamesInv, Sorts
<1>9. StageInv'
  <2>1. run.pc # "idle" /\ Backups!Complete(run.name) => Backups!Complete(run.name)'
    BY <1>1, <1>8 DEF Backups!Complete, Backups!Coordinated, Backups!Has
  <2>2. dir'[n].uploads = None /\ dir'[n].manifest = None
    BY <1>5
  <2> QED
    BY <1>t, <1>0, <1>1, <1>8, <2>1, <2>2 DEF StageInv, Writing
<1>10. Backups!ManifestMeansComplete' /\ Backups!RestoredTogether'
  <2>1. dir'[n].manifest = None
    BY <1>5
  <2>2. Backups!ManifestMeansComplete'
    BY <1>t, <1>1, <1>2, <1>5, <2>1, ManifestKept
  <2> QED
    BY <1>0, <1>1, <2>2 DEF Backups!RestoredTogether
<1>11. ImagesInv'
  <2>1. dir'[n].archive.images = {} /\ dir'[n].uploads = None
    BY <1>5
  <2>2. ASSUME NEW m \in Backups!Names, dir'[m].archive # None
        PROVE  /\ Stored(dir'[m].archive.images)
               /\ dir'[m].uploads # None => StillShown(dir'[m].archive.images, dir'[m].uploads)
    <3>1. CASE m = n
      BY <2>1, <3>1 DEF Stored
    <3>2. CASE m # n
      BY <1>t, <1>5, <2>2, <3>2 DEF ImagesInv
    <3> QED
      BY <3>1, <3>2
  <2>3. run.pc = "packing" => StillShown(dir'[run.name].archive.images \ run.left, run.seen)
    BY <1>t, <1>8 DEF ImagesInv
  <2> QED
    BY <1>t, <1>0, <1>1, <2>2, <2>3 DEF ImagesInv, Stored, StillShown
<1> QED
  BY <1>6, <1>7, <1>9, <1>10, <1>11 DEF BackupInv

LEMMA CommandReadsKept == BackupInv /\ Backups!CommandReads => BackupInv'
<1> SUFFICES ASSUME BackupInv, Backups!CommandReads PROVE BackupInv'
  OBVIOUS
<1>t. FilesInv /\ NamesInv /\ StageInv /\ Backups!ManifestMeansComplete /\ ImagesInv /\ Backups!RestoredTogether /\ Sorts
  BY Sorted DEF BackupInv
<1>0. PICK i \in command.left : command' = Backups!Read(command, i)
  BY DEF Backups!CommandReads
<1>1. /\ command.pc = "dumping" /\ i \in Images
      /\ UNCHANGED <<image, dir, offsite, aged, run, target, named, commands, faults>>
      /\ command' = [pc |-> "dumping", kind |-> command.kind, name |-> command.name, files |-> command.files,
                     drop |-> command.drop, left |-> command.left \ {i},
                     seen |-> IF Backups!InDatabase(i) THEN command.seen \cup {i} ELSE command.seen]
  <2>1. command.pc = "dumping" /\ i \in Images /\ command \in CommandType
        /\ UNCHANGED <<image, dir, offsite, aged, run, target, named, commands, faults>>
    BY <1>t DEF Backups!CommandReads, Sorts, FilesInv
  <2> QED
    BY <1>0, <2>1 DEF Backups!Read, Backups!Met, CommandType
<1>2. FilesInv'
  <2>1. command' \in CommandType
    BY <1>t, <1>1 DEF FilesInv, CommandType
  <2> QED
    BY <1>t, <1>1, <2>1 DEF FilesInv
<1>3. NamesInv' /\ StageInv'
  <2>1. Backups!Complete(run.name) => Backups!Complete(run.name)'
    BY <1>1 DEF Backups!Complete, Backups!Coordinated, Backups!Has
  <2> QED
    BY <1>t, <1>1, <2>1 DEF NamesInv, StageInv, Writing, Commanded
<1>4. Backups!ManifestMeansComplete' /\ Backups!RestoredTogether'
  BY <1>t, <1>1 DEF Backups!ManifestMeansComplete, Backups!RestoredTogether, Backups!Complete, Backups!Coordinated,
     Backups!Has
<1>5. ImagesInv'
  <2>1. Stored(command'.seen)
    BY <1>t, <1>1 DEF ImagesInv, Stored, Backups!InDatabase
  <2> QED
    BY <1>t, <1>1, <2>1 DEF ImagesInv, Stored, StillShown
<1> QED
  BY <1>2, <1>3, <1>4, <1>5 DEF BackupInv

LEMMA MigrationDumpedKept == BackupInv /\ Backups!MigrationDumped => BackupInv'
<1> SUFFICES ASSUME BackupInv, Backups!MigrationDumped PROVE BackupInv'
  OBVIOUS
<1>t. FilesInv /\ NamesInv /\ StageInv /\ Backups!ManifestMeansComplete /\ ImagesInv /\ Backups!RestoredTogether /\ Sorts
  BY Sorted DEF BackupInv
<1>n. PICK n : n = command.name
  OBVIOUS
<1> DEFINE a == [whole |-> TRUE, images |-> command.seen, sessions |-> TRUE]
           f == [archive |-> a, uploads |-> None, manifest |-> None]
<1>0. /\ command.pc = "dumping"
      /\ command' = [pc |-> "restoring", kind |-> command.kind, name |-> n, files |-> command.files,
                     drop |-> command.drop, left |-> command.left, seen |-> {}]
      /\ UNCHANGED <<image, offsite, aged, run, target, named, commands, faults>>
  BY <1>t, <1>n DEF Backups!MigrationDumped, FilesInv, CommandType
<1>1. n \in Backups!Names /\ n \in 1 .. named /\ dir[n].uploads = None /\ dir[n].manifest = None
      /\ (run.pc # "idle" => run.name \in Backups!Names /\ run.name # n)
  BY <1>t, <1>0, <1>n DEF NamesInv, StageInv, Sorts, Commanded
<1>2. a \in Backups!Dump /\ f \in Files
  <2>1. a \in Backups!Dump
    BY <1>t DEF Sorts, Backups!Dump
  <2> HIDE DEF a
  <2> QED
    BY <2>1 DEF Files
<1> HIDE DEF a
<1>3. dir' \in [Backups!Names -> Files] /\ dir'[n] = f /\ \A m \in Backups!Names : m # n => dir'[m] = dir[m]
  <2>1. [dir[n] EXCEPT !.archive = a] = f
    <3>1. dir[n] \in Files
      BY <1>t, <1>1 DEF Sorts
    <3> QED
      BY <1>1, <3>1 DEF Files
  <2>2. dir' = [dir EXCEPT ![n] = f]
    BY <1>t, <1>n, <1>1, <2>1 DEF Backups!MigrationDumped, FilesInv, a
  <2> QED
    BY <1>t, <1>1, <1>2, <2>2, Wrote
<1>4. FilesInv'
  <2>1. command' \in CommandType
    BY <1>t, <1>0, <1>n DEF FilesInv, CommandType
  <2> QED
    BY <1>t, <1>0, <1>3, <2>1 DEF FilesInv
<1>5. NamesInv'
  BY <1>t, <1>n, <1>0, <1>1, <1>3 DEF NamesInv, FilesInv, Backups!Names, Writing, Commanded
<1>6. StageInv'
  <2>1. run.pc # "idle" => dir'[run.name] = dir[run.name]
    BY <1>1, <1>3
  <2>2. run.pc # "idle" /\ Backups!Complete(run.name) => Backups!Complete(run.name)'
    BY <1>0, <2>1 DEF Backups!Complete, Backups!Coordinated, Backups!Has
  <2> QED
    BY <1>t, <1>0, <2>1, <2>2 DEF StageInv, Writing
<1>7. Backups!ManifestMeansComplete' /\ Backups!RestoredTogether'
  <2>1. dir'[n].manifest = None
    BY <1>3
  <2>2. Backups!ManifestMeansComplete'
    BY <1>t, <1>0, <1>1, <1>3, <2>1, ManifestKept
  <2> QED
    BY <1>0, <2>2 DEF Backups!RestoredTogether
<1>8. ImagesInv'
  <2>1. Stored(a.images)
    BY <1>t, <1>0 DEF ImagesInv, a
  <2>2. dir'[n].archive = a /\ dir'[n].uploads = None
    BY <1>3
  <2>3. ASSUME NEW m \in Backups!Names, dir'[m].archive # None
        PROVE  /\ Stored(dir'[m].archive.images)
               /\ dir'[m].uploads # None => StillShown(dir'[m].archive.images, dir'[m].uploads)
    BY <1>t, <1>3, <2>1, <2>2, <2>3 DEF ImagesInv
  <2>4. run.pc = "packing" => StillShown(dir'[run.name].archive.images \ run.left, run.seen)
    BY <1>t, <1>1, <1>3 DEF ImagesInv
  <2> QED
    BY <1>t, <1>0, <2>3, <2>4 DEF ImagesInv, Stored, StillShown
<1> QED
  BY <1>4, <1>5, <1>6, <1>7, <1>8 DEF BackupInv

LEMMA CommandKilledKept == BackupInv /\ Backups!CommandKilled => BackupInv'
<1> SUFFICES ASSUME BackupInv, Backups!CommandKilled PROVE BackupInv'
  OBVIOUS
<1> DEFINE Target == [images : SUBSET Images, sessions : BOOLEAN, files : SUBSET Images]
<1>t. FilesInv /\ NamesInv /\ ImagesInv /\ Sorts /\ target \in Target
  BY Sorted DEF BackupInv, FilesInv
<1>n. PICK n : n = command.name
  OBVIOUS
<1>0. /\ command' = Backups!Ended("failed") /\ faults' \in 0 .. MaxFaults
      /\ UNCHANGED <<image, dir, offsite, aged, run, named, commands>>
  BY <1>t, FilesBounds DEF Backups!CommandKilled, Backups!Fault, FilesInv
<1>1. command.pc \in {"restoring", "unpacking"} => n \in Backups!Names
  BY <1>t, <1>n DEF NamesInv, Commanded, Sorts
<1>2. target' \in Target /\ Stored(target'.images)
  <2>0. Stored(target.images)
    BY <1>t DEF ImagesInv
  <2>1. ASSUME command.pc = "restoring", dir[n].archive # None, NEW got \in SUBSET dir[n].archive.images,
               NEW sessions \in {FALSE, dir[n].archive.sessions}, target' = Backups!Loaded(got, sessions)
        PROVE  target' \in Target /\ Stored(target'.images)
    <3>1. got \in SUBSET Images /\ sessions \in BOOLEAN /\ Stored(got)
      BY <1>t, <1>1, <2>1 DEF ImagesInv, Stored, Sorts, Backups!Dump
    <3> QED
      BY <1>t, <2>0, <2>1, <3>1 DEF Backups!Loaded, Stored
  <2>2. ASSUME command.pc = "unpacking", dir[n].uploads # None, NEW got \in SUBSET dir[n].uploads,
               target' = [target EXCEPT !.files = @ \cup got]
        PROVE  target' \in Target /\ Stored(target'.images)
    <3>1. got \in SUBSET Images
      BY <1>t, <1>1, <2>2 DEF Sorts
    <3> QED
      BY <1>t, <2>0, <2>2, <3>1
  <2> QED
    BY <1>t, <1>n, <2>0, <2>1, <2>2 DEF Backups!CommandKilled, Backups!Has
<1> QED
  BY <1>0, <1>2, EndsKept

-----------------------------------------------------------------------------
(* The theorems. *)

LEMMA BackupKept == BackupInv /\ [Backups!Next]_Backups!vars => BackupInv'
<1>1. BackupInv /\ Backups!Next => BackupInv'
  BY ApplicationKept, BeginBackupKept, ReadsKept, DumpedKept, PackedKept, SignedKept, BackupFailsKept, CopiesKept,
     PrunesKept, RestsKept, AgesKept, BeginRestoreKept, RestoresKept, UnpacksKept, BeginMigrateKept, CommandReadsKept,
     MigrationDumpedKept, CommandKilledKept DEF Backups!Next, Backups!Scheduler, Backups!Operator
<1>2. BackupInv /\ UNCHANGED Backups!vars => BackupInv'
  BY DEF Backups!vars, BackupInv, FilesInv, NamesInv, StageInv, Backups!ManifestMeansComplete, Backups!Complete,
     Backups!Coordinated, Backups!Has, ImagesInv, Backups!RestoredTogether, Writing, Commanded, Stored, StillShown
<1> QED
  BY <1>1, <1>2

LEMMA BackupTyped == BackupInv => Backups!TypeOK
<1>1. {Backups!Parts[k] : k \in DOMAIN Backups!Parts} = {"archive", "uploads", "manifest"}
  BY EarlyPart, 1 \in DOMAIN Backups!Parts DEF Backups!Parts
<1>2. FilesInv => \A n \in Backups!Names : /\ Backups!Has(n, "archive") => dir[n].archive \in Backups!Dump
                                           /\ Backups!Has(n, "uploads") => dir[n].uploads \in SUBSET Images
                                           /\ Backups!Has(n, "manifest") => dir[n].manifest \in Backups!Manifest
  BY Sorted DEF Sorts, Backups!Has
<1>3. FilesInv => aged \subseteq Backups!Names
  BY Sorted DEF Sorts, FilesInv
<1> QED
  BY <1>1, <1>2, <1>3, LifeIs DEF BackupInv, FilesInv, Backups!TypeOK, RunType, CommandType

LEMMA BackupSound == BackupInv => Backups!BackupsRestore
<1>1. BackupInv => Backups!ImagesComeWithMessages
  <2> SUFFICES ASSUME BackupInv, NEW n \in Backups!Names, Backups!Complete(n)
               PROVE  StillShown(dir[n].archive.images, dir[n].uploads)
    BY DEF Backups!ImagesComeWithMessages, StillShown
  <2> QED
    BY DEF BackupInv, ImagesInv, Backups!Complete, Backups!Coordinated, Backups!Has
<1> QED
  BY <1>1 DEF Backups!BackupsRestore, BackupInv

\* A step writes the files of an archive that has no manifest, or prunes, beside a complete backup.
LEMMA WritesApart ==
    ASSUME BackupInv, [Backups!Next]_Backups!vars
    PROVE  \/ \A m \in Backups!Names : dir[m].manifest # None => dir'[m] = dir[m]
           \/ run'.pc = "pruning"
<1>t. FilesInv /\ NamesInv /\ StageInv /\ Sorts
  BY Sorted DEF BackupInv
<1>1. CASE UNCHANGED dir
  BY <1>1
<1>2. CASE Backups!Prunes
  BY <1>2, <1>t DEF Backups!Prunes, Sorts
<1>3. CASE Backups!Dumped \/ Backups!Packed \/ Backups!Signed \/ Backups!BackupFails
  <2>1. dir[run.name].manifest = None /\ run.name \in Backups!Names
    BY <1>3, <1>t DEF Backups!Dumped, Backups!Packed, Backups!Signed, Backups!BackupFails, StageInv, NamesInv,
       Writing, Sorts
  <2>2. \A m \in Backups!Names : m # run.name => dir'[m] = dir[m]
    BY <1>3, <1>t, <2>1 DEF Backups!Dumped, Backups!Packed, Backups!Signed, Backups!BackupFails, FilesInv
  <2> QED
    BY <2>1, <2>2
<1>4. CASE Backups!BeginMigrate
  <2>1. named + 1 \in Backups!Names /\ named + 1 > named
    BY <1>4, <1>t, FilesBounds DEF Backups!BeginMigrate, FilesInv, Backups!Names
  <2>2. dir[named + 1].manifest = None
    BY <1>t, <2>1 DEF NamesInv, Backups!NoFiles
  <2>3. \A m \in Backups!Names : m # named + 1 => dir'[m] = dir[m]
    BY <1>4, <1>t, <2>1 DEF Backups!BeginMigrate, FilesInv
  <2> QED
    BY <2>2, <2>3
<1>5. CASE Backups!MigrationDumped
  <2>1. dir[command.name].manifest = None
    BY <1>5, <1>t DEF Backups!MigrationDumped, StageInv
  <2>2. \A m \in Backups!Names : m # command.name => dir'[m] = dir[m]
    BY <1>5, <1>t DEF Backups!MigrationDumped, FilesInv
  <2> QED
    BY <2>1, <2>2
<1>6. \/ Backups!Prunes \/ Backups!Dumped \/ Backups!Packed \/ Backups!Signed \/ Backups!BackupFails
         \/ Backups!BeginMigrate \/ Backups!MigrationDumped
      \/ UNCHANGED dir
  BY DEF Backups!Next, Backups!Application, Backups!Scheduler, Backups!Operator, Backups!vars, Backups!Lives,
     Backups!PostFails, Backups!BeginBackup, Backups!Reads, Backups!Copies, Backups!Sleeps, Backups!Killed,
     Backups!Ages, Backups!BeginRestore, Backups!Restores, Backups!Unpacks, Backups!RestoreFails,
     Backups!CommandReads, Backups!CommandKilled
<1> QED
  BY <1>1, <1>2, <1>3, <1>4, <1>5, <1>6

\* What is pruned is old, and the backup just made is not; a backup that fails takes only its own files with it.
LEMMA StaysRestorable ==
    BackupInv /\ [Backups!Next]_Backups!vars
        => ((\E n \in Backups!Names : Backups!Complete(n)) => (\E n \in Backups!Names : Backups!Complete(n))')
<1>1. BackupInv /\ [Backups!Next]_Backups!vars => ((\E n \in Backups!Names : Backups!Complete(n))
      => (\E n \in Backups!Names : Backups!Complete(n))')
  <2> SUFFICES ASSUME BackupInv, [Backups!Next]_Backups!vars, NEW n \in Backups!Names, Backups!Complete(n)
               PROVE  \E m \in Backups!Names : Backups!Complete(m)'
    OBVIOUS
  <2>1. BackupInv'
    BY BackupKept
  <2>2. CASE run'.pc = "pruning"
    <3>1. PICK m : m = run'.name
      OBVIOUS
    <3>2. m \in Backups!Names /\ Backups!Complete(m)'
      <4>1. Backups!Complete(run.name)' /\ run'.name \in 1 .. named'
        BY <2>1, <2>2 DEF BackupInv, StageInv, NamesInv
      <4>2. 1 .. named' \subseteq Backups!Names
        BY <2>1, FilesBounds DEF BackupInv, FilesInv, Backups!Names
      <4> QED
        BY <3>1, <4>1, <4>2
    <3> QED
      BY <3>2
  <2>3. CASE \A m \in Backups!Names : dir[m].manifest # None => dir'[m] = dir[m]
    <3>1. dir'[n] = dir[n]
      BY <2>3 DEF Backups!Complete, Backups!Coordinated, Backups!Has
    <3>2. Backups!Complete(n)'
      BY <3>1 DEF Backups!Complete, Backups!Coordinated, Backups!Has
    <3> QED
      BY <3>2
  <2> QED
    BY <2>2, <2>3, WritesApart
<1> QED
  BY <1>1

-----------------------------------------------------------------------------
(* The lists: sequences without what is filtered. *)

LEMMA CountedAlike == \A S : Lists!Cardinality(S) = Cardinality(S)
  BY DEF Cardinality, Lists!Cardinality, IsFiniteSet, Lists!IsFiniteSet

LEMMA FiniteAlike == \A S : Lists!IsFiniteSet(S) <=> IsFiniteSet(S)
  BY DEF Lists!IsFiniteSet, IsFiniteSet

\* Nth is the place with that number.
LEMMA Places ==
    ASSUME NEW I \in SUBSET Int, IsFiniteSet(I)
    PROVE  /\ \A k \in 1..Cardinality(I) : Lists!Nth(I, k) \in I
           /\ \A k, l \in 1..Cardinality(I) : k < l => Lists!Nth(I, k) < Lists!Nth(I, l)
           /\ \A i \in I : \E k \in 1..Cardinality(I) : Lists!Nth(I, k) = i
<1>1. ASSUME NEW k \in 1..Cardinality(I) PROVE Lists!Nth(I, k) \in I /\ Rank(I, Lists!Nth(I, k)) = k
  <2>1. Lists!Nth(I, k) = CHOOSE i \in I : Rank(I, i) = k
    BY CountedAlike DEF Lists!Nth, Rank
  <2>2. \E i \in I : Rank(I, i) = k
    BY Ranks
  <2> QED
    BY <2>1, <2>2
<1>2. ASSUME NEW i \in I, NEW j \in I PROVE i \in Int /\ j \in Int /\ (Rank(I, i) = Rank(I, j) => i = j)
  <2>1. i < j \/ i = j \/ j < i
    OBVIOUS
  <2>2. Rank(I, i) \in Int /\ Rank(I, j) \in Int
    BY Ranks
  <2> QED
    BY <2>1, <2>2, Ranks
<1>3. ASSUME NEW k \in 1..Cardinality(I), NEW l \in 1..Cardinality(I), k < l
      PROVE  Lists!Nth(I, k) < Lists!Nth(I, l)
  <2> DEFINE i == Lists!Nth(I, k)
             j == Lists!Nth(I, l)
  <2>1. i \in I /\ j \in I /\ Rank(I, i) = k /\ Rank(I, j) = l
    BY <1>1
  <2> HIDE DEF i, j
  <2>2. i \in Int /\ j \in Int /\ k \in Int /\ l \in Int
    BY <2>1, <1>2, Ranks
  <2>3. ~(j < i)
    BY <1>3, <2>1, <2>2, Ranks
  <2>4. i # j
    BY <1>3, <2>1, <2>2
  <2>5. i < j
    BY <2>2, <2>3, <2>4
  <2> QED
    BY <2>5 DEF i, j
<1>4. ASSUME NEW i \in I PROVE \E k \in 1..Cardinality(I) : Lists!Nth(I, k) = i
  <2>1. Rank(I, i) \in 1..Cardinality(I)
    BY Ranks
  <2>2. Lists!Nth(I, Rank(I, i)) = i
    BY <1>1, <1>2, <2>1
  <2> QED
    BY <2>1, <2>2
<1> QED
  BY <1>1, <1>3, <1>4

\* w tells from which places of a list the elements of f are.
Threads(w, f, list, I) ==
    /\ w \in [DOMAIN f -> I]
    /\ \A k \in DOMAIN f : f[k] = list[w[k]]
    /\ \A k, l \in DOMAIN f : k < l => w[k] < w[l]
    /\ \A i \in I : \E k \in DOMAIN f : w[k] = i

LEMMA Threaded ==
    ASSUME NEW X, NEW list \in Seq(X), NEW I \in SUBSET DOMAIN list
    PROVE  /\ Lists!Filtered(list, I) \in Seq(X)
           /\ \E w : Threads(w, Lists!Filtered(list, I), list, I)
<1> DEFINE n == Cardinality(I)
           f == Lists!Filtered(list, I)
           w == [k \in 1..n |-> Lists!Nth(I, k)]
<1>1. I \in SUBSET Int /\ IsFiniteSet(I)
  <2>1. DOMAIN list = 1..Len(list) /\ Len(list) \in Nat
    OBVIOUS
  <2>2. IsFiniteSet(1..Len(list))
    BY <2>1, FS_Interval
  <2>3. IsFiniteSet(I)
    BY <2>1, <2>2, FS_Subset
  <2> QED
    BY <2>1, <2>3
<1>2. n \in Nat /\ w \in [1..n -> I]
  BY <1>1, Ranks, Places
<1>3. f = [k \in 1..n |-> list[w[k]]]
  <2>1. f = [k \in 1..n |-> list[Lists!Nth(I, k)]]
    BY CountedAlike DEF Lists!Filtered
  <2> QED
    BY <2>1
<1>4. \A k \in 1..n : w[k] = Lists!Nth(I, k)
  OBVIOUS
<1> HIDE DEF n, f, w
<1>5. \A k \in 1..n : w[k] \in DOMAIN list /\ list[w[k]] \in X
  BY <1>2
<1>6. f \in Seq(X) /\ DOMAIN f = 1..n
  BY <1>2, <1>3, <1>5
<1>7. Threads(w, f, list, I)
  BY <1>1, <1>2, <1>3, <1>4, <1>6, Places DEF Threads, n
<1> QED
  BY <1>6, <1>7 DEF f

\* No element twice.
Distinct(s) == \A i, j \in DOMAIN s : s[i] = s[j] => i = j

\* What is filtered has the elements at the places, in their order; neighbours stay neighbours.
LEMMA ThreadKeeps ==
    ASSUME NEW X, NEW list \in Seq(X), NEW I \in SUBSET DOMAIN list, NEW f \in Seq(X), NEW w, Threads(w, f, list, I)
    PROVE  /\ \A x : x \in Lists!ToSet(f) <=> \E i \in I : list[i] = x
           /\ (\A i, j \in I : list[i] = list[j] => i = j) => Distinct(f)
           /\ \A i, j \in I : i < j => Lists!Before(f, list[i], list[j])
           /\ \A i, j \in I : j = i + 1 => Lists!Beside(f, list[i], list[j])
<1>1. /\ DOMAIN f = 1..Len(f) /\ Len(f) \in Nat
      /\ \A k \in DOMAIN f : k \in Int /\ w[k] \in I /\ w[k] \in Int /\ f[k] = list[w[k]]
      /\ \A k, l \in DOMAIN f : k < l => w[k] < w[l]
      /\ \A i \in I : i \in Int /\ \E k \in DOMAIN f : w[k] = i
  BY DEF Threads
<1>2. \A x : x \in Lists!ToSet(f) <=> \E i \in I : list[i] = x
  BY <1>1 DEF Lists!ToSet
<1>3. ASSUME \A i, j \in I : list[i] = list[j] => i = j
      PROVE  Distinct(f)
  <2> SUFFICES ASSUME NEW k \in DOMAIN f, NEW l \in DOMAIN f, f[k] = f[l]
               PROVE  k = l
    BY DEF Distinct
  <2>1. w[k] = w[l]
    BY <1>1, <1>3
  <2>2. ~(k < l) /\ ~(l < k)
    BY <1>1, <2>1
  <2> QED
    BY <1>1, <2>2
<1>4. ASSUME NEW i \in I, NEW j \in I, i < j
      PROVE  \E k, l \in DOMAIN f : k < l /\ w[k] = i /\ w[l] = j
  <2>1. PICK k \in DOMAIN f : w[k] = i
    BY <1>1
  <2>2. PICK l \in DOMAIN f : w[l] = j
    BY <1>1
  <2>3. ~(l < k) /\ k # l
    BY <1>1, <1>4, <2>1, <2>2
  <2>4. k < l
    BY <1>1, <2>3
  <2> QED
    BY <2>1, <2>2, <2>4
<1>5. ASSUME NEW i \in I, NEW j \in I, i < j PROVE Lists!Before(f, list[i], list[j])
  <2>1. PICK k \in DOMAIN f, l \in DOMAIN f : k < l /\ w[k] = i /\ w[l] = j
    BY <1>4, <1>5
  <2>2. f[k] = list[i] /\ f[l] = list[j]
    BY <1>1, <2>1
  <2> QED
    BY <2>1, <2>2 DEF Lists!Before
<1>6. ASSUME NEW i \in I, NEW j \in I, j = i + 1 PROVE Lists!Beside(f, list[i], list[j])
  <2>1. i \in Int /\ i < j
    BY <1>1, <1>6
  <2>2. PICK k \in DOMAIN f, l \in DOMAIN f : k < l /\ w[k] = i /\ w[l] = j
    BY <1>4, <2>1
  <2>3. l = k + 1
    <3>1. CASE k + 1 < l
      <4>1. k + 1 \in DOMAIN f /\ k < k + 1
        BY <1>1, <3>1
      <4>2. w[k] < w[k + 1] /\ w[k + 1] < w[l] /\ w[k + 1] \in Int
        BY <1>1, <3>1, <4>1
      <4> QED
        BY <1>6, <2>1, <2>2, <4>2
    <3> QED
      BY <1>1, <2>2, <3>1
  <2>4. k \in 1..(Len(f) - 1) /\ f[k] = list[i] /\ f[k + 1] = list[j]
    BY <1>1, <2>2, <2>3
  <2> QED
    BY <2>4 DEF Lists!Beside
<1> QED
  BY <1>2, <1>3, <1>5, <1>6

\* What is left of a list when only some stay.
LEMMA OnlyKeeps ==
    ASSUME NEW X, NEW list \in Seq(X), NEW S
    PROVE  LET f == Lists!Only(list, S)
           IN  /\ f \in Seq(X)
               /\ Lists!ToSet(f) = Lists!ToSet(list) \cap S
               /\ Distinct(list) => Distinct(f)
               /\ \A a, b \in S : Lists!Before(list, a, b) => Lists!Before(f, a, b)
               /\ \A a, b \in S : Lists!Beside(list, a, b) => Lists!Beside(f, a, b)
<1> DEFINE I == {i \in DOMAIN list : list[i] \in S}
           f == Lists!Filtered(list, I)
<1>1. I \in SUBSET DOMAIN list /\ f = Lists!Only(list, S) /\ DOMAIN list = 1..Len(list) /\ Len(list) \in Nat
  BY DEF Lists!Only
<1>2. \A i \in DOMAIN list : i \in I <=> list[i] \in S
  OBVIOUS
<1> HIDE DEF I
<1>3. f \in Seq(X)
  BY <1>1, Threaded
<1>4. PICK w : Threads(w, f, list, I)
  BY <1>1, Threaded
<1> HIDE DEF f
<1>5. /\ \A x : x \in Lists!ToSet(f) <=> \E i \in I : list[i] = x
      /\ (\A i, j \in I : list[i] = list[j] => i = j) => Distinct(f)
      /\ \A i, j \in I : i < j => Lists!Before(f, list[i], list[j])
      /\ \A i, j \in I : j = i + 1 => Lists!Beside(f, list[i], list[j])
  <2>1. I \in SUBSET DOMAIN list
    BY <1>1
  <2> QED
    BY <2>1, <1>3, <1>4, ThreadKeeps
<1>6. Lists!ToSet(f) = Lists!ToSet(list) \cap S
  BY <1>1, <1>2, <1>5 DEF Lists!ToSet
<1>7. Distinct(list) => Distinct(f)
  BY <1>1, <1>5 DEF Distinct
<1>8. \A a, b \in S : Lists!Before(list, a, b) => Lists!Before(f, a, b)
  BY <1>2, <1>5 DEF Lists!Before
<1>9. ASSUME NEW a \in S, NEW b \in S, Lists!Beside(list, a, b) PROVE Lists!Beside(f, a, b)
  <2>1. PICK i \in 1..(Len(list) - 1) : list[i] = a /\ list[i + 1] = b
    BY <1>9 DEF Lists!Beside
  <2>2. i \in DOMAIN list /\ i + 1 \in DOMAIN list
    BY <1>1, <2>1
  <2>3. i \in I /\ i + 1 \in I
    BY <1>2, <2>1, <2>2
  <2> QED
    BY <1>5, <2>1, <2>3
<1> QED
  BY <1>1, <1>3, <1>6, <1>7, <1>8, <1>9

\* What holds of two lists one after the other.
LEMMA ConcatKeeps ==
    ASSUME NEW X, NEW s \in Seq(X), NEW t \in Seq(X)
    PROVE  /\ s \o t \in Seq(X)
           /\ Lists!ToSet(s \o t) = Lists!ToSet(s) \cup Lists!ToSet(t)
           /\ Distinct(s) /\ Distinct(t) /\ Lists!ToSet(s) \cap Lists!ToSet(t) = {} => Distinct(s \o t)
           /\ \A a, b : Lists!Before(s, a, b) \/ Lists!Before(t, a, b) => Lists!Before(s \o t, a, b)
           /\ \A a, b : Lists!Beside(s, a, b) \/ Lists!Beside(t, a, b) => Lists!Beside(s \o t, a, b)
<1> DEFINE u == s \o t
           m == Len(s)
           n == Len(t)
<1>1. /\ u \in Seq(X) /\ m \in Nat /\ n \in Nat /\ Len(u) = m + n
      /\ DOMAIN s = 1..m /\ DOMAIN t = 1..n /\ DOMAIN u = 1..(m + n)
  OBVIOUS
<1>2. \A i \in 1..m : i \in DOMAIN u /\ u[i] = s[i]
  OBVIOUS
<1>3. \A i \in 1..n : m + i \in DOMAIN u /\ u[m + i] = t[i]
  OBVIOUS
<1> HIDE DEF u, m, n
<1>4. ASSUME NEW i \in DOMAIN u
      PROVE  i \in 1..m \/ \E k \in 1..n : i = m + k
  <2>1. CASE i <= m
    BY <1>1, <2>1
  <2>2. CASE ~(i <= m)
    <3>1. i - m \in 1..n /\ i = m + (i - m)
      BY <1>1, <2>2
    <3> QED
      BY <3>1
  <2> QED
    BY <2>1, <2>2
<1>5. Lists!ToSet(u) = Lists!ToSet(s) \cup Lists!ToSet(t)
  <2>1. ASSUME NEW i \in DOMAIN u PROVE u[i] \in Lists!ToSet(s) \cup Lists!ToSet(t)
    BY <1>1, <1>2, <1>3, <1>4 DEF Lists!ToSet
  <2>2. \A i \in DOMAIN s : s[i] \in Lists!ToSet(u)
    BY <1>1, <1>2 DEF Lists!ToSet
  <2>3. \A i \in DOMAIN t : t[i] \in Lists!ToSet(u)
    BY <1>1, <1>3 DEF Lists!ToSet
  <2> QED
    BY <2>1, <2>2, <2>3 DEF Lists!ToSet
<1>6. ASSUME Distinct(s), Distinct(t), Lists!ToSet(s) \cap Lists!ToSet(t) = {}
      PROVE  Distinct(u)
  <2> SUFFICES ASSUME NEW i \in DOMAIN u, NEW j \in DOMAIN u, u[i] = u[j]
               PROVE  i = j
    BY DEF Distinct
  <2>1. \A k \in 1..m, l \in 1..n : s[k] # t[l]
    BY <1>1, <1>6 DEF Lists!ToSet
  <2>2. CASE i \in 1..m /\ j \in 1..m
    BY <1>1, <1>2, <1>6, <2>2 DEF Distinct
  <2>3. CASE \E k, l \in 1..n : i = m + k /\ j = m + l
    <3>1. PICK k \in 1..n, l \in 1..n : i = m + k /\ j = m + l
      BY <2>3
    <3>2. t[k] = t[l]
      BY <1>3, <3>1
    <3> QED
      BY <1>1, <1>6, <3>1, <3>2 DEF Distinct
  <2> QED
    BY <1>2, <1>3, <1>4, <2>1, <2>2, <2>3
<1>7. ASSUME NEW a, NEW b, Lists!Before(s, a, b) \/ Lists!Before(t, a, b)
      PROVE  Lists!Before(u, a, b)
  <2>1. CASE Lists!Before(s, a, b)
    BY <1>1, <1>2, <2>1 DEF Lists!Before
  <2>2. CASE Lists!Before(t, a, b)
    <3>1. PICK i \in 1..n, j \in 1..n : i < j /\ t[i] = a /\ t[j] = b
      BY <1>1, <2>2 DEF Lists!Before
    <3>2. m + i < m + j /\ m + i \in DOMAIN u /\ m + j \in DOMAIN u /\ u[m + i] = a /\ u[m + j] = b
      BY <1>1, <1>3, <3>1
    <3> QED
      BY <3>2 DEF Lists!Before
  <2> QED
    BY <1>7, <2>1, <2>2
<1>8. ASSUME NEW a, NEW b, Lists!Beside(s, a, b) \/ Lists!Beside(t, a, b)
      PROVE  Lists!Beside(u, a, b)
  <2>1. CASE Lists!Beside(s, a, b)
    <3>1. PICK i \in 1..(m - 1) : s[i] = a /\ s[i + 1] = b
      BY <1>1, <2>1 DEF Lists!Beside, m
    <3>2. i \in 1..m /\ i + 1 \in 1..m /\ i \in 1..(Len(u) - 1)
      BY <1>1, <3>1
    <3> QED
      BY <1>2, <3>1, <3>2 DEF Lists!Beside
  <2>2. CASE Lists!Beside(t, a, b)
    <3>1. PICK i \in 1..(n - 1) : t[i] = a /\ t[i + 1] = b
      BY <1>1, <2>2 DEF Lists!Beside, n
    <3>2. i \in 1..n /\ i + 1 \in 1..n /\ m + i \in 1..(Len(u) - 1) /\ m + (i + 1) = (m + i) + 1
      BY <1>1, <3>1
    <3>3. u[m + i] = a /\ u[(m + i) + 1] = b
      BY <1>3, <3>1, <3>2
    <3> QED
      BY <3>2, <3>3 DEF Lists!Beside
  <2> QED
    BY <1>8, <2>1, <2>2
<1> QED
  BY <1>1, <1>5, <1>6, <1>7, <1>8 DEF u

\* A list without repetitions is as long as it has elements.
LEMMA DistinctCount ==
    ASSUME NEW X, NEW s \in Seq(X), Distinct(s)
    PROVE  IsFiniteSet(Lists!ToSet(s)) /\ Len(s) = Cardinality(Lists!ToSet(s))
<1> DEFINE D == 1..Len(s)
           T == Lists!ToSet(s)
<1>1. Len(s) \in Nat /\ DOMAIN s = D
  OBVIOUS
<1>2. IsFiniteSet(D) /\ Cardinality(D) = Len(s)
  <2>1. 1 \in Int /\ Len(s) \in Int
    BY <1>1
  <2>2. IsFiniteSet(1..Len(s)) /\ Cardinality(1..Len(s)) = IF 1 > Len(s) THEN 0 ELSE Len(s) - 1 + 1
    BY <2>1, FS_Interval
  <2> QED
    BY <1>1, <2>2
<1>3. s \in [D -> T] /\ \A t \in T : \E i \in D : s[i] = t
  <2>1. \A i \in D : s[i] \in T
    BY <1>1 DEF Lists!ToSet
  <2>2. s = [i \in D |-> s[i]]
    BY <1>1
  <2>3. \A t \in T : \E i \in D : s[i] = t
    BY <1>1 DEF Lists!ToSet
  <2> HIDE DEF D, T
  <2>4. s \in [D -> T]
    BY <2>1, <2>2
  <2> QED
    BY <2>3, <2>4
<1>4. \A i, j \in D : s[i] = s[j] => i = j
  BY <1>1 DEF Distinct
<1> HIDE DEF D, T
<1>5. ExistsBijection(D, T)
  <2>1. s \in Bijection(D, T)
    BY <1>3, <1>4, Fun_IsBij
  <2> QED
    BY <2>1, Fun_ExistsBij
<1>6. IsFiniteSet(T) /\ Cardinality(T) = Cardinality(D)
  BY <1>2, <1>5, FS_Bijection
<1> QED
  BY <1>2, <1>6 DEF T

\* What is inserted stands between its neighbours.
LEMMA InsertKeeps ==
    ASSUME NEW X, NEW s \in Seq(X), NEW e \in X, NEW k \in 1..(Len(s) + 1)
    PROVE  LET u == Lists!InsertAt(s, k, e)
           IN  /\ u \in Seq(X)
               /\ Distinct(s) /\ e \notin Lists!ToSet(s) => Distinct(u)
               /\ k <= Len(s) => Lists!Beside(u, e, s[k])
               /\ k > 1 => Lists!Beside(u, s[k - 1], e)
<1> DEFINE n == Len(s)
           u == Lists!InsertAt(s, k, e)
<1>1. /\ n \in Nat /\ k \in Nat /\ 1 <= k /\ k <= n + 1 /\ DOMAIN s = 1..n
      /\ \A i \in 1..n : s[i] \in X
  OBVIOUS
<1> DEFINE p == SubSeq(s, 1, k - 1)
           q == SubSeq(s, k, n)
           v == p \o <<e>>
<1>p. p \in Seq(X) /\ Len(p) = k - 1 /\ \A i \in 1..(k - 1) : p[i] = s[i]
  BY <1>1
<1>q. q \in Seq(X) /\ Len(q) = (n - k) + 1 /\ \A i \in 1..((n - k) + 1) : q[i] = s[(k + i) - 1]
  BY <1>1
<1>u. u = v \o q
  BY DEF Lists!InsertAt
<1> HIDE DEF p, q, u, n
<1>v. v \in Seq(X) /\ Len(v) = k /\ v[k] = e /\ \A i \in 1..(k - 1) : v[i] = p[i]
  BY <1>1, <1>p
<1> HIDE DEF v
<1>2. u \in Seq(X) /\ Len(u) = n + 1 /\ DOMAIN u = 1..(n + 1)
  <2>1. u \in Seq(X) /\ Len(u) = Len(v) + Len(q)
    BY <1>q, <1>u, <1>v, ConcatProperties
  <2>2. Len(u) = n + 1
    BY <1>1, <1>q, <1>v, <2>1
  <2> QED
    BY <2>1, <2>2
<1>3. /\ \A i \in 1..(k - 1) : u[i] = s[i]
      /\ u[k] = e
      /\ \A i \in (k + 1)..(n + 1) : u[i] = s[i - 1]
  <2>1. \A i \in 1..k : u[i] = v[i]
    BY <1>1, <1>q, <1>u, <1>v
  <2>2. \A i \in 1..((n - k) + 1) : u[k + i] = q[i]
    BY <1>1, <1>q, <1>u, <1>v
  <2>3. ASSUME NEW i \in (k + 1)..(n + 1) PROVE u[i] = s[i - 1]
    <3>1. i - k \in 1..((n - k) + 1) /\ k + (i - k) = i /\ (k + (i - k)) - 1 = i - 1
      BY <1>1
    <3> QED
      BY <1>q, <2>2, <3>1
  <2> QED
    BY <1>1, <1>p, <1>v, <2>1, <2>3
<1> HIDE DEF u, n
<1>4. ASSUME Distinct(s), e \notin Lists!ToSet(s)
      PROVE  Distinct(u)
  <2> DEFINE at(i) == IF i < k THEN i ELSE i - 1
  <2>1. \A i \in 1..(n + 1) : i # k => at(i) \in DOMAIN s /\ u[i] = s[at(i)]
    BY <1>1, <1>3
  <2>2. \A i \in 1..(n + 1) : i # k => u[i] # e
    BY <1>4, <2>1 DEF Lists!ToSet
  <2>3. \A i, j \in 1..(n + 1) : i # k /\ j # k /\ at(i) = at(j) => i = j
    BY <1>1
  <2> HIDE DEF at
  <2>4. \A i, j \in 1..(n + 1) : i # k /\ j # k /\ u[i] = u[j] => i = j
    BY <1>4, <2>1, <2>3 DEF Distinct
  <2> QED
    BY <1>2, <1>3, <2>2, <2>4 DEF Distinct
<1>5. ASSUME k <= n
      PROVE  Lists!Beside(u, e, s[k])
  <2>1. k \in 1..(Len(u) - 1) /\ u[k] = e /\ u[k + 1] = s[k]
    BY <1>1, <1>2, <1>3, <1>5
  <2> QED
    BY <2>1 DEF Lists!Beside
<1>6. ASSUME k > 1
      PROVE  Lists!Beside(u, s[k - 1], e)
  <2>1. k - 1 \in 1..(Len(u) - 1) /\ u[k - 1] = s[k - 1] /\ u[(k - 1) + 1] = e
    BY <1>1, <1>2, <1>3, <1>6
  <2> QED
    BY <2>1 DEF Lists!Beside
<1> QED
  BY <1>2, <1>4, <1>5, <1>6 DEF u, n

\* Repetitions go; what is there once keeps its order.
LEMMA OnceKeeps ==
    ASSUME NEW X, NEW list \in Seq(X)
    PROVE  LET f == Lists!Once(list)
           IN  /\ f \in Seq(X)
               /\ Distinct(f)
               /\ \A i, j \in DOMAIN list :
                     /\ i < j
                     /\ \A k \in DOMAIN list : (list[k] = list[i] => k = i) /\ (list[k] = list[j] => k = j)
                     => Lists!Before(f, list[i], list[j])
<1> DEFINE I == {i \in DOMAIN list : \A j \in 1..(i - 1) : list[j] # list[i]}
           f == Lists!Filtered(list, I)
<1>1. I \in SUBSET DOMAIN list /\ f = Lists!Once(list) /\ DOMAIN list = 1..Len(list) /\ Len(list) \in Nat
  BY DEF Lists!Once
<1>2. \A i \in I : i \in DOMAIN list /\ \A j \in 1..(i - 1) : list[j] # list[i]
  OBVIOUS
<1>3. ASSUME NEW i \in DOMAIN list, \A k \in DOMAIN list : list[k] = list[i] => k = i
      PROVE  i \in I
  <2>1. ASSUME NEW j \in 1..(i - 1) PROVE list[j] # list[i]
    <3>1. j \in DOMAIN list /\ j # i
      BY <1>1
    <3> QED
      BY <1>3, <3>1
  <2> QED
    BY <2>1
<1> HIDE DEF I
<1>4. f \in Seq(X)
  BY <1>1, Threaded
<1>5. PICK w : Threads(w, f, list, I)
  BY <1>1, Threaded
<1> HIDE DEF f
<1>6. \A i, j \in I : list[i] = list[j] => i = j
  <2> SUFFICES ASSUME NEW i \in I, NEW j \in I, list[i] = list[j]
               PROVE  i = j
    OBVIOUS
  <2>1. i \in Int /\ j \in Int /\ i >= 1 /\ j >= 1
    BY <1>1, <1>2
  <2>2. ~(i < j) /\ ~(j < i)
    BY <1>2, <2>1
  <2> QED
    BY <2>1, <2>2
<1>7. Distinct(f) /\ \A i, j \in I : i < j => Lists!Before(f, list[i], list[j])
  <2>1. I \in SUBSET DOMAIN list
    BY <1>1
  <2>2. /\ \A x : x \in Lists!ToSet(f) <=> \E i \in I : list[i] = x
        /\ (\A i, j \in I : list[i] = list[j] => i = j) => Distinct(f)
        /\ \A i, j \in I : i < j => Lists!Before(f, list[i], list[j])
        /\ \A i, j \in I : j = i + 1 => Lists!Beside(f, list[i], list[j])
    BY <2>1, <1>4, <1>5, ThreadKeeps
  <2> QED
    BY <1>6, <2>2
<1> QED
  BY <1>1, <1>3, <1>4, <1>7

LEMMA ListFilesBounds == /\ IsFiniteSet(Calls) /\ Nco \in Calls /\ Helpers \subseteq Calls /\ Nco \notin Helpers
                    /\ None \notin Calls /\ MaxEvents \in Nat
  BY PartsAssumption, FiniteAlike DEF Lists!ListsAssumption

\* The order of the room has every station once.
LEMMA RoomIs == Lists!RoomOrder \in Seq(Calls) /\ Distinct(Lists!RoomOrder) /\ Lists!ToSet(Lists!RoomOrder) = Calls
<1> DEFINE n == Cardinality(Calls)
           D == 1..n
           f == Lists!RoomOrder
<1>1. n \in Nat /\ ExistsBijection(D, Calls)
  BY ListFilesBounds, FS_CardinalityType
<1>2. PICK g : g \in Bijection(D, Calls)
  BY <1>1, Fun_ExistsBij
<1>3. g \in [D -> Calls] /\ \A i, j \in D : g[i] = g[j] => i = j
  <2>1. g \in Injection(D, Calls)
    BY <1>2, Fun_BijectionProperties
  <2> QED
    BY <2>1, Fun_InjectionProperties
<1>4. f \in [D -> Calls] /\ \A i, j \in D : f[i] = f[j] => i = j
  <2>1. f = CHOOSE h \in [D -> Calls] : \A i, j \in DOMAIN h : h[i] = h[j] => i = j
    BY CountedAlike DEF Lists!RoomOrder, Lists!SetToSeq, Lists!IsInjective
  <2> HIDE DEF f, D
  <2>2. DOMAIN g = D
    BY <1>3
  <2>3. \E h \in [D -> Calls] : \A i, j \in DOMAIN h : h[i] = h[j] => i = j
    BY <1>3, <2>2
  <2>4. f \in [D -> Calls] /\ \A i, j \in DOMAIN f : f[i] = f[j] => i = j
    BY <2>1, <2>3
  <2> QED
    BY <2>4
<1>5. IsFiniteSet(D) /\ Cardinality(D) = n
  <2>1. 1 \in Int /\ n \in Int
    BY <1>1
  <2>2. IsFiniteSet(1..n) /\ Cardinality(1..n) = IF 1 > n THEN 0 ELSE n - 1 + 1
    BY <2>1, FS_Interval
  <2> QED
    BY <1>1, <2>2
<1>6. \A c \in Calls : \E i \in D : f[i] = c
  <2> HIDE DEF f, D
  <2>1. f \in Injection(D, Calls)
    BY <1>4, Fun_IsInj
  <2>2. f \in Surjection(D, Calls)
    BY <1>5, <2>1, ListFilesBounds, FS_Injection
  <2> QED
    BY <2>2, Fun_SurjectionProperties
<1>7. f \in Seq(Calls) /\ DOMAIN f = D
  BY <1>1, <1>4
<1> HIDE DEF f, D
<1>8. Lists!ToSet(f) = Calls
  BY <1>4, <1>6, <1>7 DEF Lists!ToSet
<1> QED
  BY <1>4, <1>7, <1>8 DEF f, Distinct

LEMMA OrdersAre == \A o \in Lists!Orders : o \in Seq(Calls) /\ Distinct(o)
<1> SUFFICES ASSUME NEW o \in Lists!Orders
             PROVE  o \in Seq(Calls) /\ Distinct(o)
  OBVIOUS
<1>1. PICK S \in SUBSET Calls : o \in Lists!SetToSeqs(S)
  BY DEF Lists!Orders, Lists!SetToAllKPermutations
<1> DEFINE n == Cardinality(S)
<1>2. n \in Nat
  BY ListFilesBounds, FS_Subset, FS_CardinalityType
<1>3. o \in [1..n -> S] /\ \A i, j \in 1..n : i # j => o[i] # o[j]
  BY <1>1, CountedAlike DEF Lists!SetToSeqs
<1> QED
  BY <1>2, <1>3 DEF Distinct

-----------------------------------------------------------------------------
(* The lists of the page. *)

Page == [touch : BOOLEAN, seen : [Calls -> Lists!Standings], lists : [Lists!Groups -> Seq(Calls)],
         hidden : SUBSET Calls, away : SUBSET Calls, guests : SUBSET Calls,
         selected : Calls \cup {None}, pinned : Calls \cup {None}]

RowDrag == [call : Calls, group : Lists!Groups, target : Calls \cup {None},
            after : BOOLEAN, started : BOOLEAN, live : BOOLEAN, orphan : BOOLEAN]

\* A page before it is rendered: nobody is on a list twice, and who is selected is active.
Raw(p) ==
    /\ p \in Page
    /\ \A g \in Lists!Groups : Distinct(p.lists[g])
    /\ p.selected # None => p.seen[p.selected] = "active"

\* And after: everybody that is shown is on the list, and the actions that are open are those of a row.
SoundPage(p) ==
    /\ Raw(p)
    /\ \A g \in Lists!Groups : Lists!Shown(p, g) \subseteq Lists!ToSet(p.lists[g])
    /\ p.pinned # None => Lists!Row(p, p.pinned)

ListInv ==
    /\ SoundPage(page)
    /\ rowDrag = None \/ (rowDrag \in RowDrag /\ rowDrag.target # rowDrag.call)
    /\ fix = None \/ fix \in Calls \X Calls
    /\ cause \in {"own", "drop", "page"} /\ events \in 0..MaxEvents

LEMMA ShownAre == \A p, g : Lists!Shown(p, g) \subseteq Calls
  BY DEF Lists!Shown

\* What rendering changes.
LEMMA RenderedIs ==
    ASSUME NEW p, p \in Page
    PROVE  LET q == Lists!Rendered(p)
           IN  /\ q.touch = p.touch /\ q.seen = p.seen /\ q.hidden = p.hidden /\ q.away = p.away
               /\ q.guests = p.guests /\ q.selected = p.selected
               /\ q.lists = [g \in Lists!Groups |-> Lists!Ordered(p, g)]
               /\ q.pinned = p.pinned \/ q.pinned = None
               /\ q.pinned # None => Lists!Row(q, q.pinned)
               /\ q = [touch |-> q.touch, seen |-> q.seen, lists |-> q.lists, hidden |-> q.hidden, away |-> q.away,
                       guests |-> q.guests, selected |-> q.selected, pinned |-> q.pinned]
<1> DEFINE ordered == [g \in Lists!Groups |-> Lists!Ordered(p, g)]
           r == [p EXCEPT !.lists = ordered]
           open == IF r.pinned # None /\ Lists!Row(p, r.pinned) THEN r.pinned ELSE None
           q == Lists!Rendered(p)
<1>1. q = [r EXCEPT !.pinned = open]
  BY DEF Lists!Rendered
<1> HIDE DEF ordered
<1>2. /\ r.touch = p.touch /\ r.seen = p.seen /\ r.hidden = p.hidden /\ r.away = p.away
      /\ r.guests = p.guests /\ r.selected = p.selected /\ r.pinned = p.pinned
      /\ r.lists = ordered
      /\ r = [touch |-> r.touch, seen |-> r.seen, lists |-> r.lists, hidden |-> r.hidden, away |-> r.away,
              guests |-> r.guests, selected |-> r.selected, pinned |-> r.pinned]
  BY DEF Page
<1> HIDE DEF r
<1>3. open = p.pinned \/ open = None
  BY <1>2
<1>4. open # None => Lists!Row(p, open)
  OBVIOUS
<1> HIDE DEF open
<1>5. /\ q.touch = r.touch /\ q.seen = r.seen /\ q.hidden = r.hidden /\ q.away = r.away
      /\ q.guests = r.guests /\ q.selected = r.selected /\ q.pinned = open /\ q.lists = r.lists
      /\ q = [touch |-> q.touch, seen |-> q.seen, lists |-> q.lists, hidden |-> q.hidden, away |-> q.away,
              guests |-> q.guests, selected |-> q.selected, pinned |-> q.pinned]
  BY <1>1, <1>2
<1> HIDE DEF q
<1>6. Lists!Row(q, q.pinned) <=> Lists!Row(p, open)
  BY <1>2, <1>5 DEF Lists!Row
<1> QED
  BY <1>2, <1>3, <1>4, <1>5, <1>6 DEF q, ordered

\* The part of a list that is kept, and the new rows below it.
LEMMA OrderedIs ==
    ASSUME NEW p, Raw(p), NEW g \in Lists!Groups
    PROVE  /\ Lists!Ordered(p, g) \in Seq(Calls)
           /\ Distinct(Lists!Ordered(p, g))
           /\ Lists!Shown(p, g) \subseteq Lists!ToSet(Lists!Ordered(p, g))
           /\ \A a, b \in Lists!Shown(p, g) \cup p.hidden :
                 Lists!Before(p.lists[g], a, b) => Lists!Before(Lists!Ordered(p, g), a, b)
           /\ \A a, b \in Lists!Shown(p, g) \cup p.hidden :
                 Lists!Beside(p.lists[g], a, b) => Lists!Beside(Lists!Ordered(p, g), a, b)
<1> DEFINE list == p.lists[g]
           stay == Lists!Shown(p, g) \cup p.hidden
           new == Lists!Shown(p, g) \ Lists!ToSet(list)
           s == Lists!Only(list, stay)
           t == Lists!Only(Lists!RoomOrder, new)
<1>1. list \in Seq(Calls) /\ Distinct(list)
  BY DEF Raw, Page
<1>2. Lists!Ordered(p, g) = s \o t
  BY DEF Lists!Ordered
<1>3. new \cup stay \subseteq Calls /\ Lists!Shown(p, g) = (Lists!Shown(p, g) \cap Lists!ToSet(list)) \cup new
      /\ Lists!Shown(p, g) \subseteq stay /\ new \cap Lists!ToSet(list) = {}
  BY ShownAre DEF Raw, Page
<1> HIDE DEF list, stay, new
<1>4. /\ s \in Seq(Calls) /\ Lists!ToSet(s) = Lists!ToSet(list) \cap stay /\ Distinct(s)
      /\ \A a, b \in stay : Lists!Before(list, a, b) => Lists!Before(s, a, b)
      /\ \A a, b \in stay : Lists!Beside(list, a, b) => Lists!Beside(s, a, b)
  BY <1>1, OnlyKeeps
<1>5. t \in Seq(Calls) /\ Lists!ToSet(t) = Calls \cap new /\ Distinct(t)
  BY RoomIs, OnlyKeeps
<1> HIDE DEF s, t
<1>6. /\ s \o t \in Seq(Calls)
      /\ Lists!ToSet(s \o t) = Lists!ToSet(s) \cup Lists!ToSet(t)
      /\ Distinct(s) /\ Distinct(t) /\ Lists!ToSet(s) \cap Lists!ToSet(t) = {} => Distinct(s \o t)
      /\ \A a, b : Lists!Before(s, a, b) \/ Lists!Before(t, a, b) => Lists!Before(s \o t, a, b)
      /\ \A a, b : Lists!Beside(s, a, b) \/ Lists!Beside(t, a, b) => Lists!Beside(s \o t, a, b)
  BY <1>4, <1>5, ConcatKeeps
<1>7. Lists!ToSet(s) \cap Lists!ToSet(t) = {} /\ Lists!Shown(p, g) \subseteq Lists!ToSet(s) \cup Lists!ToSet(t)
  BY <1>3, <1>4, <1>5
<1>8. /\ \A a, b \in stay : Lists!Before(list, a, b) => Lists!Before(s \o t, a, b)
      /\ \A a, b \in stay : Lists!Beside(list, a, b) => Lists!Beside(s \o t, a, b)
  BY <1>4, <1>6
<1> QED
  BY <1>2, <1>4, <1>5, <1>6, <1>7, <1>8 DEF list, stay

LEMMA RenderedSound == ASSUME NEW p, Raw(p) PROVE SoundPage(Lists!Rendered(p))
<1> DEFINE q == Lists!Rendered(p)
<1>1. p \in Page
  BY DEF Raw
<1>2. /\ q.touch = p.touch /\ q.seen = p.seen /\ q.hidden = p.hidden /\ q.away = p.away
      /\ q.guests = p.guests /\ q.selected = p.selected
      /\ q.lists = [g \in Lists!Groups |-> Lists!Ordered(p, g)]
      /\ q.pinned = p.pinned \/ q.pinned = None
      /\ q.pinned # None => Lists!Row(q, q.pinned)
      /\ q = [touch |-> q.touch, seen |-> q.seen, lists |-> q.lists, hidden |-> q.hidden, away |-> q.away,
              guests |-> q.guests, selected |-> q.selected, pinned |-> q.pinned]
  BY <1>1, RenderedIs
<1> HIDE DEF q
<1>3. ASSUME NEW g \in Lists!Groups
      PROVE  /\ q.lists[g] \in Seq(Calls) /\ Distinct(q.lists[g])
             /\ Lists!Shown(q, g) \subseteq Lists!ToSet(q.lists[g])
  <2>1. q.lists[g] = Lists!Ordered(p, g)
    BY <1>2
  <2>2. Lists!Shown(q, g) = Lists!Shown(p, g)
    BY <1>2 DEF Lists!Shown
  <2> QED
    BY <2>1, <2>2, OrderedIs
<1>4. q \in Page
  <2>1. q.lists \in [Lists!Groups -> Seq(Calls)]
    BY <1>2, <1>3
  <2>2. /\ q.touch \in BOOLEAN /\ q.seen \in [Calls -> Lists!Standings]
        /\ q.hidden \in SUBSET Calls /\ q.away \in SUBSET Calls /\ q.guests \in SUBSET Calls
        /\ q.selected \in Calls \cup {None} /\ q.pinned \in Calls \cup {None}
    BY <1>1, <1>2 DEF Page
  <2> QED
    BY <1>2, <2>1, <2>2 DEF Page
<1>5. q.selected # None => q.seen[q.selected] = "active"
  BY <1>2 DEF Raw
<1> QED
  BY <1>2, <1>3, <1>4, <1>5 DEF SoundPage, Raw, q

LEMMA ActiveGroup == \A x : Lists!GroupOf(x) = "order" <=> x = "active"
  BY DEF Lists!GroupOf

\* The rows of a group are the stations it shows, each once, and those without a fixed place as they are on the list.
LEMMA DisplayedIs ==
    ASSUME NEW p, SoundPage(p), NEW g \in Lists!Groups
    PROVE  /\ Lists!Displayed(p, g) \in Seq(Calls)
           /\ Lists!ToSet(Lists!Displayed(p, g)) = Lists!Shown(p, g)
           /\ Distinct(Lists!Displayed(p, g))
           /\ \A a, b \in Lists!Shown(p, g) :
                 ~Lists!Pinned(p, a) /\ ~Lists!Pinned(p, b) /\ Lists!Beside(p.lists[g], a, b)
                     => Lists!Beside(Lists!Displayed(p, g), a, b)
<1> DEFINE list == p.lists[g]
           shown == Lists!Shown(p, g)
           rows == Lists!Only(list, shown)
<1>1. /\ list \in Seq(Calls) /\ Distinct(list) /\ shown \subseteq Lists!ToSet(list)
      /\ shown \subseteq Calls
  BY ShownAre DEF SoundPage, Raw, Page
<1> HIDE DEF list
<1>2. /\ rows \in Seq(Calls) /\ Lists!ToSet(rows) = shown /\ Distinct(rows)
      /\ \A a, b \in shown : Lists!Beside(list, a, b) => Lists!Beside(rows, a, b)
  <2> HIDE DEF shown
  <2>1. /\ rows \in Seq(Calls) /\ Lists!ToSet(rows) = Lists!ToSet(list) \cap shown
        /\ Distinct(list) => Distinct(rows)
        /\ \A a, b \in shown : Lists!Before(list, a, b) => Lists!Before(rows, a, b)
        /\ \A a, b \in shown : Lists!Beside(list, a, b) => Lists!Beside(rows, a, b)
    BY <1>1, OnlyKeeps
  <2> QED
    BY <1>1, <2>1
<1> HIDE DEF rows
<1>3. CASE g # "order"
  <2>1. Lists!Displayed(p, g) = rows
    BY <1>3 DEF Lists!Displayed, rows, list
  <2> QED
    BY <1>2, <2>1 DEF list
<1>4. CASE g = "order"
  <2> DEFINE A == {Nco}
             B == Helpers
             C == p.guests \ ({Nco} \cup Helpers)
             D == {c \in Calls : ~Lists!Pinned(p, c)}
             P(S) == Lists!Only(rows, S)
             ab == P(A) \o P(B)
             abc == ab \o P(C)
  <2>1. Lists!Displayed(p, g) = abc \o P(D)
    BY <1>4 DEF Lists!Displayed, rows, list
  <2>2. /\ A \cap B = {} /\ (A \cup B) \cap C = {}
        /\ \A c \in shown : c \in D <=> c \notin A \cup B \cup C
        /\ \A a \in shown : ~Lists!Pinned(p, a) => a \in D
    <3>1. \A c \in shown : p.seen[c] = "active"
      BY <1>4, ActiveGroup DEF Lists!Shown
    <3>2. \A c \in shown : Lists!Pinned(p, c) <=> c \in {Nco} \cup Helpers \cup p.guests
      BY <3>1 DEF Lists!Pinned, Lists!Special
    <3> QED
      BY <1>1, <3>2, ListFilesBounds
  <2> HIDE DEF A, B, C, D, shown
  <2>3. ASSUME NEW S
        PROVE  /\ P(S) \in Seq(Calls) /\ Lists!ToSet(P(S)) = shown \cap S /\ Distinct(P(S))
               /\ \A a, b \in S : Lists!Beside(rows, a, b) => Lists!Beside(P(S), a, b)
    <3>1. /\ P(S) \in Seq(Calls) /\ Lists!ToSet(P(S)) = Lists!ToSet(rows) \cap S
          /\ Distinct(rows) => Distinct(P(S))
          /\ \A a, b \in S : Lists!Before(rows, a, b) => Lists!Before(P(S), a, b)
          /\ \A a, b \in S : Lists!Beside(rows, a, b) => Lists!Beside(P(S), a, b)
      BY <1>2, OnlyKeeps
    <3> QED
      BY <1>2, <3>1
  <2> HIDE DEF P
  <2>4. ab \in Seq(Calls) /\ Lists!ToSet(ab) = shown \cap (A \cup B) /\ Distinct(ab)
    <3>1. /\ ab \in Seq(Calls) /\ Lists!ToSet(ab) = Lists!ToSet(P(A)) \cup Lists!ToSet(P(B))
          /\ Lists!ToSet(P(A)) \cap Lists!ToSet(P(B)) = {} => Distinct(ab)
      BY <2>3, ConcatKeeps
    <3> QED
      BY <2>2, <2>3, <3>1
  <2> HIDE DEF ab
  <2>5. abc \in Seq(Calls) /\ Lists!ToSet(abc) = shown \cap (A \cup B \cup C) /\ Distinct(abc)
    <3>1. /\ abc \in Seq(Calls) /\ Lists!ToSet(abc) = Lists!ToSet(ab) \cup Lists!ToSet(P(C))
          /\ Lists!ToSet(ab) \cap Lists!ToSet(P(C)) = {} => Distinct(abc)
      BY <2>3, <2>4, ConcatKeeps
    <3> QED
      BY <2>2, <2>3, <2>4, <3>1
  <2> HIDE DEF abc
  <2>6. /\ abc \o P(D) \in Seq(Calls) /\ Lists!ToSet(abc \o P(D)) = Lists!ToSet(abc) \cup Lists!ToSet(P(D))
        /\ Lists!ToSet(abc) \cap Lists!ToSet(P(D)) = {} => Distinct(abc \o P(D))
        /\ \A a, b : Lists!Beside(P(D), a, b) => Lists!Beside(abc \o P(D), a, b)
    BY <2>3, <2>5, ConcatKeeps
  <2>7. Lists!ToSet(abc \o P(D)) = shown /\ Lists!ToSet(abc) \cap Lists!ToSet(P(D)) = {}
    BY <2>2, <2>3, <2>5, <2>6
  <2>8. ASSUME NEW a \in shown, NEW b \in shown, ~Lists!Pinned(p, a), ~Lists!Pinned(p, b), Lists!Beside(list, a, b)
        PROVE  Lists!Beside(abc \o P(D), a, b)
    BY <1>2, <2>2, <2>3, <2>6, <2>8
  <2> QED
    BY <2>1, <2>6, <2>7, <2>8 DEF shown, list
<1> QED
  BY <1>3, <1>4

\* What the run checks of a state.
LEMMA ListsAreSound == ListInv => Lists!TypeOK /\ Lists!OneRowEach /\ Lists!ChosenAreThere
<1> SUFFICES ASSUME ListInv
             PROVE  Lists!TypeOK /\ Lists!OneRowEach /\ Lists!ChosenAreThere
  OBVIOUS
<1>1. SoundPage(page) /\ Raw(page) /\ page \in Page
  BY DEF ListInv, SoundPage, Raw
<1>2. ASSUME NEW g \in Lists!Groups
      PROVE  page.lists[g] \in Seq(Calls) /\ Len(page.lists[g]) <= Lists!Cardinality(Calls)
  <2> DEFINE list == page.lists[g]
  <2>1. list \in Seq(Calls) /\ Distinct(list)
    BY <1>1 DEF Raw, Page
  <2> HIDE DEF list
  <2>2. Len(list) = Cardinality(Lists!ToSet(list)) /\ Len(list) \in Nat
    BY <2>1, DistinctCount
  <2>3. Lists!ToSet(list) \in SUBSET Calls
    BY <2>1 DEF Lists!ToSet
  <2>4. Cardinality(Lists!ToSet(list)) <= Cardinality(Calls)
    BY <2>3, ListFilesBounds, FS_Subset
  <2> QED
    BY <2>1, <2>2, <2>4, CountedAlike DEF list
<1>3. Lists!TypeOK
  BY <1>1, <1>2 DEF ListInv, Lists!TypeOK, Page, RowDrag
<1>4. Lists!OneRowEach
  <2> SUFFICES ASSUME NEW g \in Lists!Groups
               PROVE  /\ Lists!ToSet(Lists!Displayed(page, g)) = Lists!Shown(page, g)
                      /\ Len(Lists!Displayed(page, g)) = Lists!Cardinality(Lists!Shown(page, g))
    BY DEF Lists!OneRowEach
  <2> DEFINE rows == Lists!Displayed(page, g)
  <2>1. rows \in Seq(Calls) /\ Lists!ToSet(rows) = Lists!Shown(page, g) /\ Distinct(rows)
    BY <1>1, DisplayedIs
  <2> HIDE DEF rows
  <2>2. Len(rows) = Cardinality(Lists!ToSet(rows))
    BY <2>1, DistinctCount
  <2> QED
    BY <2>1, <2>2, CountedAlike DEF rows
<1>5. Lists!ChosenAreThere
  BY <1>1 DEF SoundPage, Raw, Lists!ChosenAreThere
<1> QED
  BY <1>3, <1>4, <1>5

\* A row is taken from its place and put beside another one.
LEMMA RowMovedIs ==
    ASSUME NEW list \in Seq(Calls), Distinct(list), NEW call \in Calls, NEW on \in Calls, NEW after \in BOOLEAN,
           on \in Lists!ToSet(list), on # call
    PROVE  LET new == Lists!Moved(list, call, on, after)
           IN  /\ new \in Seq(Calls) /\ Distinct(new)
               /\ IF after THEN Lists!Beside(new, on, call) ELSE Lists!Beside(new, call, on)
<1> DEFINE rest == Lists!Without(list, call)
           at == Lists!Index(rest, on)
           k == at + (IF after THEN 1 ELSE 0)
           new == Lists!InsertAt(rest, k, call)
<1>1. new = Lists!Moved(list, call, on, after)
  BY DEF Lists!Moved
<1>2. rest \in Seq(Calls) /\ Lists!ToSet(rest) = Lists!ToSet(list) \cap (Calls \ {call}) /\ Distinct(rest)
  BY OnlyKeeps DEF Lists!Without
<1> HIDE DEF rest
<1>3. at \in 1..Len(rest) /\ rest[at] = on
  <2>1. DOMAIN rest = 1..Len(rest)
    BY <1>2
  <2>2. \E i \in 1..Len(rest) : rest[i] = on
    <3>1. on \in Lists!ToSet(rest)
      BY <1>2
    <3> QED
      BY <2>1, <3>1 DEF Lists!ToSet
  <2>3. at = CHOOSE i \in DOMAIN rest : rest[i] = on
    BY <2>2 DEF Lists!Index, Lists!Contains
  <2> QED
    BY <2>1, <2>2, <2>3
<1> HIDE DEF at
<1>4. Len(rest) \in Nat /\ k \in 1..(Len(rest) + 1)
  BY <1>2, <1>3
<1>5. call \notin Lists!ToSet(rest)
  BY <1>2
<1> HIDE DEF k
<1>6. /\ new \in Seq(Calls) /\ Distinct(new)
      /\ k <= Len(rest) => Lists!Beside(new, call, rest[k])
      /\ k > 1 => Lists!Beside(new, rest[k - 1], call)
  BY <1>2, <1>4, <1>5, InsertKeeps
<1> HIDE DEF new
<1>7. CASE after
  <2>1. k = at + 1 /\ k > 1 /\ k - 1 = at
    BY <1>2, <1>3, <1>7 DEF k
  <2> QED
    BY <1>1, <1>3, <1>6, <1>7, <2>1
<1>8. CASE ~after
  <2>1. k = at /\ k <= Len(rest)
    BY <1>2, <1>3, <1>8 DEF k
  <2> QED
    BY <1>1, <1>3, <1>6, <1>8, <2>1
<1> QED
  BY <1>7, <1>8

\* A row without a target goes last.
LEMMA AppendedIs ==
    ASSUME NEW list \in Seq(Calls), Distinct(list), NEW call \in Calls
    PROVE  LET new == Append(Lists!Without(list, call), call)
           IN  new \in Seq(Calls) /\ Distinct(new)
<1> DEFINE rest == Lists!Without(list, call)
           new == Append(rest, call)
           n == Len(rest)
<1>1. rest \in Seq(Calls) /\ Lists!ToSet(rest) = Lists!ToSet(list) \cap (Calls \ {call}) /\ Distinct(rest)
  BY OnlyKeeps DEF Lists!Without
<1> HIDE DEF rest
<1>2. /\ n \in Nat /\ new \in Seq(Calls) /\ DOMAIN new = 1..(n + 1) /\ DOMAIN rest = 1..n
      /\ new[n + 1] = call /\ \A i \in 1..n : new[i] = rest[i]
  BY <1>1
<1>3. \A i \in 1..n : new[i] # call
  BY <1>1, <1>2 DEF Lists!ToSet
<1> HIDE DEF new, n
<1>4. \A i \in 1..(n + 1) : i \in 1..n \/ i = n + 1
  BY <1>2
<1>5. Distinct(new)
  BY <1>1, <1>2, <1>3, <1>4 DEF Distinct
<1> QED
  BY <1>2, <1>5 DEF new, rest

\* What a drop does to the lists, and where a row without a fixed place lands that is dropped on another.
LEMMA DroppedIs ==
    ASSUME NEW p, SoundPage(p), NEW d \in RowDrag, d.target # d.call
    PROVE  /\ \/ Lists!Dropped(p, d) = p
              \/ \E new \in Seq(Calls) : Distinct(new) /\ Lists!Dropped(p, d) = [p EXCEPT !.lists[d.group] = new]
           /\ /\ {d.call, d.target} \subseteq Lists!Shown(p, d.group)
              /\ ~Lists!Pinned(p, d.call) /\ ~Lists!Pinned(p, d.target)
              => \E new \in Seq(Calls) :
                    /\ Distinct(new) /\ Lists!Dropped(p, d) = [p EXCEPT !.lists[d.group] = new]
                    /\ IF d.after THEN Lists!Beside(new, d.target, d.call) ELSE Lists!Beside(new, d.call, d.target)
<1> DEFINE list == p.lists[d.group]
           free == Lists!Only(Lists!Displayed(p, "order"), {c \in Calls \ {d.call} : ~Lists!Pinned(p, c)})
           fixed == d.group = "order" /\ Lists!Pinned(p, d.target)
           held == d.group = "order" /\ Lists!Pinned(p, d.call)
           to == IF fixed THEN (IF free = <<>> THEN None ELSE free[1]) ELSE d.target
           after == ~fixed /\ d.after
           last == Append(Lists!Without(list, d.call), d.call)
           moved == Lists!Moved(list, d.call, to, after)
           there == Lists!Contains(list, d.call) /\ Lists!Contains(list, to)
<1>1. Lists!Dropped(p, d) =
        CASE held -> p
          [] ~held /\ to = None -> [p EXCEPT !.lists[d.group] = last]
          [] OTHER -> IF there THEN [p EXCEPT !.lists[d.group] = moved] ELSE p
  BY DEF Lists!Dropped
<1>2. /\ d.group \in Lists!Groups /\ d.call \in Calls /\ d.target \in Calls \cup {None} /\ d.after \in BOOLEAN
      /\ list \in Seq(Calls) /\ Distinct(list)
  BY DEF RowDrag, SoundPage, Raw, Page
<1>3. to \in Calls \cup {None} /\ to # d.call
  <2>1. "order" \in Lists!Groups
    BY DEF Lists!Groups
  <2>2. Lists!Displayed(p, "order") \in Seq(Calls)
    BY <2>1, DisplayedIs
  <2> DEFINE S == {c \in Calls \ {d.call} : ~Lists!Pinned(p, c)}
  <2>3. S \subseteq Calls \ {d.call}
    OBVIOUS
  <2> HIDE DEF S
  <2>4. Lists!Only(Lists!Displayed(p, "order"), S) \in Seq(Calls)
        /\ Lists!ToSet(Lists!Only(Lists!Displayed(p, "order"), S)) = Lists!ToSet(Lists!Displayed(p, "order")) \cap S
    BY <2>2, OnlyKeeps
  <2>5. free \in Seq(Calls) /\ Lists!ToSet(free) \subseteq Calls \ {d.call}
    BY <2>3, <2>4 DEF S
  <2> HIDE DEF free
  <2>6. ASSUME free # <<>> PROVE free[1] \in Calls \ {d.call}
    <3>1. 1 \in DOMAIN free
      BY <2>5, <2>6
    <3> QED
      BY <2>5, <3>1 DEF Lists!ToSet
  <2> QED
    BY <1>2, <2>6, ListFilesBounds
<1> HIDE DEF free, to
<1>4. last \in Seq(Calls) /\ Distinct(last)
  BY <1>2, AppendedIs
<1>5. ASSUME there, to # None
      PROVE  /\ moved \in Seq(Calls) /\ Distinct(moved)
             /\ IF after THEN Lists!Beside(moved, to, d.call) ELSE Lists!Beside(moved, d.call, to)
  <2>1. to \in Calls /\ to \in Lists!ToSet(list) /\ after \in BOOLEAN
    BY <1>2, <1>3, <1>5 DEF Lists!Contains, Lists!ToSet
  <2> QED
    BY <1>2, <1>3, <2>1, RowMovedIs
<1>6. ASSUME {d.call, d.target} \subseteq Lists!Shown(p, d.group), ~Lists!Pinned(p, d.call), ~Lists!Pinned(p, d.target)
      PROVE  there /\ ~held /\ to = d.target /\ to # None /\ after = d.after
  <2>1. ~fixed /\ to = d.target
    BY <1>6 DEF to
  <2>2. \A c \in Lists!Shown(p, d.group) : Lists!Contains(list, c)
    <3>1. Lists!Shown(p, d.group) \subseteq Lists!ToSet(list)
      BY <1>2 DEF SoundPage
    <3> QED
      BY <1>2, <3>1 DEF Lists!ToSet, Lists!Contains
  <2>3. d.target \in Calls /\ None \notin Calls
    BY <1>6, ShownAre, ListFilesBounds
  <2> QED
    BY <1>2, <1>6, <2>1, <2>2, <2>3
<1> HIDE DEF list, fixed, held, after, last, moved, there
<1>7. CASE held
  BY <1>1, <1>6, <1>7
<1>8. CASE ~held /\ to = None
  BY <1>1, <1>4, <1>6, <1>8
<1>9. CASE ~held /\ to # None
  <2>1. Lists!Dropped(p, d) = IF there THEN [p EXCEPT !.lists[d.group] = moved] ELSE p
    BY <1>1, <1>9
  <2> QED
    BY <1>5, <1>6, <1>9, <2>1
<1> QED
  BY <1>7, <1>8, <1>9

-----------------------------------------------------------------------------
(* The steps of the page. *)

LEMMA ListStart == Lists!Init => ListInv
<1> SUFFICES ASSUME Lists!Init
             PROVE  ListInv
  OBVIOUS
<1>1. PICK seen \in {s \in [Calls -> Lists!Standings] : s[Nco] = "active"}, touch \in BOOLEAN :
          page = Lists!Rendered([touch |-> touch, seen |-> seen, lists |-> [g \in Lists!Groups |-> <<>>], hidden |-> {},
                                 away |-> {}, guests |-> {}, selected |-> None, pinned |-> None])
  BY DEF Lists!Init
<1> DEFINE p == [touch |-> touch, seen |-> seen, lists |-> [g \in Lists!Groups |-> <<>>], hidden |-> {},
                 away |-> {}, guests |-> {}, selected |-> None, pinned |-> None]
<1>2. Raw(p)
  <2>1. p \in Page
    BY DEF Page
  <2>2. \A g \in Lists!Groups : Distinct(p.lists[g])
    BY DEF Distinct
  <2> QED
    BY <2>1, <2>2 DEF Raw
<1> HIDE DEF p
<1>3. SoundPage(page)
  BY <1>1, <1>2, RenderedSound DEF p
<1> QED
  BY <1>3, ListFilesBounds DEF Lists!Init, ListInv

LEMMA ShowsKept ==
    ASSUME ListInv, NEW p, Raw(p), Lists!Shows(p), cause' \in {"own", "drop", "page"}, events' \in 0..MaxEvents
    PROVE  ListInv'
<1>1. page' = Lists!Rendered(p) /\ rowDrag' = Lists!Rebuilt(Lists!Rendered(p), rowDrag) /\ fix' = fix
  BY DEF Lists!Shows
<1>2. SoundPage(page')
  BY <1>1, RenderedSound
<1>3. rowDrag' = None \/ (rowDrag' \in RowDrag /\ rowDrag'.target # rowDrag'.call)
  <2>1. rowDrag' = rowDrag \/ (rowDrag # None /\ rowDrag' = [rowDrag EXCEPT !.orphan = TRUE])
    BY <1>1 DEF Lists!Rebuilt
  <2>2. CASE rowDrag' = rowDrag
    BY <2>2 DEF ListInv
  <2>3. CASE rowDrag # None /\ rowDrag' = [rowDrag EXCEPT !.orphan = TRUE]
    BY <2>3 DEF ListInv, RowDrag
  <2> QED
    BY <2>1, <2>2, <2>3
<1> QED
  BY <1>1, <1>2, <1>3 DEF ListInv

LEMMA Counted ==
    /\ ListInv /\ Lists!Event => events' \in 0..MaxEvents
    /\ ListInv => events \in 0..MaxEvents /\ page \in Page /\ Raw(page) /\ SoundPage(page)
  BY ListFilesBounds DEF ListInv, Lists!Event, SoundPage, Raw

LEMMA RendersKept ==
    ASSUME ListInv, NEW p, Raw(p), Lists!Renders(p), Lists!Event \/ events' = events
    PROVE  ListInv'
<1>1. Lists!Shows(p) /\ cause' = "own" /\ events' \in 0..MaxEvents
  BY Counted DEF Lists!Renders
<1> QED
  BY <1>1, ShowsKept

\* Most steps render the page and leave the order of the lists to that.
OnlyRenders ==
    \E p : Raw(p) /\ p.lists = page.lists /\ Lists!Renders(p) /\ (Lists!Event \/ events' = events)

LEMMA RefreshRenders == ListInv /\ Lists!Refresh => OnlyRenders
<1> SUFFICES ASSUME ListInv, Lists!Refresh
             PROVE  OnlyRenders
  OBVIOUS
<1>1. PICK a \in Calls \ {Nco}, b \in Calls \ {Nco}, x \in Lists!Standings, y \in Lists!Standings :
          Lists!Renders(Lists!Observed(page, [page.seen EXCEPT ![a] = x, ![b] = y]))
  BY DEF Lists!Refresh
<1> DEFINE now == [page.seen EXCEPT ![a] = x, ![b] = y]
           p == Lists!Observed(page, now)
<1>2. Raw(page) /\ page \in Page
  BY Counted
<1>3. now \in [Calls -> Lists!Standings]
  BY <1>2 DEF Page
<1> HIDE DEF now
<1>4. /\ p \in Page /\ p.lists = page.lists
      /\ p.selected # None => p.seen[p.selected] = "active"
  BY <1>2, <1>3 DEF Lists!Observed, Page
<1>5. Raw(p)
  BY <1>2, <1>4 DEF Raw
<1>6. Lists!Event
  BY DEF Lists!Refresh
<1> HIDE DEF p
<1>7. Lists!Renders(p)
  BY <1>1 DEF p, now
<1> QED
  BY <1>4, <1>5, <1>6, <1>7 DEF OnlyRenders

LEMMA SnapshotKept == ListInv /\ Lists!Snapshot => ListInv'
<1> SUFFICES ASSUME ListInv, Lists!Snapshot
             PROVE  ListInv'
  OBVIOUS
<1> DEFINE P(order, c, chosen) ==
             [page EXCEPT !.lists["order"] = order,
                          !.hidden = IF Lists!Special(c) THEN @ ELSE IF c \in @ THEN @ \ {c} ELSE @ \cup {c},
                          !.selected = chosen]
<1>1. PICK order \in Lists!Orders, c \in Calls, chosen \in {a \in Calls : page.seen[a] = "active"} \cup {None} :
          Lists!Shows(P(order, c, chosen))
  BY DEF Lists!Snapshot
<1> DEFINE p == P(order, c, chosen)
<1>2. Raw(page) /\ page \in Page
  BY Counted
<1>3. order \in Seq(Calls) /\ Distinct(order)
  BY OrdersAre
<1>4. /\ p \in Page /\ p.seen = page.seen /\ p.selected = chosen
      /\ p.lists = [page.lists EXCEPT !["order"] = order]
  BY <1>2, <1>3 DEF Page, Lists!Groups
<1>5. Raw(p)
  <2>1. \A g \in Lists!Groups : Distinct(p.lists[g])
    BY <1>2, <1>3, <1>4 DEF Raw, Page
  <2> QED
    BY <1>4, <2>1 DEF Raw
<1>6. cause' = "page" /\ events' \in 0..MaxEvents
  BY Counted DEF Lists!Snapshot
<1>7. Lists!Shows(p)
  BY <1>1
<1> HIDE DEF p
<1> QED
  BY <1>5, <1>6, <1>7, ShowsKept

LEMMA RowRenders ==
    ASSUME ListInv, NEW c \in Calls, Lists!Hide(c) \/ Lists!Restore(c) \/ Lists!Guest(c) \/ Lists!OpenActions(c)
    PROVE  OnlyRenders
<1>1. Raw(page) /\ page \in Page
  BY Counted
<1>2. CASE Lists!Hide(c)
  <2> DEFINE p == [page EXCEPT !.hidden = @ \cup {c}]
  <2>1. Raw(p) /\ p.lists = page.lists
    BY <1>1 DEF Raw, Page
  <2> HIDE DEF p
  <2>2. Lists!Event /\ Lists!Renders(p)
    BY <1>2 DEF Lists!Hide, p
  <2> QED
    BY <2>1, <2>2 DEF OnlyRenders
<1>3. CASE Lists!Restore(c)
  <2> DEFINE p == [page EXCEPT !.hidden = @ \ {c}, !.away = @ \ {c}]
  <2>1. Raw(p) /\ p.lists = page.lists
    BY <1>1 DEF Raw, Page
  <2>2. Lists!Event /\ Lists!Renders(p)
    BY <1>3 DEF Lists!Restore
  <2> HIDE DEF p
  <2> QED
    BY <2>1, <2>2 DEF OnlyRenders
<1>4. CASE Lists!Guest(c)
  <2> DEFINE p == [page EXCEPT !.guests = IF c \in @ THEN @ \ {c} ELSE @ \cup {c}]
  <2>1. Raw(p) /\ p.lists = page.lists
    BY <1>1 DEF Raw, Page
  <2>2. Lists!Event /\ Lists!Renders(p)
    BY <1>4 DEF Lists!Guest
  <2> HIDE DEF p
  <2> QED
    BY <2>1, <2>2 DEF OnlyRenders
<1>5. CASE Lists!OpenActions(c)
  <2> DEFINE p == [page EXCEPT !.pinned = Lists!Toggled(@, c)]
  <2>1. Raw(p) /\ p.lists = page.lists
    BY <1>1 DEF Raw, Page, Lists!Toggled
  <2>2. Lists!Event /\ Lists!Renders(p)
    BY <1>5 DEF Lists!OpenActions
  <2> HIDE DEF p
  <2> QED
    BY <2>1, <2>2 DEF OnlyRenders
<1> QED
  BY <1>2, <1>3, <1>4, <1>5

LEMMA CloseActionsRenders == ListInv /\ Lists!CloseActions => OnlyRenders
<1> SUFFICES ASSUME ListInv, Lists!CloseActions
             PROVE  OnlyRenders
  OBVIOUS
<1> DEFINE p == [page EXCEPT !.pinned = None]
<1>1. Raw(p) /\ p.lists = page.lists
  BY Counted DEF Raw, Page
<1>2. Lists!Renders(p) /\ events' = events
  BY DEF Lists!CloseActions
<1> HIDE DEF p
<1> QED
  BY <1>1, <1>2 DEF OnlyRenders

\* A click leaves the choice of a station that is active, or none.
LEMMA ClickRowIs ==
    ASSUME ListInv, NEW c \in Calls, Lists!ClickRow(c)
    PROVE  OnlyRenders \/ (ListInv' /\ page'.lists = page.lists)
<1> DEFINE active == page.seen[c] = "active"
           open == page.touch /\ page.pinned = c
           p == IF page.pinned # c THEN [page EXCEPT !.pinned = None] ELSE page
           closed == [page EXCEPT !.pinned = None]
           chosen == [p EXCEPT !.selected = Lists!Toggled(@, c)]
           other == [page EXCEPT !.pinned = Lists!Toggled(@, c)]
<1>1. Raw(page) /\ page \in Page /\ SoundPage(page)
  BY Counted
<1>2. Lists!Event
  BY DEF Lists!ClickRow
<1>3. \/ Lists!Renders(closed)
      \/ active /\ Lists!Renders(chosen)
      \/ page' = p /\ cause' = "own" /\ UNCHANGED <<rowDrag, fix>>
      \/ Lists!Renders(other)
  BY DEF Lists!ClickRow
<1>4. Raw(closed) /\ Raw(other) /\ closed.lists = page.lists /\ other.lists = page.lists
  BY <1>1 DEF Raw, Page, Lists!Toggled
<1>5. Raw(p) /\ p.lists = page.lists
  BY <1>1 DEF Raw, Page
<1>6. SoundPage(p)
  <2>1. /\ p.seen = page.seen /\ p.hidden = page.hidden /\ p.lists = page.lists
        /\ p.pinned = page.pinned \/ p.pinned = None
    BY <1>1 DEF Page
  <2> HIDE DEF p
  <2> QED
    BY <1>1, <1>5, <2>1 DEF SoundPage, Lists!Shown, Lists!Row
<1>7. ASSUME active PROVE Raw(chosen) /\ chosen.lists = page.lists
  <2>1. p.seen = page.seen /\ p \in Page
    BY <1>1, <1>5 DEF Page, Raw
  <2> HIDE DEF p
  <2> QED
    BY <1>5, <1>7, <2>1 DEF Raw, Page, Lists!Toggled
<1> HIDE DEF p, closed, chosen, other, active
<1>8. CASE page' = p /\ cause' = "own" /\ UNCHANGED <<rowDrag, fix>>
  BY <1>2, <1>5, <1>6, <1>8, Counted DEF ListInv
<1> QED
  BY <1>2, <1>3, <1>4, <1>7, <1>8 DEF OnlyRenders

\* The station before or after the selected one is one of the rows of the active.
LEMMA MoveSelectedRenders ==
    ASSUME ListInv, NEW direction \in {-1, 1}, Lists!MoveSelected(direction)
    PROVE  OnlyRenders
<1> DEFINE rows == Lists!Without(Lists!Displayed(page, "order"), Nco)
<1>1. Raw(page) /\ page \in Page /\ SoundPage(page)
  BY Counted
<1>2. PICK to \in DOMAIN rows : Lists!Renders([page EXCEPT !.selected = rows[to]])
  BY DEF Lists!MoveSelected
<1>3. rows[to] \in Calls /\ page.seen[rows[to]] = "active"
  <2>1. "order" \in Lists!Groups
    BY DEF Lists!Groups
  <2>2. Lists!Displayed(page, "order") \in Seq(Calls)
        /\ Lists!ToSet(Lists!Displayed(page, "order")) = Lists!Shown(page, "order")
    BY <1>1, <2>1, DisplayedIs
  <2>3. Lists!ToSet(rows) = Lists!ToSet(Lists!Displayed(page, "order")) \cap (Calls \ {Nco})
    BY <2>2, OnlyKeeps DEF Lists!Without
  <2>4. rows[to] \in Lists!Shown(page, "order")
    BY <2>2, <2>3 DEF Lists!ToSet
  <2> QED
    BY <2>4, ActiveGroup DEF Lists!Shown
<1> DEFINE who == rows[to]
           p == [page EXCEPT !.selected = who]
<1> HIDE DEF rows
<1>4. Raw(p) /\ p.lists = page.lists
  <2> HIDE DEF who
  <2> QED
    BY <1>1, <1>3 DEF Raw, Page, who
<1>5. Lists!Event
  BY DEF Lists!MoveSelected
<1>6. Lists!Renders(p)
  BY <1>2
<1> HIDE DEF p
<1> QED
  BY <1>4, <1>5, <1>6 DEF OnlyRenders

\* A list in which a callsign was replaced.
Renamed(list) == Lists!Once([i \in DOMAIN list |-> IF list[i] = fix[1] THEN fix[2] ELSE list[i]])

LEMMA RenamedIs ==
    ASSUME fix \in Calls \X Calls, NEW list \in Seq(Calls), Distinct(list)
    PROVE  /\ Renamed(list) \in Seq(Calls) /\ Distinct(Renamed(list))
           /\ \A a, b \in Calls \ {fix[1], fix[2]} : Lists!Before(list, a, b) => Lists!Before(Renamed(list), a, b)
<1> DEFINE t == [i \in DOMAIN list |-> IF list[i] = fix[1] THEN fix[2] ELSE list[i]]
<1>1. /\ t \in Seq(Calls) /\ DOMAIN t = DOMAIN list
      /\ \A i \in DOMAIN t : t[i] = IF list[i] = fix[1] THEN fix[2] ELSE list[i]
  <2>1. DOMAIN list = 1..Len(list) /\ Len(list) \in Nat /\ fix[1] \in Calls /\ fix[2] \in Calls
    OBVIOUS
  <2> QED
    BY <2>1
<1>2. Renamed(list) = Lists!Once(t)
  BY DEF Renamed
<1> HIDE DEF t
<1>3. /\ Lists!Once(t) \in Seq(Calls) /\ Distinct(Lists!Once(t))
      /\ \A i, j \in DOMAIN t :
            /\ i < j
            /\ \A k \in DOMAIN t : (t[k] = t[i] => k = i) /\ (t[k] = t[j] => k = j)
            => Lists!Before(Lists!Once(t), t[i], t[j])
  BY <1>1, OnceKeeps
<1>4. ASSUME NEW a \in Calls \ {fix[1], fix[2]}, NEW b \in Calls \ {fix[1], fix[2]}, Lists!Before(list, a, b)
      PROVE  Lists!Before(Lists!Once(t), a, b)
  <2>1. PICK i \in DOMAIN list, j \in DOMAIN list : i < j /\ list[i] = a /\ list[j] = b
    BY <1>4 DEF Lists!Before
  <2>2. t[i] = a /\ t[j] = b
    BY <1>1, <2>1
  <2>3. \A k \in DOMAIN t : (t[k] = a => k = i) /\ (t[k] = b => k = j)
    BY <1>1, <2>1 DEF Distinct
  <2> QED
    BY <1>1, <1>3, <2>1, <2>2, <2>3
<1> QED
  BY <1>2, <1>3, <1>4

LEMMA CorrectedIs ==
    ASSUME ListInv, Lists!Corrected
    PROVE  /\ fix \in Calls \X Calls
           /\ rowDrag' = Lists!Rebuilt(page', rowDrag) /\ fix' = None /\ cause' = "own" /\ UNCHANGED events
           /\ \/ page' = page
              \/ \E p : /\ Raw(p) /\ page' = Lists!Rendered(p)
                        /\ p.seen = page.seen /\ p.hidden = page.hidden \ {fix[1], fix[2]}
                        /\ p.lists = [g \in Lists!Groups |-> Renamed(page.lists[g])]
<1> DEFINE lists == [g \in Lists!Groups |-> Renamed(page.lists[g])]
           p == [page EXCEPT !.hidden = @ \ {fix[1], fix[2]}, !.lists = lists]
<1>1. fix \in Calls \X Calls /\ rowDrag' = Lists!Rebuilt(page', rowDrag) /\ fix' = None /\ cause' = "own"
      /\ UNCHANGED events
  BY DEF Lists!Corrected, ListInv
<1>2. page' = page \/ page' = Lists!Rendered(p)
  BY DEF Lists!Corrected, Renamed
<1>3. Raw(page) /\ page \in Page
  BY Counted
<1>4. \A g \in Lists!Groups : Renamed(page.lists[g]) \in Seq(Calls) /\ Distinct(Renamed(page.lists[g]))
  BY <1>1, <1>3, RenamedIs DEF Raw, Page
<1>5. lists \in [Lists!Groups -> Seq(Calls)] /\ \A g \in Lists!Groups : Distinct(lists[g])
  BY <1>4
<1> HIDE DEF lists
<1>6. p.seen = page.seen /\ p.hidden = page.hidden \ {fix[1], fix[2]} /\ p.lists = lists /\ p \in Page
  BY <1>3, <1>5 DEF Page
<1>7. p.selected = page.selected
  BY <1>3 DEF Page
<1> HIDE DEF p
<1>8. Raw(p)
  BY <1>3, <1>5, <1>6, <1>7 DEF Raw
<1> QED
  BY <1>1, <1>2, <1>6, <1>8 DEF lists

LEMMA CorrectedKept == ListInv /\ Lists!Corrected => ListInv'
<1> SUFFICES ASSUME ListInv, Lists!Corrected
             PROVE  ListInv'
  OBVIOUS
<1>1. SoundPage(page')
  BY CorrectedIs, RenderedSound, Counted
<1>2. rowDrag' = rowDrag \/ (rowDrag # None /\ rowDrag' = [rowDrag EXCEPT !.orphan = TRUE])
  BY CorrectedIs DEF Lists!Rebuilt
<1>3. rowDrag' = None \/ (rowDrag' \in RowDrag /\ rowDrag'.target # rowDrag'.call)
  <2>1. CASE rowDrag' = rowDrag
    BY <2>1 DEF ListInv
  <2>2. CASE rowDrag # None /\ rowDrag' = [rowDrag EXCEPT !.orphan = TRUE]
    BY <2>2 DEF ListInv, RowDrag
  <2> QED
    BY <1>2, <2>1, <2>2
<1> QED
  BY <1>1, <1>3, CorrectedIs DEF ListInv

LEMMA CorrectKept == ASSUME ListInv, NEW old \in Calls, NEW new \in Calls, Lists!Correct(old, new) PROVE ListInv'
  BY Counted DEF ListInv, Lists!Correct

\* The steps of a drag, before it is dropped and when it is given up.
LEMMA DragKept ==
    ASSUME ListInv,
           \/ \E c \in Calls : Lists!DragStart(c)
           \/ \E c \in Calls, after \in BOOLEAN : Lists!DragOver(c, after)
           \/ Lists!TouchHold \/ Lists!GiveUp \/ Lists!TwoFingers
    PROVE  ListInv'
<1>1. CASE \E c \in Calls : Lists!DragStart(c)
  <2>1. PICK c \in Calls : Lists!DragStart(c)
    BY <1>1
  <2>2. page \in Page /\ SoundPage(page) /\ events' \in 0..MaxEvents
    BY <2>1, Counted DEF Lists!DragStart
  <2>3. Lists!GroupOf(page.seen[c]) \in Lists!Groups
    BY DEF Lists!GroupOf, Lists!Groups
  <2>4. rowDrag' \in RowDrag /\ rowDrag'.target = None /\ rowDrag'.call = c
    BY <2>1, <2>2, <2>3 DEF Lists!DragStart, RowDrag, Page
  <2> QED
    BY <2>1, <2>2, <2>4, ListFilesBounds DEF ListInv, Lists!DragStart
<1>2. CASE \E c \in Calls, after \in BOOLEAN : Lists!DragOver(c, after)
  <2>1. PICK c \in Calls, after \in BOOLEAN : Lists!DragOver(c, after)
    BY <1>2
  <2>2. rowDrag \in RowDrag /\ c # rowDrag.call
    BY <2>1 DEF ListInv, Lists!DragOver, Lists!Dragging
  <2>3. rowDrag' \in RowDrag /\ rowDrag'.target # rowDrag'.call
    BY <2>1, <2>2 DEF Lists!DragOver, RowDrag
  <2> QED
    BY <2>1, <2>3 DEF ListInv, Lists!DragOver
<1>3. CASE Lists!TouchHold
  BY <1>3 DEF ListInv, Lists!TouchHold, Lists!Dragging, RowDrag
<1>4. CASE Lists!GiveUp
  BY <1>4 DEF ListInv, Lists!GiveUp, Lists!Dragging, RowDrag
<1>5. CASE Lists!TwoFingers
  BY <1>5 DEF ListInv, Lists!TwoFingers
<1> QED
  BY <1>1, <1>2, <1>3, <1>4, <1>5

\* A drop is the only step that is called one, and what it drops is rendered.
LEMMA DropIs ==
    ASSUME ListInv, Lists!Drop
    PROVE  /\ rowDrag \in RowDrag /\ rowDrag.target \in Calls /\ rowDrag.target # rowDrag.call
           /\ page' = Lists!Rendered(Lists!Dropped(page, rowDrag)) /\ Raw(Lists!Dropped(page, rowDrag))
<1> DEFINE q == Lists!Dropped(page, rowDrag)
<1>1. rowDrag \in RowDrag /\ rowDrag.target # rowDrag.call /\ rowDrag.target \in Calls /\ page' = Lists!Rendered(q)
  BY DEF Lists!Drop, Lists!Dragging, ListInv, RowDrag
<1>2. SoundPage(page) /\ Raw(page) /\ page \in Page
  BY Counted
<1>3. \/ q = page
      \/ \E new \in Seq(Calls) : Distinct(new) /\ q = [page EXCEPT !.lists[rowDrag.group] = new]
  BY <1>1, <1>2, DroppedIs
<1> HIDE DEF q
<1>4. ASSUME NEW new \in Seq(Calls), Distinct(new), q = [page EXCEPT !.lists[rowDrag.group] = new]
      PROVE  Raw(q)
  <2>1. rowDrag.group \in Lists!Groups
    BY <1>1 DEF RowDrag
  <2>2. /\ q \in Page /\ q.seen = page.seen /\ q.selected = page.selected
        /\ q.lists = [page.lists EXCEPT ![rowDrag.group] = new]
    BY <1>2, <1>4, <2>1 DEF Page
  <2>3. \A g \in Lists!Groups : Distinct(q.lists[g])
    BY <1>2, <1>4, <2>1, <2>2 DEF Raw, Page
  <2> QED
    BY <1>2, <2>2, <2>3 DEF Raw
<1> QED
  BY <1>1, <1>2, <1>3, <1>4 DEF q

LEMMA DropKept == ListInv /\ Lists!Drop => ListInv'
<1> SUFFICES ASSUME ListInv, Lists!Drop
             PROVE  ListInv'
  OBVIOUS
<1>1. SoundPage(page')
  BY DropIs, RenderedSound
<1>2. \/ rowDrag' = [rowDrag EXCEPT !.live = FALSE, !.orphan = TRUE]
      \/ rowDrag' = None
  BY DEF Lists!Drop
<1>3. rowDrag' = None \/ (rowDrag' \in RowDrag /\ rowDrag'.target # rowDrag'.call)
  BY <1>2, DropIs DEF RowDrag
<1> QED
  BY <1>1, <1>3 DEF ListInv, Lists!Drop

LEMMA StepsAre ==
    ListInv /\ Lists!Next =>
        \/ OnlyRenders
        \/ Lists!Snapshot \/ Lists!Corrected \/ Lists!Drop
        \/ ListInv' /\ page'.lists = page.lists
<1> SUFFICES ASSUME ListInv, Lists!Next, ~Lists!Snapshot, ~Lists!Corrected, ~Lists!Drop
             PROVE  OnlyRenders \/ (ListInv' /\ page'.lists = page.lists)
  OBVIOUS
<1>1. CASE Lists!Refresh \/ Lists!CloseActions
  BY <1>1, RefreshRenders, CloseActionsRenders
<1>2. ASSUME NEW c \in Calls, Lists!Hide(c) \/ Lists!Restore(c) \/ Lists!Guest(c) \/ Lists!OpenActions(c)
      PROVE  OnlyRenders
  BY <1>2, RowRenders
<1>3. ASSUME NEW c \in Calls, Lists!ClickRow(c)
      PROVE  OnlyRenders \/ (ListInv' /\ page'.lists = page.lists)
  BY <1>3, ClickRowIs
<1>4. ASSUME NEW direction \in {-1, 1}, Lists!MoveSelected(direction)
      PROVE  OnlyRenders
  BY <1>4, MoveSelectedRenders
<1>5. ASSUME NEW old \in Calls, NEW new \in Calls, Lists!Correct(old, new)
      PROVE  ListInv' /\ page'.lists = page.lists
  BY <1>5, CorrectKept DEF Lists!Correct
<1>6. ASSUME NEW c \in Calls, Lists!DragStart(c)
      PROVE  ListInv' /\ page'.lists = page.lists
  BY <1>6, DragKept DEF Lists!DragStart
<1>7. ASSUME NEW c \in Calls, NEW after \in BOOLEAN, Lists!DragOver(c, after)
      PROVE  ListInv' /\ page'.lists = page.lists
  BY <1>7, DragKept DEF Lists!DragOver
<1>8. CASE Lists!TouchHold \/ Lists!GiveUp \/ Lists!TwoFingers
  BY <1>8, DragKept DEF Lists!TouchHold, Lists!GiveUp, Lists!TwoFingers
<1> QED
  BY <1>1, <1>2, <1>3, <1>4, <1>5, <1>6, <1>7, <1>8 DEF Lists!Next

LEMMA ListKept == ListInv /\ [Lists!Next]_listVars => ListInv'
<1> SUFFICES ASSUME ListInv, [Lists!Next]_listVars
             PROVE  ListInv'
  OBVIOUS
<1>1. CASE UNCHANGED listVars
  BY <1>1 DEF listVars, ListInv
<1>2. CASE Lists!Next
  <2>1. CASE OnlyRenders
    BY <2>1, RendersKept DEF OnlyRenders
  <2>2. CASE Lists!Snapshot \/ Lists!Corrected \/ Lists!Drop \/ ListInv'
    BY <2>2, SnapshotKept, CorrectedKept, DropKept
  <2> QED
    BY <1>2, <2>1, <2>2, StepsAre
<1> QED
  BY <1>1, <1>2

LEMMA LandsThere == ListInv /\ [Lists!Next]_listVars =>
    (cause' = "drop" /\ rowDrag # None /\ rowDrag' # rowDrag
     /\ {rowDrag.call, rowDrag.target} \subseteq Lists!Shown(page, rowDrag.group)
     /\ ~Lists!Pinned(page, rowDrag.call) /\ ~Lists!Pinned(page, rowDrag.target)
        => LET rows == Lists!Displayed(page', rowDrag.group)
           IN  IF rowDrag.after THEN Lists!Beside(rows, rowDrag.target, rowDrag.call)
               ELSE Lists!Beside(rows, rowDrag.call, rowDrag.target))
<1> SUFFICES ASSUME ListInv, [Lists!Next]_listVars, cause' = "drop", rowDrag # None, rowDrag' # rowDrag,
                    {rowDrag.call, rowDrag.target} \subseteq Lists!Shown(page, rowDrag.group),
                    ~Lists!Pinned(page, rowDrag.call), ~Lists!Pinned(page, rowDrag.target)
             PROVE  IF rowDrag.after THEN Lists!Beside(Lists!Displayed(page', rowDrag.group), rowDrag.target, rowDrag.call)
                    ELSE Lists!Beside(Lists!Displayed(page', rowDrag.group), rowDrag.call, rowDrag.target)
  OBVIOUS
<1>1. Lists!Drop
  BY DEF listVars, Lists!Next, Lists!Refresh, Lists!Snapshot, Lists!Renders, Lists!Hide, Lists!Restore, Lists!Guest,
         Lists!ClickRow, Lists!OpenActions, Lists!DragStart, Lists!Correct, Lists!Corrected, Lists!MoveSelected,
         Lists!DragOver, Lists!CloseActions, Lists!TouchHold, Lists!GiveUp, Lists!TwoFingers
<1> DEFINE g == rowDrag.group
           call == rowDrag.call
           on == rowDrag.target
           q == Lists!Dropped(page, rowDrag)
           side(s) == IF rowDrag.after THEN Lists!Beside(s, on, call) ELSE Lists!Beside(s, call, on)
<1>2. /\ rowDrag \in RowDrag /\ on # call /\ page' = Lists!Rendered(q) /\ Raw(q) /\ g \in Lists!Groups
      /\ SoundPage(page) /\ page \in Page /\ q \in Page
  BY <1>1, DropIs, Counted DEF RowDrag, Raw
<1>3. PICK new \in Seq(Calls) : q = [page EXCEPT !.lists[g] = new] /\ side(new)
  BY <1>2, DroppedIs
<1>4. q.lists[g] = new /\ q.seen = page.seen /\ q.hidden = page.hidden /\ q.guests = page.guests
  BY <1>2, <1>3 DEF Page
<1> HIDE DEF q
<1>5. page'.lists[g] = Lists!Ordered(q, g) /\ page'.seen = page.seen /\ page'.hidden = page.hidden
      /\ page'.guests = page.guests
  <2>1. /\ page'.lists = [h \in Lists!Groups |-> Lists!Ordered(q, h)]
        /\ page'.seen = q.seen /\ page'.hidden = q.hidden /\ page'.guests = q.guests
    BY <1>2, RenderedIs
  <2> QED
    BY <1>2, <1>4, <2>1
<1>6. /\ Lists!Shown(q, g) = Lists!Shown(page, g) /\ Lists!Shown(page', g) = Lists!Shown(page, g)
      /\ \A c : Lists!Pinned(page', c) <=> Lists!Pinned(page, c)
  BY <1>4, <1>5 DEF Lists!Shown, Lists!Pinned
<1>7. SoundPage(page')
  BY <1>2, RenderedSound
<1>8. side(page'.lists[g])
  BY <1>2, <1>3, <1>4, <1>5, <1>6, OrderedIs
<1>9. side(Lists!Displayed(page', g))
  BY <1>2, <1>6, <1>7, <1>8, DisplayedIs
<1> QED
  BY <1>9

LEMMA OrderStays == ListInv /\ [Lists!Next]_listVars =>
    (cause' = "own" /\ page'.lists # page.lists =>
        \A g \in Lists!Groups :
        \A a, b \in {c \in page.hidden \cup Lists!Shown(page, g) : c \in page'.hidden \cup Lists!Shown(page', g)} :
            (fix # None => {a, b} \cap {fix[1], fix[2]} = {}) /\ Lists!Before(page.lists[g], a, b)
                => Lists!Before(page'.lists[g], a, b))
<1> SUFFICES ASSUME ListInv, [Lists!Next]_listVars, cause' = "own", page'.lists # page.lists,
                    NEW g \in Lists!Groups,
                    NEW a \in page'.hidden \cup Lists!Shown(page', g),
                    NEW b \in page'.hidden \cup Lists!Shown(page', g),
                    fix # None => {a, b} \cap {fix[1], fix[2]} = {},
                    Lists!Before(page.lists[g], a, b)
             PROVE  Lists!Before(page'.lists[g], a, b)
  OBVIOUS
<1>1. SoundPage(page) /\ Raw(page) /\ page \in Page
  BY Counted
<1>2. ASSUME NEW p, Raw(p), page' = Lists!Rendered(p), Lists!Before(p.lists[g], a, b)
      PROVE  Lists!Before(page'.lists[g], a, b)
  <2>1. p \in Page
    BY <1>2 DEF Raw
  <2>2. page'.lists[g] = Lists!Ordered(p, g) /\ page'.seen = p.seen /\ page'.hidden = p.hidden
    BY <1>2, <2>1, RenderedIs
  <2>3. Lists!Shown(page', g) = Lists!Shown(p, g)
    BY <2>2 DEF Lists!Shown
  <2> QED
    BY <1>2, <2>2, <2>3, OrderedIs
<1>3. CASE Lists!Corrected
  <2>1. fix \in Calls \X Calls
    BY <1>3, CorrectedIs
  <2>2. PICK p : /\ Raw(p) /\ page' = Lists!Rendered(p)
                 /\ p.lists = [h \in Lists!Groups |-> Renamed(page.lists[h])]
    BY <1>3, CorrectedIs
  <2>3. fix # None
    BY <1>3 DEF Lists!Corrected
  <2>4. page.lists[g] \in Seq(Calls) /\ Distinct(page.lists[g])
    BY <1>1 DEF Raw, Page
  <2>5. a \in Calls \ {fix[1], fix[2]} /\ b \in Calls \ {fix[1], fix[2]}
    <3>1. page' \in Page
      BY <2>2, RenderedSound DEF SoundPage, Raw
    <3> QED
      BY <2>3, <3>1, ShownAre DEF Page
  <2>6. Lists!Before(Renamed(page.lists[g]), a, b)
    BY <2>1, <2>4, <2>5, RenamedIs
  <2> QED
    BY <1>2, <2>2, <2>6
<1>4. ASSUME NEW p, Raw(p), p.lists = page.lists, Lists!Renders(p)
      PROVE  Lists!Before(page'.lists[g], a, b)
  BY <1>2, <1>4 DEF Lists!Renders, Lists!Shows
<1>5. Lists!Next
  BY DEF listVars
<1>6. ~Lists!Snapshot /\ ~Lists!Drop
  BY DEF Lists!Snapshot, Lists!Drop
<1> QED
  BY <1>3, <1>4, <1>5, <1>6, StepsAre DEF OnlyRenders

-----------------------------------------------------------------------------
(* The parts side by side. *)

\* A step of the whole is one of each part, or leaves it alone.
LEMMA PartSteps ==
    ASSUME [AllNext]_allVars
    PROVE  [Next]_vars /\ [Lists!Next]_listVars /\ [Backups!Next]_Backups!vars
  BY DEF AllNext, allVars, BackupStep, ListStep, LayoutStep, backupVars, Backups!vars

LEMMA PartsKept ==
    /\ AllInit => BackupInv /\ ListInv /\ PanelsInv
    /\ BackupInv /\ ListInv /\ PanelsInv /\ [AllNext]_allVars => BackupInv' /\ ListInv' /\ PanelsInv'
<1>1. AllInit => BackupInv /\ ListInv /\ PanelsInv
  BY BackupStart, ListStart, PanelsStart, PartsAssumption DEF AllInit
<1> QED
  BY <1>1, PartSteps, BackupKept, ListKept, PanelsKept, PartsAssumption

\* Whatever is killed, fails, is pruned or written meanwhile: an archive beside a manifest is complete,
\* every image that is still shown comes with the message that names it, and a restore that ends well
\* brings back both (cmdBackup, cmdRestore, cmdPrune).
THEOREM BackupsComplete == AllSpec => []BackupsRestore
<1> QED
  BY PartsKept, BackupSound, PTL DEF AllSpec, BackupsRestore

\* Once there is a complete backup there always is one: what is pruned is old, and the backup just made
\* is not; a backup that fails takes only its own files with it (backup-scheduler.sh, cmdPrune).
THEOREM RestorableForEver == AllSpec => AlwaysRestorable
<1>1. BackupInv /\ [AllNext]_allVars
        => ((\E n \in Backups!Names : Backups!Complete(n)) => (\E n \in Backups!Names : Backups!Complete(n))')
  BY PartSteps, StaysRestorable
<1> QED
  BY <1>1, PartsKept, PTL DEF AllSpec, AlwaysRestorable, Backups!AlwaysRestorable

\* Whatever comes, goes, is hidden, dragged, corrected or taken over from another page, and whatever is backed up
\* or moved about meanwhile: every station that is shown has one row, in the list of its standing, the selected one is
\* active, open actions are those of a row, and lists, panels and backups are well typed (ordered, moveDragged,
\* replaceCallInLocalLists, observeStationTransitions; normalizeModuleLayout).
THEOREM ListsSound == AllSpec => []ListsAgree
<1>1. BackupInv /\ ListInv /\ PanelsInv => ListsAgree
  BY BackupTyped, ListsAreSound, LayoutTyped DEF ListsAgree, PanelsInv
<1> QED
  BY <1>1, PartsKept, PTL DEF AllSpec

\* A dropped row lands where its mark showed, whatever has changed since it was taken; and no other step of the page
\* but another page's order moves two stations past each other that stay on a list (moveDragged, ordered).
THEOREM RowsKept == AllSpec => RowsKeepTheirPlaces
<1>1. ASSUME ListInv, [AllNext]_allVars
      PROVE  [Lists!Next]_listVars /\ (UNCHANGED listVars <=> UNCHANGED Lists!vars)
  BY <1>1 DEF AllNext, allVars, BackupStep, ListStep, LayoutStep, listVars, Lists!vars
<1>2. ListInv /\ [AllNext]_allVars =>
        [cause' = "drop" /\ rowDrag # None /\ rowDrag' # rowDrag
         /\ {rowDrag.call, rowDrag.target} \subseteq Lists!Shown(page, rowDrag.group)
         /\ ~Lists!Pinned(page, rowDrag.call) /\ ~Lists!Pinned(page, rowDrag.target)
            => LET rows == Lists!Displayed(page', rowDrag.group)
               IN  IF rowDrag.after THEN Lists!Beside(rows, rowDrag.target, rowDrag.call)
                   ELSE Lists!Beside(rows, rowDrag.call, rowDrag.target)]_Lists!vars
  BY <1>1, LandsThere
<1>3. ListInv /\ [AllNext]_allVars =>
        [cause' = "own" /\ page'.lists # page.lists =>
            \A g \in Lists!Groups :
            \A a, b \in {c \in page.hidden \cup Lists!Shown(page, g) : c \in page'.hidden \cup Lists!Shown(page', g)} :
                (fix # None => {a, b} \cap {fix[1], fix[2]} = {}) /\ Lists!Before(page.lists[g], a, b)
                    => Lists!Before(page'.lists[g], a, b)]_Lists!vars
  BY <1>1, OrderStays
<1>4. AllSpec => Lists!DropLands
  BY <1>2, PartsKept, PTL DEF AllSpec, Lists!DropLands
<1>5. AllSpec => Lists!PlacesKept
  BY <1>3, PartsKept, PTL DEF AllSpec, Lists!PlacesKept
<1> QED
  BY <1>4, <1>5 DEF RowsKeepTheirPlaces

\* What the module's properties say of a step holds of one of the page's panels.
LEMMA PanelSteps ==
    ASSUME PanelsInv, [AllNext]_allVars
    PROVE  /\ [ComesToRest]_vars
           /\ [ctx.screen # "phonePortrait" => StaysClear /\ LeavesOthers]_vars
<1>1. [Next]_vars /\ ScreensAssumption
  BY PartSteps, PartsAssumption
<1>2. ctx.screen # "phonePortrait" => StaysClear /\ LeavesOthers
  BY <1>1, PanelsKept
<1>3. [ComesToRest]_vars
  BY <1>1, PanelsLand DEF PanelsInv
<1> QED
  BY <1>2, <1>3

\* However old the layout it comes from and wherever it is left, by keys, drags, turns or changes of role, every panel
\* comes to rest in the grid, no smaller than it may be (normalizeModuleLayout, restoreModuleLayout).
THEOREM PanelsRest == AllSpec => RestsOnGrid
<1>1. AllInit => \A id \in Modules : Rests(layout, id, ctx)
  BY LayoutStart, RestsIs, PartsAssumption DEF AllInit, Settled
<1> QED
  BY <1>1, PartsKept, PanelSteps, PTL DEF AllSpec, RestsOnGrid

\* On any screen but a phone held upright, nothing the user does to a sound layout covers a panel with another, pushes
\* it off the grid or makes it too small; and whoever moves or resizes a panel leaves the others where they are, but for
\* the one it trades places with and for those that divide the same room (setModuleCollapsed, moveModuleByGrid,
\* resizeModuleBy, dockAtEdge, resizeSharedBoundary).
THEOREM WideScreensStayClear ==
    AllSpec => [][ctx.screen # "phonePortrait" => StaysClear /\ LeavesOthers]_vars
<1> QED
  BY PartsKept, PanelSteps, PTL DEF AllSpec

\* Where no phone is held upright, that is all that is said of the panels.
THEOREM PanelsAreClear ==
    ASSUME "phonePortrait" \notin Screens
    PROVE  AllSpec => PanelsStayClear
<1>1. ASSUME PanelsInv, [AllNext]_allVars PROVE [StaysClear]_vars /\ [LeavesOthers]_vars
  <2>1. ctx.screen # "phonePortrait"
    BY <1>1 DEF PanelsInv, LayoutInv, Contexts
  <2> QED
    BY <1>1, <2>1, PanelSteps
<1>2. AllSpec => EditsStayClear /\ OthersStay
  BY <1>1, PartsKept, PTL DEF AllSpec, EditsStayClear, OthersStay
<1> QED
  BY <1>2, PanelsRest DEF PanelsStayClear
=============================================================================
