--------------------------------- MODULE Backup ---------------------------------
(***************************************************************************)
(* Backups of the database and of the uploaded images, while the           *)
(* application goes on writing both: the scheduler's loop (backup, copy    *)
(* off the host, prune), and the commands an operator gives beside it      *)
(* (restore and migrate).  A program may be killed between any two steps   *)
(* and leaves its files as they are; a step that fails cleans up as the    *)
(* program does.  A file is its content, and equal digests mean equal      *)
(* content; what is being written has another name (.partial) that nothing *)
(* reads, and is left out.                                                 *)
(***************************************************************************)
EXTENDS Integers, Sequences, FiniteSetsExt

CONSTANTS
    Images,         \* uploaded images
    None,           \* no such file
    MaxNames,       \* bound: archives ever begun; a name is the second of its start
    MaxCommands,    \* bound: the operator's commands
    MaxFaults       \* bound: failed steps and killed programs

VARIABLES
    image,      \* what has become of each image: its file and the message that names it
    dir,        \* the files of the backup directory, by archive
    offsite,    \* the files copied to S3
    aged,       \* archives older than the days they are kept
    run,        \* the scheduler: what it does, with which archive, what is left and seen
    command,    \* the operator's command, the same
    target,     \* the database and the upload directory the commands write
    named,      \* names given so far
    commands,   \* commands given so far
    faults

vars == <<image, dir, offsite, aged, run, command, target, named, commands, faults>>

Parts == <<"archive", "uploads", "manifest">>

Names == 1..MaxNames
Dump == [whole : BOOLEAN, images : SUBSET Images, sessions : BOOLEAN]
Manifest == [archive : SUBSET Images, uploads : SUBSET Images]

BackupAssumption ==
    /\ {MaxNames, MaxCommands, MaxFaults} \subseteq Nat
    /\ None \notin Dump \cup Manifest /\ \A S \in SUBSET Images : S # None

NoFiles == [archive |-> None, uploads |-> None, manifest |-> None]

Has(n, part) == dir[n][part] # None

\* A run of the program that has nothing to do.
Idle == [pc |-> "idle", name |-> 0, left |-> {}, seen |-> {}]
Waiting == [pc |-> "idle", kind |-> "none", name |-> 0, files |-> FALSE, drop |-> FALSE, left |-> {}, seen |-> {}]
IsIdle(r) == r.pc = "idle"

Init ==
    /\ image = [i \in Images |-> "none"]
    /\ dir = [n \in Names |-> NoFiles]
    /\ offsite = [n \in Names |-> {}]
    /\ aged = {}
    /\ run = Idle
    /\ command = Waiting
    /\ target = [images |-> {}, sessions |-> FALSE, files |-> {}]
    /\ named = 0
    /\ commands = 0
    /\ faults = 0

Fault == faults < MaxFaults /\ faults' = faults + 1

-----------------------------------------------------------------------------
(* The application. *)

\* Mutation: the message is saved before its image is stored, and blanked before the file goes.
LifeMessageFirst == <<"none", "unlinked", "posted", "filed", "withdrawn">>

\* An image is stored before the message that names it, and its file is removed before the message
\* is blanked (uploadImage, deleteMessage).
Life == <<"none", "filed", "posted", "unlinked", "withdrawn">>

InUploads(i) == image[i] \in {"filed", "posted"}
InDatabase(i) == image[i] \in {"posted", "unlinked"}

Lives(i) ==
    /\ \E k \in 1..(Len(Life) - 1) : image[i] = Life[k] /\ image' = [image EXCEPT ![i] = Life[k + 1]]
    /\ UNCHANGED <<dir, offsite, aged, run, command, target, named, commands, faults>>

\* The message cannot be saved: the file is removed again.
PostFails(i) ==
    /\ image[i] = "filed"
    /\ Fault
    /\ image' = [image EXCEPT ![i] = "withdrawn"]
    /\ UNCHANGED <<dir, offsite, aged, run, command, target, named, commands>>

-----------------------------------------------------------------------------
(* The scheduler: backup, then prune, again and again. *)

\* Reading a collection or a directory takes time: each image is met at a moment of its own.
Met(r, i) == IF r.pc = "packing" THEN InUploads(i) ELSE InDatabase(i)
Read(r, i) == [r EXCEPT !.left = @ \ {i}, !.seen = IF Met(r, i) THEN @ \cup {i} ELSE @]
Reading(r, pc) == [r EXCEPT !.pc = pc, !.left = Images, !.seen = {}]

\* cmdBackup: mongodump writes to a file of another name.
BeginBackup ==
    /\ IsIdle(run) /\ named < MaxNames
    /\ named' = named + 1
    /\ run' = [Reading(run, "dumping") EXCEPT !.name = named + 1]
    /\ UNCHANGED <<image, dir, offsite, aged, command, target, commands, faults>>

Reads ==
    /\ run.pc \in {"dumping", "packing"}
    /\ \E i \in run.left : run' = Read(run, i)
    /\ UNCHANGED <<image, dir, offsite, aged, command, target, named, commands, faults>>

\* The dump is complete and gets its name; sessions and login links are not in it (buildBackupArgs).
Dumped ==
    /\ run.pc = "dumping" /\ run.left = {}
    /\ dir' = [dir EXCEPT ![run.name].archive = [whole |-> TRUE, images |-> run.seen, sessions |-> FALSE]]
    /\ run' = Reading(run, "packing")
    /\ UNCHANGED <<image, offsite, aged, command, target, named, commands, faults>>

\* tar is complete.
Packed ==
    /\ run.pc = "packing" /\ run.left = {}
    /\ dir' = [dir EXCEPT ![run.name].uploads = run.seen]
    /\ run' = [run EXCEPT !.pc = "signing"]
    /\ UNCHANGED <<image, offsite, aged, command, target, named, commands, faults>>

\* The manifest, with the digests of both, comes last.
Signed ==
    /\ run.pc = "signing"
    /\ dir' = [dir EXCEPT ![run.name].manifest =
                   [archive |-> dir[run.name].archive.images, uploads |-> dir[run.name].uploads]]
    /\ run' = [run EXCEPT !.pc = "copying"]
    /\ UNCHANGED <<image, offsite, aged, command, target, named, commands, faults>>

\* Mutation: the loop goes on to prune when a backup has failed.
BackupFailsAndPrunes ==
    /\ run.pc \in {"dumping", "packing", "signing"}
    /\ Fault
    /\ dir' = [dir EXCEPT ![run.name] = NoFiles]
    /\ run' = [run EXCEPT !.pc = "pruning", !.left = {n \in aged : Has(n, "archive")}]
    /\ UNCHANGED <<image, offsite, aged, command, target, named, commands>>

\* A step that fails removes what this backup has written, and the container is started anew.
BackupFails ==
    /\ run.pc \in {"dumping", "packing", "signing"}
    /\ Fault
    /\ dir' = [dir EXCEPT ![run.name] = NoFiles]
    /\ run' = Idle
    /\ UNCHANGED <<image, offsite, aged, command, target, named, commands>>

\* The archive, then its companions; only then does the loop go on to prune.
Copies ==
    /\ run.pc = "copying"
    /\ LET missing == {k \in DOMAIN Parts : Parts[k] \notin offsite[run.name]} IN
       IF missing = {}
       THEN /\ run' = [run EXCEPT !.pc = "pruning", !.left = {n \in aged : Has(n, "archive")}]
            /\ UNCHANGED offsite
       ELSE /\ offsite' = [offsite EXCEPT ![run.name] = @ \cup {Parts[Min(missing)]}]
            /\ UNCHANGED run
    /\ UNCHANGED <<image, dir, aged, command, target, named, commands, faults>>

\* cmdPrune removes one file after the other: an archive before its companions.
Prunes ==
    /\ run.pc = "pruning" /\ run.left # {}
    /\ LET n == Min(run.left)
           present == {k \in DOMAIN Parts : Has(n, Parts[k])}
       IN IF present = {}
          THEN run' = [run EXCEPT !.left = @ \ {n}] /\ UNCHANGED dir
          ELSE dir' = [dir EXCEPT ![n][Parts[Min(present)]] = None] /\ UNCHANGED run
    /\ UNCHANGED <<image, offsite, aged, command, target, named, commands, faults>>

\* Pruned, and some minutes of sleep.
Sleeps ==
    /\ run.pc = "pruning" /\ run.left = {}
    /\ run' = Idle
    /\ UNCHANGED <<image, dir, offsite, aged, command, target, named, commands, faults>>

\* Killed, or a copy that fails: nothing is cleaned up, and the container is started anew.
Killed ==
    /\ ~IsIdle(run)
    /\ Fault
    /\ run' = Idle
    /\ UNCHANGED <<image, dir, offsite, aged, command, target, named, commands>>

\* Days pass.  No run takes a day.
Ages(n) ==
    /\ Has(n, "archive") /\ n \notin aged
    /\ n \notin {run.name, command.name}
    /\ aged' = aged \cup {n}
    /\ UNCHANGED <<image, dir, offsite, run, command, target, named, commands, faults>>

-----------------------------------------------------------------------------
(* The operator's commands. *)

Command == commands < MaxCommands /\ commands' = commands + 1
Ended(outcome) == [Waiting EXCEPT !.pc = outcome, !.kind = command.kind, !.files = command.files,
                                  !.drop = command.drop]
NoCommand == command.pc \in {"idle", "done", "failed"}

\* The manifest names both files and gives the digests they have.
Coordinated(n) ==
    /\ Has(n, "manifest") /\ Has(n, "uploads")
    /\ dir[n].manifest = [archive |-> dir[n].archive.images, uploads |-> dir[n].uploads]

\* cmdRestore: everything is checked before anything is written.
BeginRestore ==
    /\ NoCommand
    /\ Command
    /\ \E n \in Names, files, drop \in BOOLEAN :
          /\ Has(n, "archive")
          /\ files => Coordinated(n) /\ target.files = {}
          /\ command' = [Waiting EXCEPT !.pc = "restoring", !.kind = "restore", !.name = n,
                                        !.files = files, !.drop = drop]
    /\ UNCHANGED <<image, dir, offsite, aged, run, target, named, faults>>

\* What mongorestore makes of the target: documents that are there already stay as they are, and
\* only the collections of the archive are dropped.
Loaded(images, sessions) ==
    [target EXCEPT !.images = images \cup (IF command.drop THEN {} ELSE @),
                   !.sessions = sessions \/ @]

\* mongorestore reads the archive to its end.
Restores ==
    /\ command.pc = "restoring"
    /\ Has(command.name, "archive") /\ dir[command.name].archive.whole
    /\ target' = Loaded(dir[command.name].archive.images, dir[command.name].archive.sessions)
    /\ command' = IF command.files THEN [command EXCEPT !.pc = "unpacking"] ELSE Ended("done")
    /\ UNCHANGED <<image, dir, offsite, aged, run, named, commands, faults>>

\* tar extracts the images.
Unpacks ==
    /\ command.pc = "unpacking"
    /\ Has(command.name, "uploads")
    /\ target' = [target EXCEPT !.files = @ \cup dir[command.name].uploads]
    /\ command' = Ended("done")
    /\ UNCHANGED <<image, dir, offsite, aged, run, named, commands, faults>>

\* The archive has been pruned since, or ends before its end: part of it may have been written.
RestoreFails ==
    /\ \/ /\ command.pc = "restoring"
          /\ Has(command.name, "archive") => ~dir[command.name].archive.whole
       \/ /\ command.pc = "unpacking"
          /\ ~Has(command.name, "uploads")
    /\ command' = Ended("failed")
    /\ UNCHANGED <<image, dir, offsite, aged, run, target, named, commands, faults>>

\* cmdMigrate: mongodump writes all collections to an archive of the same directory at once.
BeginMigrate ==
    /\ NoCommand /\ named < MaxNames
    /\ Command
    /\ named' = named + 1
    /\ \E drop \in BOOLEAN :
          command' = [Reading(Waiting, "dumping") EXCEPT !.kind = "migrate", !.name = named + 1, !.drop = drop]
    /\ dir' = [dir EXCEPT ![named + 1].archive = [whole |-> FALSE, images |-> {}, sessions |-> FALSE]]
    /\ UNCHANGED <<image, offsite, aged, run, target, faults>>

CommandReads ==
    /\ command.pc = "dumping"
    /\ \E i \in command.left : command' = Read(command, i)
    /\ UNCHANGED <<image, dir, offsite, aged, run, target, named, commands, faults>>

MigrationDumped ==
    /\ command.pc = "dumping" /\ command.left = {}
    /\ dir' = [dir EXCEPT ![command.name].archive =
                   [whole |-> TRUE, images |-> command.seen, sessions |-> TRUE]]
    /\ command' = [command EXCEPT !.pc = "restoring", !.seen = {}]
    /\ UNCHANGED <<image, offsite, aged, run, target, named, commands, faults>>

\* The command is killed, or one of its steps fails: what it was writing is there in part.
CommandKilled ==
    /\ ~NoCommand
    /\ Fault
    /\ \/ /\ command.pc = "restoring" /\ Has(command.name, "archive")
          /\ \E got \in SUBSET dir[command.name].archive.images,
                sessions \in {FALSE, dir[command.name].archive.sessions} : target' = Loaded(got, sessions)
       \/ /\ command.pc = "unpacking" /\ Has(command.name, "uploads")
          /\ \E got \in SUBSET dir[command.name].uploads : target' = [target EXCEPT !.files = @ \cup got]
       \/ /\ command.pc = "dumping"
          /\ UNCHANGED target
    /\ command' = Ended("failed")
    /\ UNCHANGED <<image, dir, offsite, aged, run, named, commands>>

-----------------------------------------------------------------------------
Application == \E i \in Images : Lives(i) \/ PostFails(i)

Scheduler ==
    \/ BeginBackup \/ Reads \/ Dumped \/ Packed \/ Signed \/ BackupFails \/ Copies
    \/ Prunes \/ Sleeps \/ Killed
    \/ \E n \in Names : Ages(n)

Operator ==
    \/ BeginRestore \/ Restores \/ Unpacks \/ RestoreFails
    \/ BeginMigrate \/ CommandReads \/ MigrationDumped \/ CommandKilled

Next == Application \/ Scheduler \/ Operator

Spec == Init /\ [][Next]_vars

-----------------------------------------------------------------------------
(* Properties. *)

\* Types of the variables.
TypeOK ==
    /\ image \in [Images -> {Life[k] : k \in DOMAIN Life}]
    /\ \A n \in Names :
          /\ Has(n, "archive") => dir[n].archive \in Dump
          /\ Has(n, "uploads") => dir[n].uploads \in SUBSET Images
          /\ Has(n, "manifest") => dir[n].manifest \in Manifest
    /\ aged \subseteq Names
    /\ offsite \in [Names -> SUBSET {Parts[k] : k \in DOMAIN Parts}]
    /\ run.pc \in {"idle", "dumping", "packing", "signing", "copying", "pruning"}
    /\ command.pc \in {"idle", "dumping", "restoring", "unpacking", "done", "failed"}
    /\ target \in [images : SUBSET Images, sessions : BOOLEAN, files : SUBSET Images]
    /\ named \in 0..MaxNames /\ commands \in 0..MaxCommands /\ faults \in 0..MaxFaults

\* A backup that can be restored with its images.
Complete(n) == Has(n, "archive") /\ dir[n].archive.whole /\ Coordinated(n)

\* An archive beside a manifest is the dump the manifest was made for, and its images are there with
\* it, in the directory and in S3, however a backup or a pruning was cut short (cmdBackup, cmdPrune).
ManifestMeansComplete ==
    \A n \in Names :
        /\ Has(n, "archive") /\ Has(n, "manifest") => Complete(n)
        /\ "manifest" \in offsite[n] => offsite[n] = {Parts[k] : k \in DOMAIN Parts}

\* An image that is still shown has its file in every complete backup whose dump has its message,
\* though dump and tar read at different times (cmdBackup: the dump comes first).
ImagesComeWithMessages ==
    \A n \in Names : Complete(n) =>
        \A i \in dir[n].archive.images : image[i] = "posted" => i \in dir[n].uploads

\* A restore with images that ends well has brought back every image that is still shown and whose
\* message it has brought back, whatever was pruned or killed meanwhile (cmdRestore).
RestoredTogether ==
    command.pc = "done" /\ command.files /\ command.drop =>
        \A i \in target.images : image[i] = "posted" => i \in target.files

\* A manifest means a complete backup, images come with the messages that show them, and a restore
\* brings back both, however programs are cut short (dbBackup.ts, backup-scheduler.sh).
BackupsRestore == ManifestMeansComplete /\ ImagesComeWithMessages /\ RestoredTogether

\* Once there is a complete backup there always is one: old backups are removed only by a loop that
\* has just made a new one (backup-scheduler.sh, cmdPrune).
AlwaysRestorable == [][(\E n \in Names : Complete(n)) => (\E n \in Names : Complete(n))']_vars

=============================================================================
