-------------------------- MODULE CheckpointCoord --------------------------
(***************************************************************************)
(* CheckpointCoordinator, CheckpointWriter and CheckpointReader of         *)
(* bindings/python/SneppX_ALG/interface_bindings/checkpoint.py for one     *)
(* rank and its directory.  save writes in a thread of its own or in the   *)
(* caller, then removes old files; the process may crash at any point and  *)
(* start again with what the disk holds.  Steps are counted in units of    *)
(* save_interval; a state is the number of the save that was given it.     *)
(***************************************************************************)
EXTENDS Integers, FiniteSets, FiniteSetsExt

CONSTANTS
  Steps,        \* the steps at which save is called: 0 .. n
  keep_last,
  AsyncModes,   \* the values of async_save
  MaxSaves,     \* bound on the calls of save
  MaxCrashes,   \* bound on the crashes
  None

VARIABLES
  async_save, current_step,
  last,       \* last_checkpoint_path: the step in its name, or None
  mpc,        \* the caller: idle, write (synchronous), glob, remove, load
  writer,     \* the CheckpointWriter at work: its step, state and place
  files,      \* files[s]: absent, empty, with a placeholder header, or a state
  listed,     \* the steps of the files that _cleanup_old has found
  loaded,     \* the step and the state of the last load, None if it raised
  saves, crashes,
  given       \* history: given[s], the states saved for step s, in order

vars == <<async_save, current_step, last, mpc, writer, files, listed,
          loaded, saves, crashes, given>>

\* What a file can be besides complete with a state, which is at least 1.
Absent == -2
Empty == -1
Placeholder == 0
NoWriter == [at |-> "off", step |-> 0, state |-> 0]
Found == {s \in Steps : files[s] # Absent}
Complete(s) == files[s] > Placeholder

Init ==
  /\ async_save \in AsyncModes
  /\ current_step = 0 /\ last = None /\ mpc = "idle" /\ writer = NoWriter
  /\ files = [s \in Steps |-> Absent] /\ listed = {}
  /\ loaded = None /\ saves = 0 /\ crashes = 0 /\ given = [s \in Steps |-> {}]

\* save, as training goes forward: it waits for the thread before it, starts the next, and notes the path.
Save(s) ==
  /\ mpc = "idle" /\ writer = NoWriter /\ saves < MaxSaves
  /\ s >= current_step
  /\ saves' = saves + 1
  /\ given' = [given EXCEPT ![s] = @ \cup {saves + 1}]
  /\ current_step' = s
  /\ writer' = [at |-> "open", step |-> s, state |-> saves + 1]
  /\ IF async_save THEN mpc' = "glob" /\ last' = s ELSE mpc' = "write" /\ UNCHANGED last
  /\ UNCHANGED <<async_save, files, listed, loaded, crashes>>

\* CheckpointWriter(path): the file is created, or emptied.
WriterOpen ==
  /\ writer.at = "open"
  /\ files' = [files EXCEPT ![writer.step] = Empty]
  /\ writer' = [writer EXCEPT !.at = "header"]
  /\ UNCHANGED <<async_save, current_step, last, mpc, listed, loaded, saves, crashes, given>>

\* close: the placeholder header, the records and the data go to the file ...
WriterBegin ==
  /\ writer.at = "header"
  /\ files' = [files EXCEPT ![writer.step] = IF @ = Absent THEN Absent ELSE Placeholder]
  /\ writer' = [writer EXCEPT !.at = "close"]
  /\ UNCHANGED <<async_save, current_step, last, mpc, listed, loaded, saves, crashes, given>>

\* Mutant of WriterClose: the thread reads the state when it writes it, when
\* training has already moved on.
WriterCloseLate ==
  /\ writer.at = "close"
  /\ files' = [files EXCEPT ![writer.step] = IF @ = Absent THEN Absent ELSE saves + 1]
  /\ writer' = NoWriter
  /\ UNCHANGED <<async_save, current_step, last, mpc, listed, loaded, saves, crashes, given>>

\* close: placeholder records, data, metadata, and the header that
\* says how many tensors there are.  A file that was removed stays removed.
WriterClose ==
  /\ writer.at = "close"
  /\ files' = [files EXCEPT ![writer.step] = IF @ = Absent THEN Absent ELSE writer.state]
  /\ writer' = NoWriter
  /\ UNCHANGED <<async_save, current_step, last, mpc, listed, loaded, saves, crashes, given>>

\* A synchronous save goes on when the file is written.
Written ==
  /\ mpc = "write" /\ writer = NoWriter
  /\ last' = current_step /\ mpc' = "glob"
  /\ UNCHANGED <<async_save, current_step, writer, files, listed, loaded, saves, crashes, given>>

\* _cleanup_old: it lists the files ...
Glob ==
  /\ mpc = "glob"
  /\ listed' = Found /\ mpc' = "remove"
  /\ UNCHANGED <<async_save, current_step, last, writer, files, loaded, saves, crashes, given>>

Oldest(S) == Min(S)

\* ... and removes the one of the lowest step while there are too many.
Remove ==
  /\ mpc = "remove" /\ Cardinality(listed) > keep_last
  /\ files' = [files EXCEPT ![Oldest(listed)] = Absent]
  /\ listed' = listed \ {Oldest(listed)}
  /\ UNCHANGED <<async_save, current_step, last, mpc, writer, loaded, saves, crashes, given>>

Cleaned ==
  /\ mpc = "remove" /\ Cardinality(listed) <= keep_last
  /\ listed' = {} /\ mpc' = "idle"
  /\ UNCHANGED <<async_save, current_step, last, writer, files, loaded, saves, crashes, given>>

\* The file that load opens.
LoadPath == IF last # None THEN last ELSE current_step

\* load: CheckpointReader reads the header and the records, which fails on an
\* absent or empty file; a placeholder header has no tensor to read ...
LoadHeader ==
  /\ mpc = "idle"
  /\ IF Complete(LoadPath) THEN mpc' = "load" /\ UNCHANGED loaded
                           ELSE loaded' = None /\ UNCHANGED mpc
  /\ UNCHANGED <<async_save, current_step, last, writer, files, listed, saves, crashes, given>>

\* ... then the data and the metadata are read; data cut short do not fit the
\* shape.  The step comes from the metadata.
LoadData ==
  /\ mpc = "load" /\ mpc' = "idle"
  /\ IF Complete(LoadPath)
     THEN loaded' = [step |-> LoadPath, state |-> files[LoadPath]] /\ current_step' = LoadPath
     ELSE loaded' = None /\ UNCHANGED current_step
  /\ UNCHANGED <<async_save, last, writer, files, listed, saves, crashes, given>>

\* validate_checkpoint(path): the header is there and has the right magic.  The
\* placeholder has it.
Validates(s) == files[s] >= Placeholder

\* The process ends at any point and a new one takes the same directory.
Crash ==
  /\ crashes < MaxCrashes /\ crashes' = crashes + 1
  /\ current_step' = 0 /\ last' = None /\ mpc' = "idle" /\ writer' = NoWriter /\ listed' = {}
  /\ loaded' = None
  /\ UNCHANGED <<async_save, files, saves, given>>

Next ==
  \/ \E s \in Steps : Save(s)
  \/ WriterOpen \/ WriterBegin \/ WriterClose \/ Written \/ Glob \/ Remove \/ Cleaned
  \/ LoadHeader \/ LoadData \/ Crash

Spec == Init /\ [][Next]_vars

-----------------------------------------------------------------------------
(* Properties *)

Quiet == mpc = "idle" /\ writer = NoWriter

\* A load that returns gives a state that was saved for the step it reports,
\* in whatever state a crash or a save under way has left the directory.
LoadIntact == loaded # None => loaded.state \in given[loaded.step]

\* At most keep_last checkpoints stay when the coordinator is at rest.
KeepBounded == Quiet => Cardinality(Found) <= keep_last

\* The checkpoint that was saved last is there when the coordinator is at rest.
NewestKept == Quiet /\ last # None => saves \in {files[s] : s \in Steps}

\* A coordinator at rest loads the latest complete checkpoint there is.
LatestLoaded ==
  Quiet => \A s \in Steps : Complete(s) => files[s] <= files[LoadPath]

\* A checkpoint that validates, with no save under way, holds its tensors.
ValidatedComplete == Quiet => \A s \in Steps : Validates(s) => Complete(s)
=============================================================================
