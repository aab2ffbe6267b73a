-------------------------- MODULE CheckpointManager --------------------------
(***************************************************************************)
(* CheckpointManager (checkpoint_manager.py) as the loop of Trainer.fit    *)
(* (trainer_v3.py) drives it: save with async_save, the writer thread it   *)
(* starts, the retention of the last and of the best checkpoints, and the  *)
(* load_latest with which fit begins, after a crash too.  The state that   *)
(* is saved is the amount of training in it and the trainer's best metric. *)
(* A metric counts tenths; metric_mode is "min".                           *)
(***************************************************************************)
EXTENDS Integers, FiniteSets, FiniteSetsExt

CONSTANTS
  keep_last, keep_best,
  Metrics,        \* the losses that fit passes to save, in tenths
  MaxSteps,       \* max_steps of fit; a single digit, so that paths sort by step
  MaxStarts,      \* bound on the number of times that the process starts
  Crashes,        \* whether it may end at any moment, or only between two saves
  None

VARIABLES
  pc,       \* the trainer's thread: train, save, join, best, wrote, prune
  step,     \* trainer._step
  work,     \* the training that is in the model
  metric,   \* trainer._best_metric
  save,     \* locals of save: the state, its metric, whether it is best
  writer,   \* the writer thread: its place, the step in its path, the state
  files,    \* checkpoint_*.ckpt: step -> the file, None if there is none
  bests,    \* best_*.ckpt: a set of files
  list,     \* _best_metrics
  starts,
  last      \* history: the work of the last save that reached the disk

vars == <<pc, step, work, metric, save, writer, files, bests, list, starts, last>>
trainer == <<step, work, metric>>

Quiet == [pc |-> "none", step |-> 0, state |-> None]

Init ==
  /\ pc = "train" /\ step = 0 /\ work = 0 /\ metric = None
  /\ save = None /\ writer = Quiet /\ files = [s \in 1 .. MaxSteps |-> None]
  /\ bests = {} /\ list = {} /\ starts = 1 /\ last = 0

-----------------------------------------------------------------------------
(* The trainer's thread *)

\* train_step, and on to a save: of fit (save_every divides every step), or of
\* a callback.
TrainStep ==
  /\ pc = "train" /\ step < MaxSteps
  /\ step' = step + 1 /\ work' = work + 1 /\ pc' = "save"
  /\ UNCHANGED <<metric, save, writer, files, bests, list, starts, last>>

\* fit decides whether the metric m is the best (val: m is a validation loss),
\* and save takes its copy of the trainer's state.
Save(m, val) ==
  LET is_best == metric = None \/ (val /\ m < metric) IN
  /\ pc = "save"
  /\ metric' = IF is_best /\ val THEN m ELSE metric
  /\ save' = [state |-> [work |-> work, metric |-> metric'], metric |-> m, best |-> is_best]
  /\ pc' = "join"
  /\ UNCHANGED <<step, work, writer, files, bests, list, starts, last>>

\* save(trainer) without a metric, from Trainer.save.
SavePlain ==
  /\ pc = "save"
  /\ save' = [state |-> [work |-> work, metric |-> metric], metric |-> None, best |-> FALSE]
  /\ pc' = "join"
  /\ UNCHANGED <<trainer, writer, files, bests, list, starts, last>>

\* save(trainer, metric): better than every metric in the list?
SaveCompared(m) ==
  /\ pc = "save"
  /\ save' = [state |-> [work |-> work, metric |-> metric], metric |-> m,
              best |-> \A e \in list : m < e.metric]
  /\ pc' = "join"
  /\ UNCHANGED <<trainer, writer, files, bests, list, starts, last>>

\* Mutant of StartWriter: the writer of the save before is not joined.
StartWriterAtOnce ==
  /\ pc = "join"
  /\ writer' = [pc |-> "open", step |-> step, state |-> save.state]
  /\ pc' = IF save.best THEN "best" ELSE "prune"
  /\ UNCHANGED <<trainer, save, files, bests, list, starts, last>>

\* The writer of the save before is joined, and a new one started.
StartWriter ==
  /\ pc = "join" /\ writer.pc = "none"
  /\ writer' = [pc |-> "open", step |-> step, state |-> save.state]
  /\ pc' = IF save.best THEN "best" ELSE "prune"
  /\ UNCHANGED <<trainer, save, files, bests, list, starts, last>>

BestFile(whole) ==
  [step |-> step, metric |-> save.metric, state |-> save.state, whole |-> whole]

\* The best checkpoint is written by the trainer's thread: opened, ...
OpenBest ==
  /\ pc = "best"
  /\ bests' = {b \in bests : b.step # step \/ b.metric # save.metric} \cup {BestFile(FALSE)}
  /\ pc' = "wrote"
  /\ UNCHANGED <<trainer, save, writer, files, list, starts, last>>

\* _prune_best: the keep_best entries with the lowest metric stay.
Pruned(L) ==
  {e \in L : Cardinality({f \in L : f.metric < e.metric
                                    \/ (f.metric = e.metric /\ f.step < e.step)}) < keep_best}

\* ... and written, listed, and the worst of the list are removed.
CloseBest ==
  LET L == list \cup {[step |-> step, metric |-> save.metric]}
      gone == L \ Pruned(L)
  IN
  /\ pc = "wrote"
  /\ list' = Pruned(L)
  /\ bests' = {b \in (bests \ {BestFile(FALSE)}) \cup {BestFile(TRUE)} :
                 [step |-> b.step, metric |-> b.metric] \notin gone}
  /\ pc' = "prune"
  /\ UNCHANGED <<trainer, save, writer, files, starts, last>>

Steps(F) == {s \in DOMAIN F : F[s] # None}

\* _prune_last: the keep_last checkpoints with the highest steps stay.  save returns.
PruneLast ==
  /\ pc = "prune"
  /\ files' = [s \in DOMAIN files |->
                 IF Cardinality({t \in Steps(files) : t > s}) >= keep_last THEN None ELSE files[s]]
  /\ pc' = "train" /\ save' = None
  /\ UNCHANGED <<trainer, writer, bests, list, starts, last>>

-----------------------------------------------------------------------------
(* The writer thread: _do_save *)

Open ==
  /\ writer.pc = "open"
  /\ files' = [files EXCEPT ![writer.step] = [state |-> writer.state, whole |-> FALSE]]
  /\ writer' = [writer EXCEPT !.pc = "write"]
  /\ UNCHANGED <<pc, trainer, save, bests, list, starts, last>>

\* A file that was removed meanwhile is written to no name.
Write ==
  /\ writer.pc = "write"
  /\ files' = IF files[writer.step] = None THEN files
              ELSE [files EXCEPT ![writer.step].whole = TRUE]
  /\ writer' = Quiet /\ last' = writer.state.work
  /\ UNCHANGED <<pc, trainer, save, bests, list, starts>>

-----------------------------------------------------------------------------
(* Crash and restart *)

AtRest == pc = "train" /\ writer.pc = "none"

\* _latest_path
Latest == IF Steps(files) = {} THEN None ELSE files[Max(Steps(files))]

\* The process ends and fit is called in a new one: load_latest
\* restores what it can read, and fit sets _step to 0.
Restart ==
  /\ starts < MaxStarts /\ (Crashes \/ AtRest) /\ starts' = starts + 1
  /\ LET loads == IF Latest = None THEN FALSE ELSE Latest.whole IN
       /\ work' = IF loads THEN Latest.state.work ELSE 0
       /\ metric' = IF loads THEN Latest.state.metric ELSE None
  /\ step' = 0 /\ pc' = "train" /\ save' = None /\ writer' = Quiet /\ list' = {}
  /\ UNCHANGED <<files, bests, last>>

Next ==
  \/ TrainStep \/ SavePlain \/ StartWriter \/ OpenBest \/ CloseBest \/ PruneLast
  \/ \E m \in Metrics : SaveCompared(m) \/ \E val \in BOOLEAN : Save(m, val)
  \/ Open \/ Write \/ Restart

Spec == Init /\ [][Next]_vars

-----------------------------------------------------------------------------
(* Properties *)

\* Latest is newest: once save has returned and its writer has ended,
\* load_latest would restore what that save was given.
LatestIsNewest ==
  AtRest /\ last > 0 => /\ Latest # None
                        /\ Latest.whole
                        /\ Latest.state.work = last

\* A whole checkpoint stays: from the moment the first save has reached the
\* disk, through every later save and its pruning, there is a checkpoint that
\* can be loaded, also while the newest file is half written.
StaysWhole ==
  (\E s \in Steps(files) : files[s].whole) => (\E s \in Steps(files') : files'[s].whole)
WholeStays == [][StaysWhole]_vars

\* Best-k retention: when save has returned, at most keep_best best files are there.
BestBounded == pc = "train" => Cardinality(bests) <= keep_best

\* The best survives: the lowest metric of the trainer has its file, whole.
BestSurvives ==
  pc = "train" /\ metric # None => \E b \in bests : b.whole /\ b.metric <= metric

\* load_best: the order of the files is by what metric=([^\.]+) takes from the
\* name, which ends before the decimal point, then by path.
FirstBest ==
  CHOOSE b \in bests : \A c \in bests :
    <<b.metric \div 10, b.step, b.metric>> = <<c.metric \div 10, c.step, c.metric>>
    \/ b.metric \div 10 < c.metric \div 10
    \/ (b.metric \div 10 = c.metric \div 10
        /\ (b.step < c.step \/ (b.step = c.step /\ b.metric < c.metric)))

\* load_best restores a checkpoint with the lowest metric of the kept ones.
LoadBestIsBest ==
  pc = "train" /\ bests # {} => \A c \in bests : FirstBest.metric <= c.metric
=============================================================================
