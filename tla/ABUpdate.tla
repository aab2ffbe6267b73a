------------------------------ MODULE ABUpdate ------------------------------
(***************************************************************************)
(* SignedUpdateManager and ABOOTPartition of container_security.py: a      *)
(* staged update is written to the partition that is not running, which    *)
(* bootctl is then told to boot; rollback switches the slot again.  The    *)
(* machine may stop between any two steps, and the program then starts     *)
(* anew in the slot that was set last.  An update is known by the id it is *)
(* staged under, a number here: a version is staged at most once a second. *)
(* A signature that does not verify leaves nothing staged, a stutter.      *)
(***************************************************************************)
EXTENDS Integers

CONSTANTS
  MaxUpdates, MaxBoots,  \* bounds on the updates staged and the boots
  Rash                   \* the calls made out of turn: "reinstall", "rollback"

ASSUME UpdateAssumption ==
  /\ MaxUpdates \in Nat /\ MaxBoots \in Nat
  /\ Rash \subseteq {"reinstall", "rollback"}

VARIABLES
  part,     \* part[s]: the update slot s holds, 0 at first, Torn while dd writes
  current,  \* the slot found when the program started
  boot,     \* the slot set for the next boot
  staged,   \* the ids under staged/ with a meta.json
  pc, job,  \* the step of install_update, and the id it installs
  ids,      \* the ids given out
  boots,
  last,     \* the outcome of the last installation, undone by a rollback
  before,   \* history: what was running when the last slot was switched to
  done      \* history: the ids moved to installed/

vars == <<part, current, boot, staged, pc, job, ids, boots, last, before, done>>

Torn == -1
Slots == {"_a", "_b"}

\* The constructor: the slot comes from the kernel's command line.
Init ==
  /\ part = [s \in Slots |-> 0] /\ current = "_a" /\ boot = "_a"
  /\ staged = {} /\ pc = "idle" /\ job = 0 /\ ids = 0 /\ boots = 0
  /\ last = "none" /\ before = 0 /\ done = {}

\* Mutant of inactive_slot: the second slot, wherever the system runs.
SecondSlot == "_b"

inactive_slot == IF current = "_a" THEN "_b" ELSE "_a"

stage_update ==
  /\ pc = "idle" /\ ids < MaxUpdates
  /\ ids' = ids + 1 /\ staged' = staged \cup {ids + 1}
  /\ UNCHANGED <<part, current, boot, pc, job, boots, last, before, done>>

-----------------------------------------------------------------------------
(* install_update *)

\* The update is there and dd opens the partition.
InstallStart(i) ==
  /\ pc = "idle" /\ i \in staged /\ ("reinstall" \in Rash \/ boot = current)
  /\ pc' = "dd" /\ job' = i /\ last' = "failed"
  /\ part' = [part EXCEPT ![inactive_slot] = Torn]
  /\ UNCHANGED <<current, boot, staged, ids, boots, before, done>>

\* dd or bootctl fails: the exception, or the False, is returned.
InstallFails ==
  /\ pc \in {"dd", "written"} /\ pc' = "idle"
  /\ UNCHANGED <<part, current, boot, staged, job, ids, boots, last, before, done>>

\* Mutant of Written: the slot is switched when dd starts to write.
SwitchBeforeWritten ==
  /\ pc = "dd" /\ pc' = "written" /\ boot' = inactive_slot
  /\ UNCHANGED <<part, current, staged, job, ids, boots, last, before, done>>

Written ==
  /\ pc = "dd" /\ pc' = "written"
  /\ part' = [part EXCEPT ![inactive_slot] = job]
  /\ UNCHANGED <<current, boot, staged, job, ids, boots, last, before, done>>

Switched ==
  /\ pc = "written" /\ pc' = "switched"
  /\ boot' = inactive_slot /\ last' = "done" /\ before' = part[current]
  /\ UNCHANGED <<part, current, staged, job, ids, boots, done>>

Moved ==
  /\ pc = "switched" /\ pc' = "idle"
  /\ staged' = staged \ {job} /\ done' = done \cup {job}
  /\ UNCHANGED <<part, current, boot, job, ids, boots, last, before>>

-----------------------------------------------------------------------------

\* rollback takes no lock: in turn, it follows an installation that ended well
\* and was booted into.
rollback ==
  /\ "rollback" \in Rash \/ (pc = "idle" /\ last = "done" /\ boot = current)
  /\ boot' = inactive_slot /\ last' = "none"
  /\ UNCHANGED <<part, current, staged, pc, job, ids, boots, before, done>>

\* The machine stops, wherever the program is, and boots.
Reboot ==
  /\ boots < MaxBoots /\ boots' = boots + 1
  /\ current' = boot /\ pc' = "idle"
  /\ UNCHANGED <<part, boot, staged, job, ids, last, before, done>>

Next ==
  \/ stage_update \/ InstallFails \/ Written \/ Switched \/ Moved
  \/ rollback \/ Reboot
  \/ \E i \in staged : InstallStart(i)

Spec == Init /\ [][Next]_vars

-----------------------------------------------------------------------------
(* Properties *)

\* Wherever the machine stops, the slot set for the next boot holds a whole
\* system, never one that dd was writing (install_update's order of dd and
\* switch_slot).
BootsWhole == part[boot] # Torn

\* No step writes to the partition the system runs from.
RunningIntact == [][part'[current] = part[current]]_vars

\* An update that was staged is staged until an installation of it succeeded:
\* one that failed, or that a stop of the machine cut short, can be repeated.
CanRetry == \A i \in 1 .. ids : i \in staged \cup done

\* After a rollback the next boot is into what ran before the last update.
RollbackRestores == [][rollback => part[boot'] = before]_vars
=============================================================================
