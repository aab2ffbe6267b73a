--------------------------- MODULE ABUpdateProofs ---------------------------
(***************************************************************************)
(* Atomic updates, for any number of updates and boots.  That the running  *)
(* system is not written to and that a failed installation can be repeated *)
(* holds however install_update and rollback are called; that the machine  *)
(* boots a whole system, and after a rollback the previous one, when they  *)
(* are called in turn (Rash is empty).                                     *)
(***************************************************************************)
EXTENDS ABUpdate, TLAPS

Types ==
  /\ part \in [Slots -> Int] /\ current \in Slots /\ boot \in Slots
  /\ ids \in Nat /\ job \in Nat /\ staged \subseteq Nat
  /\ pc \in {"idle", "dd", "written", "switched"}

Other(s) == IF s = "_a" THEN "_b" ELSE "_a"

\* Neither the running slot nor the one that boots next is half-written; dd
\* only runs while they are the same.
WholeInv ==
  /\ part[current] # Torn /\ part[boot] # Torn
  /\ pc \in {"dd", "written"} => boot = current /\ last = "failed"
  /\ pc = "written" => part[Other(current)] # Torn

\* Until the next installation begins, the slot that does not boot keeps what
\* ran before the last one.
PreviousInv == last = "done" => part[Other(boot)] = before /\ before # Torn

\* The types that the other proofs rest on.
LEMMA TypesAlways == Spec => []Types
<1>1. Init => Types
  BY DEF Init, Types, Slots
<1>2. Types /\ [Next]_vars => Types'
  <2> SUFFICES ASSUME Types, [Next]_vars PROVE Types'
    OBVIOUS
  <2> USE DEF Types, Slots, Torn, inactive_slot
  <2>1. CASE stage_update
    BY <2>1 DEF stage_update
  <2>2. ASSUME NEW i \in staged, InstallStart(i) PROVE Types'
    BY <2>2 DEF InstallStart
  <2>3. CASE Written
    <3>1. job \in Int
      OBVIOUS
    <3> QED BY <3>1, <2>3 DEF Written
  <2>4. CASE InstallFails
    BY <2>4 DEF InstallFails
  <2>5. CASE Switched \/ Moved
    BY <2>5 DEF Switched, Moved
  <2>6. CASE rollback \/ Reboot \/ UNCHANGED vars
    BY <2>6 DEF rollback, Reboot, vars
  <2> QED BY <2>1, <2>2, <2>3, <2>4, <2>5, <2>6 DEF Next
<1> QED BY <1>1, <1>2, PTL DEF Spec

\* install_update and rollback never write to the slot the system runs from.
THEOREM RunningIntactAlways == Spec => RunningIntact
<1>1. Types /\ [Next]_vars => [part'[current] = part[current]]_vars
  BY DEF Types, Next, stage_update, InstallFails, Written, Switched, Moved, rollback,
         Reboot, InstallStart, inactive_slot, vars, Slots
<1> QED BY <1>1, TypesAlways, PTL DEF Spec, RunningIntact

\* A staged update stays staged until an installation of it has succeeded,
\* also if the machine stops at any point of install_update.
THEOREM CanRetryAlways == Spec => []CanRetry
<1>1. Init => CanRetry
  BY DEF Init, CanRetry
<1>2. Types /\ CanRetry /\ [Next]_vars => CanRetry'
  <2> SUFFICES ASSUME Types, CanRetry, [Next]_vars PROVE CanRetry'
    OBVIOUS
  <2>1. CASE stage_update
    BY <2>1 DEF stage_update, CanRetry, Types
  <2>2. CASE Moved
    BY <2>2 DEF Moved, CanRetry, Types
  <2>3. CASE UNCHANGED <<staged, done, ids>>
    BY <2>3 DEF CanRetry
  <2> QED
    BY <2>1, <2>2, <2>3 DEF Next, InstallFails, Written, Switched, rollback,
                            Reboot, InstallStart, vars
<1> QED BY <1>1, <1>2, TypesAlways, PTL DEF Spec

\* Each step keeps the invariants, when the calls are made in turn.
LEMMA StepWhole ==
  ASSUME Rash = {}, Types, WholeInv, PreviousInv, [Next]_vars
  PROVE  WholeInv' /\ PreviousInv'
<1> USE DEF Types, WholeInv, PreviousInv, Slots, Torn, Other, inactive_slot
<1>1. ASSUME NEW i \in staged, InstallStart(i) PROVE WholeInv' /\ PreviousInv'
  BY <1>1 DEF InstallStart
<1>2. CASE Written
  BY <1>2 DEF Written
<1>3. CASE Switched
  BY <1>3 DEF Switched
<1>4. CASE rollback
  BY <1>4 DEF rollback
<1>5. CASE Reboot
  BY <1>5 DEF Reboot
<1>6. CASE stage_update \/ InstallFails \/ Moved \/ UNCHANGED vars
  BY <1>6 DEF stage_update, InstallFails, Moved, vars
<1> QED BY <1>1, <1>2, <1>3, <1>4, <1>5, <1>6 DEF Next

\* The two invariants together, for calls made in turn.
LEMMA WholeAlways == ASSUME Rash = {} PROVE Spec => [](Types /\ WholeInv /\ PreviousInv)
<1>1. Init => WholeInv /\ PreviousInv
  BY DEF Init, WholeInv, PreviousInv, Slots, Torn, Other
<1>2. Types /\ WholeInv /\ PreviousInv /\ [Next]_vars => WholeInv' /\ PreviousInv'
  BY StepWhole
<1> QED BY <1>1, <1>2, TypesAlways, PTL DEF Spec

\* Wherever the machine stops, it boots a system that was written completely.
THEOREM BootsWholeAlways == ASSUME Rash = {} PROVE Spec => []BootsWhole
<1>1. WholeInv => BootsWhole
  BY DEF WholeInv, BootsWhole
<1> QED BY <1>1, WholeAlways, PTL

\* A rollback makes the system that ran before the last update boot next.
THEOREM RollbackRestoresAlways == ASSUME Rash = {} PROVE Spec => RollbackRestores
<1>1. Types /\ PreviousInv /\ [Next]_vars
        => [rollback => part[boot'] = before]_vars
  BY DEF Types, PreviousInv, rollback, inactive_slot, Other, Slots
<1> QED BY <1>1, WholeAlways, PTL DEF Spec, RollbackRestores
=============================================================================
