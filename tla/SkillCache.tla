----------------------------- MODULE SkillCache -----------------------------
(* The skill cache of kernel/memory/cognition/procedural.c.  The model's     *)
(* states are pairwise less similar than the threshold, so that a state      *)
(* matches its own pattern only.  sequence_length, which nothing reads, is    *)
(* left out.                                                                 *)
EXTENDS Integers, Sequences, SequencesExt

CONSTANTS
  States, Skills, NULL,
  MaxSkills, Threshold,   \* cache_size and compilation_threshold
  CopiesFail,             \* SNEPPX_tensor_copy may return NULL
  MaxAccess               \* bound of the model on access_counter

VARIABLES
  skills,           \* the used slots
  access_counter,
  learnt,           \* learnt[s]: the skill learn last returned 0 for, NULL if
                    \* none, if a later call failed or if it was evicted
  recency           \* the states with a valid skill, the latest used first

vars == <<skills, access_counter, learnt, recency>>

Init ==
  /\ skills = <<>> /\ access_counter = 0
  /\ learnt = [s \in States |-> NULL] /\ recency = <<>>

-----------------------------------------------------------------------------

Blank == [pattern |-> NULL, output |-> NULL, frequency |-> 0, last_used |-> 0,
          valid |-> FALSE]

Valid == {i \in DOMAIN skills : skills[i].valid}

\* find_matching_skill, as the set of its results
Matching(s) == {i \in Valid : skills[i].pattern = s}

Used(s) == <<s>> \o SelectSeq(recency, LAMBDA t : t # s)

\* A matching skill gets a new output; when the copy fails it has none.
Relearn(s, k, ok) ==
  \E i \in Matching(s) :
    /\ skills' = IF ok THEN [skills EXCEPT ![i].output = k, ![i].frequency = @ + 1,
                                           ![i].last_used = access_counter + 1]
                 ELSE [skills EXCEPT ![i].output = NULL]
    /\ access_counter' = IF ok THEN access_counter + 1 ELSE access_counter
    /\ learnt' = [learnt EXCEPT ![s] = IF ok THEN k ELSE NULL]
    /\ recency' = IF ok THEN Used(s) ELSE recency

\* evict_lru: a fresh slot, or that of the skill used longest ago.
Slots ==
  IF Len(skills) < MaxSkills THEN {Len(skills) + 1}
  ELSE {i \in Valid : /\ skills[i].last_used < access_counter
                      /\ \A j \in Valid : skills[i].last_used <= skills[j].last_used}

\* A new state takes a slot; when a copy fails the slot stays invalid.
LearnNew(s, k, ok) ==
  /\ Matching(s) = {}
  /\ \E i \in Slots :
       LET old == IF i \in DOMAIN skills THEN skills[i].pattern ELSE NULL
           slot == IF ok THEN [pattern |-> s, output |-> k, frequency |-> 1,
                               last_used |-> access_counter + 1, valid |-> TRUE]
                   ELSE Blank
       IN /\ skills' = [j \in DOMAIN skills \cup {i} |-> IF j = i THEN slot ELSE skills[j]]
          /\ learnt' = [t \in States |-> IF t = s /\ ok THEN k
                                         ELSE IF t = old THEN NULL ELSE learnt[t]]
          /\ recency' = SelectSeq(IF ok THEN Used(s) ELSE recency, LAMBDA t : t # old)
  /\ access_counter' = IF ok THEN access_counter + 1 ELSE access_counter

\* sneppx_procedural_learn; with no slot to take it returns -1.
Learn(s, k, ok) ==
  /\ ok \/ CopiesFail
  /\ access_counter < MaxAccess
  /\ Relearn(s, k, ok) \/ LearnNew(s, k, ok)

\* Mutant of Recall: a recalled skill does not count as used.
RecallUntouched(s) ==
  /\ access_counter < MaxAccess
  /\ Matching(s) # {}
  /\ recency' = Used(s)
  /\ UNCHANGED <<skills, access_counter, learnt>>

\* sneppx_procedural_recall of a state it knows
Recall(s) ==
  /\ access_counter < MaxAccess
  /\ \E i \in Matching(s) :
       skills' = [skills EXCEPT ![i].last_used = access_counter + 1]
  /\ access_counter' = access_counter + 1
  /\ recency' = Used(s)
  /\ UNCHANGED learnt

\* sneppx_procedural_compile, when a skill is frequent enough
Compile ==
  /\ \E i \in Valid : skills[i].frequency >= Threshold
  /\ skills' = [i \in DOMAIN skills |->
       IF i \in Valid /\ skills[i].frequency >= Threshold
       THEN [skills[i] EXCEPT !.frequency = Threshold] ELSE skills[i]]
  /\ UNCHANGED <<access_counter, learnt, recency>>

Next ==
  \/ \E s \in States, k \in Skills, ok \in BOOLEAN : Learn(s, k, ok)
  \/ \E s \in States : Recall(s)
  \/ Compile

Spec == Init /\ [][Next]_vars

-----------------------------------------------------------------------------

\* What learn last returned 0 for is what recall finds, in exactly one skill,
\* until another state evicts it, whatever copies fail in between.
RecallsLearnt ==
  \A s \in States : learnt[s] # NULL =>
    \E i \in Valid : Matching(s) = {i} /\ skills[i].output = learnt[s]

\* learn gives up no skill but the one learnt or recalled longest ago.
EvictsStep ==
  \A s \in States :
    Matching(s) # {} /\ Matching(s)' = {} => s = recency[Len(recency)]
EvictsOldest == [][EvictsStep]_vars
=============================================================================
