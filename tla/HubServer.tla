----------------------------- MODULE HubServer ------------------------------
(* The hub's handlers for one model (model_hub/api/main.py) over the local   *)
(* storage back end.  A handler runs without interruption between awaits;    *)
(* an upload awaits a thread that hashes the stored file.  A content and its *)
(* hash are one value.                                                       *)
EXTENDS Integers, FiniteSets

CONSTANTS
  Versions, Files, Contents, NULL,
  Requests,         \* the uploads of a behaviour
  MaxInFlight       \* uploads at a time

VARIABLES
  card,             \* card[v]: the hash of each file on the card, NULL if none
  stored,           \* stored[v, f]: the content under the file's key
  pc, job, local,   \* of an upload: its step, what it uploads, its card
  hash,             \* of an upload: what the thread computed
  present,          \* history: files whose upload returned, since the card was
  gone              \* history: versions deleted and not uploaded again

vars == <<card, stored, pc, job, local, hash, present, gone>>

NoFiles == [f \in Files |-> NULL]

Init ==
  /\ card = [v \in Versions |-> NULL]
  /\ stored = [k \in Versions \X Files |-> NULL]
  /\ pc = [r \in Requests |-> "new"] /\ job = [r \in Requests |-> NULL]
  /\ local = [r \in Requests |-> NULL] /\ hash = [r \in Requests |-> NULL]
  /\ present = {} /\ gone = {}

-----------------------------------------------------------------------------

\* api_upload_model, with a card that names no files
UploadModel(v) ==
  /\ card' = [card EXCEPT ![v] = NoFiles]
  /\ present' = {k \in present : k[1] # v}
  /\ gone' = gone \ {v}
  /\ UNCHANGED <<stored, pc, job, local, hash>>

\* api_delete_model: the card's directory goes, the storage stays.
DeleteModel(v) ==
  /\ card[v] # NULL
  /\ card' = [card EXCEPT ![v] = NULL]
  /\ present' = {k \in present : k[1] # v}
  /\ gone' = gone \cup {v}
  /\ UNCHANGED <<stored, pc, job, local, hash>>

InFlight == {r \in Requests : pc[r] \notin {"new", "done"}}

\* api_upload_file up to the await: the card is read, the file copied.
UploadStart(r, v, f, c) ==
  /\ pc[r] = "new" /\ card[v] # NULL /\ Cardinality(InFlight) < MaxInFlight
  /\ local' = [local EXCEPT ![r] = card[v]]
  /\ stored' = [stored EXCEPT ![v, f] = c]
  /\ job' = [job EXCEPT ![r] = <<v, f>>]
  /\ pc' = [pc EXCEPT ![r] = "hash"]
  /\ UNCHANGED <<card, hash, present, gone>>

\* compute_sha256_async, in its thread
Hash(r) ==
  /\ pc[r] = "hash"
  /\ hash' = [hash EXCEPT ![r] = stored[job[r]]]
  /\ pc' = [pc EXCEPT ![r] = "save"]
  /\ UNCHANGED <<card, stored, job, local, present, gone>>

\* Mutant of Recorded: the list of files starts anew.
RecordedAlone(r) == [NoFiles EXCEPT ![job[r][2]] = hash[r]]

\* The card with the file recorded on it.
Recorded(r) == [local[r] EXCEPT ![job[r][2]] = hash[r]]

\* The rest of api_upload_file.
UploadSave(r) ==
  /\ pc[r] = "save"
  /\ card' = [card EXCEPT ![job[r][1]] = Recorded(r)]
  /\ present' = present \cup {job[r]}
  /\ pc' = [pc EXCEPT ![r] = "done"]
  /\ UNCHANGED <<stored, job, local, hash, gone>>

Next ==
  \/ \E v \in Versions : UploadModel(v) \/ DeleteModel(v)
  \/ \E r \in Requests : \/ \E v \in Versions, f \in Files, c \in Contents : UploadStart(r, v, f, c)
                         \/ Hash(r) \/ UploadSave(r)

Spec == Init /\ [][Next]_vars

-----------------------------------------------------------------------------

\* A file that is on a card and is not being uploaded can be downloaded: its
\* content in the storage has the hash on the card, which download_model
\* compares.
CardExact ==
  \A v \in Versions, f \in Files :
    card[v] # NULL =>
      \/ \E r \in InFlight : job[r] = <<v, f>>
      \/ card[v][f] \in {NULL, stored[v, f]}

\* "Record the file on the model card": a file whose upload has returned is on
\* the card of its version until that is deleted or uploaded anew.
NoFileLost == \A k \in present : card[k[1]] # NULL /\ card[k[1]][k[2]] # NULL

\* "Delete a model or all versions of a model": a version that was deleted has
\* no card until it is uploaded again.
DeletedStays == \A v \in gone : card[v] = NULL
=============================================================================
