---------------------------- MODULE SettingsStore ----------------------------
(***************************************************************************)
(* adapters/storage/atomic_settings_store: save writes a temporary file,   *)
(* syncs it, renames it over the settings file and syncs the directory.    *)
(* One action per system call, each of which may fail; the process may be  *)
(* killed and the power may fail between any two.                          *)
(*                                                                         *)
(* A file is its value, how much of it has been written, and how much has  *)
(* been synced.  Until the directory is synced a power loss may undo each  *)
(* of its changes; `finals` are the settings files it may bring back.      *)
(***************************************************************************)
EXTENDS Integers

CONSTANTS Values,     \* settings records
          NoFile,     \* no file
          Damaged,    \* a file that does not parse
          Pieces      \* bound: write calls a value takes

ASSUME StoreAssumption == {NoFile, Damaged} \cap Values = {} /\ Pieces \in Nat \ {0}

\* What is there instead of a file is not a file.
ASSUME NoFileAssumption ==
  NoFile \notin [value : Values, written : 0 .. Pieces, synced : 0 .. Pieces]

VARIABLES
  final,       \* the settings file, or NoFile
  finals,      \* what it may be after a power loss
  temporary,   \* the temporary file, or NoFile
  pc,          \* the last system call of save that succeeded
  saving,      \* the value being saved
  open,        \* descriptors held
  answer       \* what the last save returned

storeVars == <<final, finals, temporary, pc, saving, open, answer>>

\* A file is its value and how much of it is written and on the disk.
Whole(v) == [value |-> v, written |-> Pieces, synced |-> Pieces]

StoreInit ==
  /\ final \in {NoFile} \cup {Whole(v) : v \in Values}
  /\ finals = {final}
  /\ temporary = NoFile
  /\ pc = "idle" /\ saving = NoFile /\ open = {} /\ answer = "none"

\* serialize_settings_json, create_directories, open of the directory.
OpenDirectory(v) ==
  /\ pc = "idle"
  /\ pc' = "directory" /\ saving' = v
  /\ open' = {"directory"} /\ answer' = "none"
  /\ UNCHANGED <<final, finals, temporary>>

RefuseSave ==
  /\ pc = "idle" /\ answer' = "failed"
  /\ UNCHANGED <<final, finals, temporary, pc, saving, open>>

RemoveStale ==
  /\ pc = "directory"
  /\ temporary' = NoFile /\ pc' = "removed"
  /\ UNCHANGED <<final, finals, saving, open, answer>>

CreateTemporary ==
  /\ pc = "removed"
  /\ temporary' = [value |-> saving, written |-> 0, synced |-> 0]
  /\ pc' = "created" /\ open' = open \cup {"temporary"}
  /\ UNCHANGED <<final, finals, saving, answer>>

\* write may take less than it was given.
Write ==
  /\ pc = "created"
  /\ \E n \in temporary.written + 1 .. Pieces :
       /\ temporary' = [temporary EXCEPT !.written = n]
       /\ pc' = IF n = Pieces THEN "written" ELSE "created"
  /\ UNCHANGED <<final, finals, saving, open, answer>>

SyncTemporary ==
  /\ pc = "written" /\ pc' = "synced"
  /\ temporary' = [temporary EXCEPT !.synced = temporary.written]
  /\ UNCHANGED <<final, finals, saving, open, answer>>

CloseTemporary ==
  /\ pc = "synced" /\ pc' = "closed"
  /\ open' = open \ {"temporary"}
  /\ UNCHANGED <<final, finals, temporary, saving, answer>>

Rename ==
  /\ pc = "closed" /\ pc' = "renamed"
  /\ final' = temporary /\ finals' = finals \cup {temporary}
  /\ temporary' = NoFile
  /\ UNCHANGED <<saving, open, answer>>

Mutant_SyncDirectory ==
  /\ pc = "renamed" /\ pc' = "hardened"
  /\ UNCHANGED <<final, finals, temporary, saving, open, answer>>
SyncDirectory ==
  /\ pc = "renamed" /\ pc' = "hardened"
  /\ finals' = {final}
  /\ UNCHANGED <<final, temporary, saving, open, answer>>

\* The directory is closed; when that fails save still says so.
Finish ==
  /\ pc = "hardened"
  /\ answer' \in {"saved", "failed_replaced"}
  /\ pc' = "idle" /\ saving' = NoFile /\ open' = {}
  /\ UNCHANGED <<final, finals, temporary>>

\* A call fails: cleanup_before_replace or close_directory.  The clean-up
\* ignores that it cannot remove the temporary file; a close that fails has
\* closed the descriptor.
Cleanup == open' = {} /\ temporary' \in {NoFile, temporary}

Fail ==
  /\ pc \in {"directory", "removed", "created", "written", "synced",
            "closed"}
  /\ answer' = "failed"
  /\ Cleanup
  /\ pc' = "idle" /\ saving' = NoFile
  /\ UNCHANGED <<final, finals>>

ReplacedAnswer == "failed_replaced"

FailAfterReplace ==
  /\ pc = "renamed"
  /\ answer' = ReplacedAnswer
  /\ open' = {} /\ pc' = "idle" /\ saving' = NoFile
  /\ UNCHANGED <<final, finals, temporary>>

\* The process ends; what it wrote stays in the file system.
Kill ==
  /\ pc' = "idle" /\ saving' = NoFile /\ open' = {} /\ answer' = "none"
  /\ UNCHANGED <<final, finals, temporary>>

\* What a file may hold after a power loss.
Survivors(file) ==
  IF file = NoFile THEN {NoFile}
  ELSE {[file EXCEPT !.written = n, !.synced = n] :
          n \in file.synced .. file.written}

PowerLoss ==
  /\ \E file \in finals : final' \in Survivors(file)
  /\ finals' = {final'}
  /\ temporary' \in {NoFile} \cup Survivors(temporary)
  /\ pc' = "idle" /\ saving' = NoFile /\ open' = {} /\ answer' = "none"

StoreNext ==
  \/ \E v \in Values : OpenDirectory(v)
  \/ RefuseSave \/ RemoveStale \/ CreateTemporary \/ Write \/ SyncTemporary
  \/ CloseTemporary \/ Rename \/ SyncDirectory \/ Finish
  \/ Fail \/ FailAfterReplace \/ Kill \/ PowerLoss

StoreSpec == StoreInit /\ [][StoreNext]_storeVars

\* load: NotFound, a record, or a file that does not parse.
Load(file) ==
  IF file = NoFile THEN NoFile
  ELSE IF file.written = Pieces THEN file.value ELSE Damaged

-----------------------------------------------------------------------------

\* The store is an atomic file: it holds the old value or the new one, a save
\* that succeeds survives a power loss, and a save that fails says truly
\* whether the file was replaced (final_replaced, lines 203-384).
Atomic == INSTANCE AtomicFile WITH
  None <- NoFile,
  current <- Load(final),
  possible <- UNION {{Load(f) : f \in Survivors(file)} : file \in finals},
  replaced <- pc \in {"renamed", "hardened"}

ImplementsAtomicFile == Atomic!Spec
=============================================================================
