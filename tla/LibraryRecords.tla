---------------------------- MODULE LibraryRecords ----------------------------
(***************************************************************************)
(* The records of what was sent, by title folder (source_downloads in      *)
(* store/library_repos.go and store/source_repos.go), and how long ago a   *)
(* title was last known to be there (api/library_forget.go).               *)
(***************************************************************************)
EXTENDS Integers

CONSTANTS Parents,   \* parent folders
          PerParent, \* title folders under each
          Grace      \* forgetGrace, in ticks

ASSUME RecordsAssumption == PerParent \in Nat \ {0} /\ Grace \in Nat \ {0}

Folders     == Parents \X (1..PerParent)
ParentOf(f) == f[1]

VARIABLES
  rec,     \* source_downloads: NoRecord, or ticks since missing_since was set, counted from 1
  lapse,   \* history: ticks since f was sent, or seen present or pending
  raced    \* history: f was sent again between the reading of its record and the verdict

NoRecord == -1

SourceDownloads == {f \in Folders : rec[f] # NoRecord}

\* SaveSourceDownload puts a clean record over the old one.
\* Mutant: a record that is already there keeps its missing_since.
SaveKeeping(f)        == rec' = [rec EXCEPT ![f] = IF @ = NoRecord THEN 0 ELSE @]
SaveSourceDownload(f) == rec' = [rec EXCEPT ![f] = 0]

\* ClearSourceDownloadMissing, MarkSourceDownloadMissing, DeleteSourceDownload.
ClearMissing(f) == rec' = [rec EXCEPT ![f] = IF @ = NoRecord THEN NoRecord ELSE 0]
MarkMissing(f)  == rec' = [rec EXCEPT ![f] = IF @ = 0 THEN 1 ELSE @]
Delete(f)       == rec' = [rec EXCEPT ![f] = NoRecord]

Due(age) == age > Grace

-----------------------------------------------------------------------------
Forgets(f) == rec[f] # NoRecord /\ rec'[f] = NoRecord

\* A record is deleted only after its title has been seen gone for the whole grace period: no
\* cycle has seen it present or pending, and nobody has sent it again, within it.  (A send that
\* falls between a cycle's reading of the record and its verdict loses the record it wrote.)
GraceKept == [][\A f \in Folders : Forgets(f) /\ f \notin raced => lapse[f] >= Grace]_rec
=============================================================================
