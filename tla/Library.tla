------------------------------- MODULE Library -------------------------------
(***************************************************************************)
(* What SynoDL knows of the titles on the NAS: the listing of the          *)
(* configured parents, the reading of a title's folder, both kept in       *)
(* memory and in the store (api/library.go, store/library_repos.go), the   *)
(* background scan that refreshes them (api/library_scan.go), and the      *)
(* records of what was sent, which the scan forgets once a title has been  *)
(* gone for the grace period (api/library_forget.go, LibraryRecords).      *)
(*                                                                         *)
(* A title folder is a parent and a number; that a media server renames it *)
(* is left out, because both sides compare names by the same key.  The NAS *)
(* and its downloads are the environment.                                  *)
(***************************************************************************)
EXTENDS LibraryRecords, Sequences, FiniteSets

CONSTANTS Budget,    \* scanFolderBudget
          MaxTurns   \* bound: sends, changes on the NAS or of the configuration, restarts

ASSUME LibraryAssumption == Budget \in Nat \ {0} /\ MaxTurns \in Nat

VARIABLES
  conf,    \* parents of the enabled sources
  nas,     \* up; parents it does not list; folders it does not read; what each folder holds
  loading, \* downloads under way, by folder
  watched, \* the watcher's view of them (PendingDests)
  stored,  \* library_folders: the listing kept
  index,   \* libraryCache.index
  ev,      \* libraryCache.evidence: what was seen
  kept,    \* library_evidence: what was seen; fresh, superseded by an invalidation, or old
  read,    \* its folders, by checked_at
  queue,   \* scanQueue
  scan,    \* the cycle under way
  turns

world == <<conf, nas, loading>>
memo  == <<index, ev>>
store == <<stored, kept, read>>
hist  == <<lapse, raced>>
vars  == <<world, watched, rec, memo, store, queue, scan, turns, hist>>

Seen     == {"none", "no", "yes"}  \* what a reading of a folder says
NoRead   == [v |-> "none", age |-> "old"]
NoIndex  == [have |-> FALSE, names |-> {}]
Held(names) == [have |-> TRUE, names |-> names]
NoScan   == [pc |-> "idle", names |-> {}, listed |-> {}, batch |-> {}, left |-> {},
             recs |-> [f \in Folders |-> NoRecord], pend |-> {}]
Turn     == turns < MaxTurns /\ turns' = turns + 1

-----------------------------------------------------------------------------
\* What the NAS answers (syno/http.go): the folders of a parent, the files of a folder, what a
\* folder holds once it was created (one that is there is reused, ensureSubfolder) and once a
\* file was sent to it, which the NAS may refuse.
ListFolder(p)    == {f \in Folders : ParentOf(f) = p /\ nas.holds[f] # "absent"}
ListFiles(f)     == IF nas.holds[f] = "video" THEN {"video"} ELSE {}
Ensured(held)    == IF held = "absent" THEN "empty" ELSE held
UploadFile(held) == {held, "video"}

\* buildLibraryIndex.  A parent that does not list is skipped; a build fails when none lists.
Listed == conf \ nas.shut
Names  == UNION {ListFolder(p) : p \in Listed}
Builds == conf = {} \/ (nas.up /\ Listed # {})
\* SaveLibraryFolders: wholesale.  persistLibraryFolders: what a build found.
SaveFolders(names) == stored' = names
GetFolders  == stored
Persist     == SaveFolders(Names)
StoredIndex == Held(GetFolders)

\* libraryIndex: the listing held; else a new one; else, when none can be built, the one kept.
LibraryIndex ==
  /\ index' = CASE index.have -> index [] Builds -> Held(Names) [] OTHER -> StoredIndex
  /\ IF ~index.have /\ Builds THEN Persist ELSE UNCHANGED stored

\* A page of the catalog asks for the listing, then for each title of its own.
BrowseIndex ==
  /\ ~index.have /\ LibraryIndex
  /\ UNCHANGED <<world, watched, rec, ev, kept, read, queue, scan, turns, hist>>

\* folderEvidence: memory, then what is kept if it is young and not older than the last
\* invalidation, then the NAS, then whatever is kept.
FromMemory(f) == ev[f] # "none"
FromStore(f)  == kept[f].v # "none" /\ kept[f].age = "fresh"
Readable(f)   == nas.up /\ f \notin nas.bad /\ nas.holds[f] # "absent"
Fallback(f)   == kept[f].v # "none"
Answerable(f) == FromMemory(f) \/ FromStore(f) \/ Readable(f) \/ Fallback(f)

Reading(f) == [v |-> IF "video" \in ListFiles(f) THEN "yes" ELSE "no", age |-> "fresh"]
Latest(f)  == Append(SelectSeq(read, LAMBDA g : g # f), f)

Remember(f, v)    == ev' = [ev EXCEPT ![f] = v]
KeepReading(f, r) == kept' = [kept EXCEPT ![f] = r] /\ read' = Latest(f)

Evidence(f) ==
  IF FromMemory(f) THEN UNCHANGED <<ev, kept, read>>
  ELSE IF Readable(f) /\ ~FromStore(f)
       THEN Remember(f, Reading(f).v) /\ KeepReading(f, Reading(f))
  ELSE Remember(f, kept[f].v) /\ UNCHANGED <<kept, read>>

\* ActiveDestinations and UnfinishedDestinations: the watcher's last view of what is under way.
\* (A paused or failed task is in the second only; here a download goes on until it lands.)
Downloading(f) == f \in watched
Unfinished     == watched

\* ownershipOf, for a title of a page: a folder being written to is not read.
OwnershipOf(f) ==
  /\ index.have /\ f \in index.names /\ ~Downloading(f)
  /\ Answerable(f) /\ Evidence(f)
  /\ UNCHANGED <<world, watched, rec, stored, index, queue, scan, turns, hist>>

\* titleDetail: a title's own page fetches the listing itself.
TitleDetail(f) ==
  /\ LibraryIndex /\ f \in index'.names /\ ~Downloading(f)
  /\ Answerable(f) /\ Evidence(f)
  /\ UNCHANGED <<world, watched, rec, queue, scan, turns, hist>>

\* invalidateLibrary: both layers of memory, and what is kept is no longer current.
Invalidate ==
  /\ index' = NoIndex /\ ev' = [f \in Folders |-> "none"]
  /\ kept' = [f \in Folders |-> [kept[f] EXCEPT !.age = IF @ = "fresh" THEN "superseded" ELSE @]]

IndexAges == \* libraryTTL
  /\ index.have /\ index' = NoIndex
  /\ UNCHANGED <<world, watched, rec, ev, store, queue, scan, turns, hist>>

EvidenceAges(f) ==
  /\ ev[f] # "none" \/ kept[f].age # "old"
  /\ ev' = [ev EXCEPT ![f] = "none"] /\ kept' = [kept EXCEPT ![f].age = "old"]
  /\ UNCHANGED <<world, watched, rec, index, stored, read, queue, scan, turns, hist>>

-----------------------------------------------------------------------------
\* Sends and downloads.

\* handleSourceSend, past its checks: the folder, the task, the record, the invalidation, the
\* place at the head of the next cycle.
RefreshFolder(fs) == queue' = queue \cup fs

Send(f) ==
  /\ nas.up /\ ParentOf(f) \in conf /\ Turn
  /\ nas' = [nas EXCEPT !.holds[f] = Ensured(@)]
  /\ loading' = loading \cup {f}
  /\ SaveSourceDownload(f) /\ Invalidate /\ RefreshFolder({f})
  /\ lapse' = [lapse EXCEPT ![f] = 0]
  /\ raced' = IF f \in scan.left THEN raced \cup {f} ELSE raced
  /\ UNCHANGED <<conf, watched, stored, read, scan>>

\* handleCreateFolderStateful: a user makes a folder, of a title perhaps.
CreateFolder(f) ==
  /\ nas.up /\ nas.holds[f] = "absent" /\ Turn
  /\ nas' = [nas EXCEPT !.holds[f] = Ensured(@)]
  /\ UNCHANGED <<conf, loading, watched, rec, memo, store, queue, scan, hist>>

\* streamUploadedFile, past its checks, into the parent uploadParent finds for the kind: the
\* folder, then the file, which the NAS may still refuse.  Nothing is recorded or invalidated,
\* and the scan is not told.
UploadParent(f) == ParentOf(f) \in conf
Upload(f) ==
  /\ nas.up /\ UploadParent(f) /\ Turn
  /\ \E h \in UploadFile(Ensured(nas.holds[f])) : nas' = [nas EXCEPT !.holds[f] = h]
  /\ UNCHANGED <<conf, loading, watched, rec, memo, store, queue, scan, hist>>

\* A download ends, with its file or without.
Land(f) ==
  /\ f \in loading /\ loading' = loading \ {f}
  /\ \E v \in {nas.holds[f], "video"} : nas' = [nas EXCEPT !.holds[f] = v]
  /\ UNCHANGED <<conf, watched, rec, memo, store, queue, scan, turns, hist>>

\* The watcher's poll: what is under way, and a finished folder to the head of the next cycle.
Poll ==
  /\ nas.up /\ watched # loading
  /\ watched' = loading /\ RefreshFolder(watched \ loading)
  /\ UNCHANGED <<world, rec, memo, store, scan, turns, hist>>

-----------------------------------------------------------------------------
\* The scan.

\* scanBatch: what was asked for, then what was never read, then the least recently read.
Position(f) == CHOOSE i \in 1..Len(read) : read[i] = f
Rank(f) ==
  IF f \in queue THEN 0
  ELSE IF kept[f].v = "none" THEN 1
  ELSE IF \E i \in 1..Len(read) : read[i] = f THEN 1 + Position(f) ELSE 1
Batches(names) ==
  {b \in SUBSET names :
     /\ Cardinality(b) = IF Cardinality(names) < Budget THEN Cardinality(names) ELSE Budget
     /\ \A f \in b, g \in names \ b : Rank(f) <= Rank(g)}

\* PruneLibraryEvidence: an empty listing prunes nothing.
\* Mutant: the order of reading keeps what left.
PruneBack(names) ==
  IF names = {} THEN UNCHANGED <<kept, read>>
  ELSE /\ kept' = [f \in Folders |-> IF f \in names THEN kept[f] ELSE NoRead] /\ UNCHANGED read
Prune(names) ==
  IF names = {} THEN UNCHANGED <<kept, read>>
  ELSE /\ kept' = [f \in Folders |-> IF f \in names THEN kept[f] ELSE NoRead]
       /\ read' = SelectSeq(read, LAMBDA g : g \in names)

\* scanOnce: list, publish, prune, choose.
ScanList ==
  /\ scan.pc = "idle" /\ Builds
  /\ index' = Held(Names) /\ Persist /\ Prune(Names)
  /\ IF Names = {} THEN UNCHANGED <<scan, queue>>
     ELSE /\ \E b \in Batches(Names) :
               scan' = [NoScan EXCEPT !.pc = "read", !.names = Names, !.listed = Listed,
                                       !.batch = b]
          /\ queue' = {}
  /\ UNCHANGED <<world, watched, rec, ev, turns, hist>>

\* One folder of the batch; one that cannot be answered for ends the cycle.
ScanRead ==
  /\ scan.pc = "read"
  /\ \E f \in scan.batch :
       IF Answerable(f) THEN Evidence(f) /\ scan' = [scan EXCEPT !.batch = @ \ {f}]
       ELSE scan' = NoScan /\ UNCHANGED <<ev, kept, read>>
  /\ UNCHANGED <<world, watched, rec, stored, index, queue, turns, hist>>

\* forgetRemovedContent reads the records and the watcher's view once.
Reconcile ==
  /\ scan.pc = "read" /\ scan.batch = {}
  /\ scan' = IF SourceDownloads = {} THEN NoScan
             ELSE [scan EXCEPT !.pc = "judge", !.left = SourceDownloads, !.recs = rec,
                               !.pend = Unfinished]
  /\ raced' = {}
  /\ UNCHANGED <<world, watched, rec, memo, store, queue, turns, lapse>>

\* stateOfRecordedFolder.
StateOf(f) ==
  IF f \notin scan.names THEN "gone"
  ELSE CASE kept[f].v = "none" -> "unknown"
         [] kept[f].v = "yes"  -> "present"
         [] OTHER              -> "gone"

\* Mutant: the first sighting is not stamped.
JudgeGoneUnstamped(f) == IF Due(scan.recs[f]) THEN Delete(f) ELSE UNCHANGED rec
JudgeGone(f) ==
  CASE scan.recs[f] = 0   -> MarkMissing(f)
    [] Due(scan.recs[f])  -> Delete(f)
    [] OTHER              -> UNCHANGED rec

Judge(f) ==
  /\ scan.pc = "judge" /\ f \in scan.left
  /\ scan' = IF scan.left = {f} THEN NoScan ELSE [scan EXCEPT !.left = @ \ {f}]
  /\ IF f \in scan.pend \/ StateOf(f) = "present"
     THEN /\ IF scan.recs[f] > 0 THEN ClearMissing(f) ELSE UNCHANGED rec
          /\ lapse' = [lapse EXCEPT ![f] = 0]
     ELSE /\ IF StateOf(f) = "gone" THEN JudgeGone(f) ELSE UNCHANGED rec
          /\ lapse' = [lapse EXCEPT ![f] = IF rec'[f] = NoRecord THEN 0 ELSE @]
  /\ UNCHANGED <<world, watched, memo, store, queue, turns, raced>>

\* The cycle's timeout.
ScanCut ==
  /\ scan.pc # "idle" /\ Turn /\ scan' = NoScan
  /\ UNCHANGED <<world, watched, rec, memo, store, queue, hist>>

-----------------------------------------------------------------------------
\* Time and the environment.

Tick ==
  /\ \E f \in Folders : rec[f] \in 1..Grace
  /\ rec' = [f \in Folders |-> IF rec[f] \in 1..Grace THEN rec[f] + 1 ELSE rec[f]]
  /\ lapse' = [f \in Folders |->
                  IF rec[f] = NoRecord \/ lapse[f] = Grace THEN lapse[f] ELSE lapse[f] + 1]
  /\ UNCHANGED <<world, watched, memo, store, queue, scan, turns, raced>>

NasChange ==
  /\ Turn
  /\ \/ nas' = [nas EXCEPT !.up = ~@]
     \/ \E p \in Parents : nas' = [nas EXCEPT !.shut = IF p \in @ THEN @ \ {p} ELSE @ \cup {p}]
     \/ \E f \in Folders : nas' = [nas EXCEPT !.bad = IF f \in @ THEN @ \ {f} ELSE @ \cup {f}]
     \/ \E f \in Folders, v \in {"absent", "empty", "video"} : nas' = [nas EXCEPT !.holds[f] = v]
  /\ UNCHANGED <<conf, loading, watched, rec, memo, store, queue, scan, hist>>

\* A source is added, disabled, removed, or given other parents.
Configure ==
  /\ Turn
  /\ \E p \in Parents : conf' = IF p \in conf THEN conf \ {p} ELSE conf \cup {p}
  /\ Invalidate
  /\ UNCHANGED <<nas, loading, watched, rec, stored, read, queue, scan, hist>>

Restart ==
  /\ Turn
  /\ index' = NoIndex /\ ev' = [f \in Folders |-> "none"]
  /\ kept' = [f \in Folders |-> [kept[f] EXCEPT !.age = IF @ = "superseded" THEN "fresh" ELSE @]]
  /\ watched' = {} /\ queue' = {} /\ scan' = NoScan
  /\ UNCHANGED <<world, rec, stored, read, hist>>

Init ==
  /\ conf = Parents
  /\ nas = [up |-> TRUE, shut |-> {}, bad |-> {}, holds |-> [f \in Folders |-> "video"]]
  /\ loading = {} /\ watched = {}
  /\ rec = [f \in Folders |-> 0]
  /\ stored = {} /\ index = NoIndex /\ ev = [f \in Folders |-> "none"]
  /\ kept = [f \in Folders |-> NoRead] /\ read = <<>> /\ queue = {} /\ scan = NoScan
  /\ turns = 0 /\ lapse = [f \in Folders |-> 0] /\ raced = {}

Cycle == ScanList \/ ScanRead \/ Reconcile \/ \E f \in Folders : Judge(f)

Next ==
  \/ BrowseIndex \/ IndexAges \/ Poll \/ Cycle \/ ScanCut
  \/ \E f \in Folders : \/ OwnershipOf(f) \/ TitleDetail(f) \/ EvidenceAges(f)
                         \/ Send(f) \/ CreateFolder(f) \/ Upload(f) \/ Land(f)
  \/ Tick \/ NasChange \/ Configure \/ Restart

Spec == Init /\ [][Next]_vars

\* The scan's ticker, the watcher's, and time.
FairSpec == /\ Spec /\ WF_vars(Cycle) /\ WF_vars(Poll) /\ WF_vars(Tick)
            /\ \A f \in Folders : WF_vars(EvidenceAges(f))

-----------------------------------------------------------------------------
TypeOK ==
  /\ conf \subseteq Parents /\ nas.shut \subseteq Parents /\ nas.bad \subseteq Folders
  /\ loading \subseteq Folders /\ watched \subseteq Folders /\ queue \subseteq Folders
  /\ rec \in [Folders -> NoRecord..(Grace + 1)] /\ lapse \in [Folders -> 0..Grace]
  /\ stored \subseteq Folders /\ index.names \subseteq Folders
  /\ ev \in [Folders -> Seen]
  /\ kept \in [Folders -> [v : Seen, age : {"fresh", "superseded", "old"}]]
  /\ Len(read) = Cardinality({read[i] : i \in 1..Len(read)})
  /\ {read[i] : i \in 1..Len(read)} = {f \in Folders : kept[f].v # "none"}
  /\ scan.pc \in {"idle", "read", "judge"} /\ scan.batch \cup scan.left \subseteq Folders

\* A record is deleted only by a cycle that could list its parent.
NotForgottenUnlooked == [][\A f \in Folders : Forgets(f) => ParentOf(f) \in scan.listed]_vars

\* A title that has left the NAS for good is forgotten in the end, as long as the NAS lists and
\* reads everything and something else is left on it.
Left(f) ==
  /\ nas.up /\ nas.shut = {} /\ nas.bad = {} /\ ParentOf(f) \in conf
  /\ nas.holds[f] # "video" /\ f \notin loading
  /\ \E g \in Folders : ParentOf(g) \in conf /\ nas.holds[g] = "video"
ForgottenInTheEnd == \A f \in Folders : <>[]Left(f) => <>[](rec[f] = NoRecord)

\* (Not so in the code: the batch begins with what was never read, and a folder that cannot be
\* read ends the cycle.)  Every folder the NAS reads is read in the end.
ScanCovers ==
  \A f \in Folders : <>[](nas.up /\ f \in Names /\ f \notin nas.bad) => <>(kept[f].v # "none")
=============================================================================
