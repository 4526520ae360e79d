------------------------------- MODULE YtdlInv -------------------------------
(***************************************************************************)
(* The inductive invariant behind the safety properties of Ytdl.  The      *)
(* properties alone are not inductive: they hold because of what each      *)
(* phase of the cycle, each page and each job may still be holding on to   *)
(* from an earlier look at the store, and that is written down here.       *)
(***************************************************************************)
EXTENDS Ytdl

\* Whatever happens later, a row with this id is never a group's.
NotGroup(id) == id <= issued /\ rec[id].kind # "group"

\* A row is there or blank; ids are handed out in order; only groups resolve, and only
\* downloads wait for a slot or take one.
RowShape ==
  \A id \in Ids :
    /\ ~Exists(id) => rec[id] = NoRow
    /\ Exists(id) => id <= issued
    /\ rec[id].state = "resolving" => rec[id].kind = "group"
    /\ rec[id].state \in {"queued", "scheduled"} => rec[id].kind # "group"

\* The ids the current phase has still to treat, the one it is in the middle of included.
Pending == todo \cup ({held.id} \ {0})

\* What every phase may rely on about the rows it listed when it began.
PhaseShape ==
  /\ held # Nothing => pc \in {"capture", "groups", "admit"}
  /\ pc = "capture" => \A id \in Pending : Terminal(live[id]) /\ live[id].kind = "download"
  /\ pc = "expand" => \A g \in todo : g <= issued /\ (Exists(g) => rec[g].state = "resolving")
  /\ pc = "retry" => \A id \in todo : NotGroup(id)
  /\ pc = "groups" => \A g \in Pending :
       g <= issued /\ (Exists(g) => rec[g].kind = "group" /\ rec[g].state # "resolving")
  /\ pc = "groups" /\ held.id # 0 =>
       Final(held.row.state) /\ (held.row.state = "completed" => Items(held.id) \subseteq saved)
  /\ pc = "admit" => \A id \in Pending : NotGroup(id)

\* A download job belongs to a download, and one that succeeded has saved its files.
JobShape ==
  \A id \in Ids : \A j \in {job[id], live[id]} :
    j.kind = "download" => NotGroup(id) /\ (j.phase = "succeeded" => id \in saved)

ViewShape ==
  \A p \in Pages : viewer[p] # NotViewing =>
    LET v == viewer[p]
    IN  /\ v.id # 0 /\ NotGroup(v.id)
        /\ v.job # NoJob => Terminal(v.job) /\ (v.job.phase = "succeeded" => v.id \in saved)

\* The slots that are taken, and those this admission has still to give out.
SlotShape ==
  /\ Cardinality(Running) <= Limit
  /\ pc = "admit" => Cardinality(Running) + Cardinality(todo) <= Limit

\* Until the cycle admits, a worker it saw finished carries its name alone or is gone: no new
\* attempt has taken the name, and a row read as ended has not come back into a slot.
EvidenceShape ==
  /\ pc \notin {"idle", "admit"} =>
       \A id \in Ids : Terminal(live[id]) => job[id] = live[id] \/ job[id] = NoJob
  /\ pc = "sweep" => \A id \in todo : Terminal(live[id])
  /\ pc = "capture" /\ held.id # 0 /\ Final(held.row.state) => held.id \notin Running

IInv ==
  /\ TypeOK
  /\ RowShape
  /\ PhaseShape
  /\ JobShape
  /\ ViewShape
  /\ EvidenceShape
  /\ SlotShape
  /\ QueueSeqUnique
  /\ NoOrphanItems
  /\ NeverClaimsUnsaved
=============================================================================
