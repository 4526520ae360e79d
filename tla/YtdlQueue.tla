------------------------------ MODULE YtdlQueue ------------------------------
(***************************************************************************)
(* The waiting line of YouTube downloads over many reconcile cycles:       *)
(* links and expanded items join it, each cycle fills the free slots with  *)
(* YtdlAdmit!Admit, downloads end, accounts are deleted.  What one call of *)
(* Admit promises (YtdlBatch) and what a sequence of calls delivers are    *)
(* different questions.                                                    *)
(***************************************************************************)
EXTENDS YtdlBatch

CONSTANTS Users,        \* the accounts
          MaxParallel,  \* YTDL_MAX_PARALLEL as the operator wrote it
          MaxQueued     \* bound: how many downloads are ever queued

ASSUME QueueAssumption ==
  /\ NoUser \notin Users
  /\ MaxParallel \in Int
  /\ MaxQueued \in Nat

VARIABLES queue,    \* the candidates waiting for a slot
          running,  \* the candidates that have been admitted and have not ended
          lastSeq,  \* the highest queue_seq handed out
          passed    \* passed[u]: others' admissions since u, with work waiting, was last served

vars == <<queue, running, lastSeq, batch, passed>>

Candidate == [id : 1..MaxQueued, user : Users \cup {NoUser}, direct : BOOLEAN, seq : 1..MaxQueued]

\* An operator who wrote nothing sensible gets four.
Limit == IF MaxParallel <= 0 THEN 4 ELSE MaxParallel

Init ==
  /\ queue = {}
  /\ running = {}
  /\ lastSeq = 0
  /\ batch = NoBatch
  /\ passed = [u \in Users |-> 0]

\* The line numbered without the + 1.
EnqueueFromZero(u, direct) ==
  /\ lastSeq < MaxQueued
  /\ lastSeq' = lastSeq + 1
  /\ queue' = queue \cup {[id |-> lastSeq', user |-> u, direct |-> direct, seq |-> lastSeq]}
  /\ UNCHANGED <<running, batch, passed>>

(***************************************************************************)
(* A pasted link (direct) or one entry of an expanded channel joins the    *)
(* back of the line.  The id of a request stands for its row; one row      *)
(* joins once here, so its sequence number serves as its id.               *)
(***************************************************************************)
Enqueue(u, direct) ==
  /\ lastSeq < MaxQueued
  /\ lastSeq' = lastSeq + 1
  /\ queue' = queue \cup {[id |-> lastSeq', user |-> u, direct |-> direct, seq |-> lastSeq']}
  /\ UNCHANGED <<running, batch, passed>>

(***************************************************************************)
(* Deleting an account leaves its rows behind without an owner.            *)
(***************************************************************************)
DeleteAccount(u) ==
  /\ \E c \in queue : c.user = u
  /\ queue' = {[c EXCEPT !.user = IF @ = u THEN NoUser ELSE @] : c \in queue}
  /\ passed' = [passed EXCEPT ![u] = 0]
  /\ UNCHANGED <<running, lastSeq, batch>>

Served(u, admitted) == \E c \in admitted : c.user = u

Waiting(u, q) == \E c \in q : c.user = u

(***************************************************************************)
(* One pass of admission: as many as there is room for.                    *)
(***************************************************************************)
AdmitQueued ==
  LET free     == Limit - Cardinality(running)
      admitted == Admit(queue, free)
  IN  /\ free > 0
      /\ queue # {}
      /\ queue' = queue \ admitted
      /\ running' = running \cup admitted
      /\ batch' = [queued |-> queue, slots |-> free, admitted |-> admitted]
      /\ passed' = [u \in Users |->
                      IF Served(u, admitted) \/ ~Waiting(u, queue) THEN 0
                      ELSE passed[u] + Cardinality(admitted)]
      /\ UNCHANGED lastSeq

Finish(c) ==
  /\ running' = running \ {c}
  /\ UNCHANGED <<queue, lastSeq, batch, passed>>

Next ==
  \/ \E u \in Users, direct \in BOOLEAN : Enqueue(u, direct)
  \/ \E u \in Users : DeleteAccount(u)
  \/ AdmitQueued
  \/ \E c \in running : Finish(c)

Spec == Init /\ [][Next]_vars

-----------------------------------------------------------------------------
\* Every variable holds a value of its kind (the rows and counters admitQueued works from).
TypeOK ==
  /\ queue \subseteq Candidate
  /\ running \subseteq Candidate
  /\ lastSeq \in 0..MaxQueued
  /\ batch \in [queued : SUBSET Candidate, slots : 0..Limit, admitted : SUBSET Candidate]
  /\ passed \in [Users -> Nat]

(***************************************************************************)
(* Between two turns of a user with work waiting, every other user is      *)
(* served at most once: "Slots rotate, so one person expanding a 500-item  *)
(* channel cannot make everybody else wait hours" (queue.go), however few  *)
(* slots come free at a time.                                              *)
(***************************************************************************)
FairAcrossCycles == \A u \in Users : passed[u] < Cardinality(Users)
=============================================================================
