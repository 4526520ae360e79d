----------------------------- MODULE YtdlQueueMC -----------------------------
(***************************************************************************)
(* YtdlQueue for TLC, and the loop of ytdl.Admit written as the loop it    *)
(* is, to compare the closed form with.                                    *)
(***************************************************************************)
EXTENDS YtdlQueue, SequencesExt

\* byUser[u] after the sort: one user's candidates in the order they should start.
ByUser(queued, u) ==
  SetToSortSeq({c \in queued : c.user = u},
               LAMBDA c, d : IF c.direct # d.direct THEN c.direct ELSE c.seq < d.seq)

\* users after the sort: by the sequence number of each one's first candidate.
UserOrder(queued) ==
  SetToSortSeq({c.user : c \in queued} \ {NoUser},
               LAMBDA u, v : ByUser(queued, u)[1].seq < ByUser(queued, v)[1].seq)

\* The round-robin: one candidate from each user in turn while slots are left.
RECURSIVE Deal(_, _, _, _)
Deal(groups, users, i, slots) ==
  IF slots = 0 \/ \A u \in DOMAIN groups : groups[u] = <<>> THEN <<>>
  ELSE LET u    == users[i]
           next == IF i = Len(users) THEN 1 ELSE i + 1
       IN  IF groups[u] = <<>> THEN Deal(groups, users, next, slots)
           ELSE <<Head(groups[u])>>
                \o Deal([groups EXCEPT ![u] = Tail(@)], users, next, slots - 1)

AdmitLoop(queued, slots) ==
  LET users == UserOrder(queued)
  IN  IF slots <= 0 \/ queued = {} THEN <<>>
      ELSE Deal([u \in ToSet(users) |-> ByUser(queued, u)], users, 1, slots)

(***************************************************************************)
(* The set Admit chooses is the set the round-robin loop of queue.go deals *)
(* out, for every queue the line can hold and every number of free slots.  *)
(***************************************************************************)
AdmitIsRoundRobin ==
  \A slots \in 0..Limit : Admit(queue, slots) = ToSet(AdmitLoop(queue, slots))
=============================================================================
