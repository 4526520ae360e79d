------------------------------ MODULE YtdlAdmit ------------------------------
(***************************************************************************)
(* Which queued downloads start next (server/internal/ytdl/queue.go).      *)
(*                                                                         *)
(* A candidate is a record [id, user, direct, seq].  Its seq is the row's  *)
(* queue_seq, which the store hands out as MAX + 1, so the candidates of   *)
(* one queue are told apart by it.                                         *)
(*                                                                         *)
(* The code deals the candidates out in rounds: one from every user, then  *)
(* another from every user who has one left, until the slots run out.      *)
(* Here the same choice is a closed form: a candidate's round is how many  *)
(* of its own user's candidates go first, and inside a round the users go  *)
(* in the order of their first candidate.  Module YtdlQueueMC checks the   *)
(* closed form against the loop itself.                                    *)
(***************************************************************************)
EXTENDS Integers, FiniteSets

CONSTANT NoUser   \* the owner of a row whose account was deleted

(***************************************************************************)
(* The candidates that count: nobody is waiting for an unattributed one.   *)
(***************************************************************************)
Attributed(queued) == {c \in queued : c.user # NoUser}

(***************************************************************************)
(* Within one user, a pasted link goes before bulk work, and then          *)
(* submission order decides.                                               *)
(***************************************************************************)
AheadFifo(c, d) == c.seq < d.seq

Ahead(c, d) ==
  \/ c.direct /\ ~d.direct
  \/ c.direct = d.direct /\ c.seq < d.seq

Rivals(queued, c) == {d \in Attributed(queued) : d.user = c.user /\ Ahead(d, c)}

\* The round in which c is dealt, counting from 0.
Round(queued, c) == Cardinality(Rivals(queued, c))

\* The user of c takes part in a round before the user of d: by their first candidates.
UserBefore(queued, c, d) ==
  \E e, f \in Attributed(queued) :
    /\ e.user = c.user /\ Round(queued, e) = 0
    /\ f.user = d.user /\ Round(queued, f) = 0
    /\ e.seq < f.seq

DealtBeforeGreedy(queued, c, d) ==
  \/ UserBefore(queued, c, d)
  \/ c.user = d.user /\ Ahead(c, d)

DealtBefore(queued, c, d) ==
  \/ Round(queued, c) < Round(queued, d)
  \/ Round(queued, c) = Round(queued, d) /\ UserBefore(queued, c, d)

Position(queued, c) == Cardinality({d \in Attributed(queued) : DealtBefore(queued, d, c)})

AdmitOneExtra(queued, slots) ==
  {c \in Attributed(queued) : slots > 0 /\ Position(queued, c) <= slots}

AdmitReserving(queued, slots) ==
  {c \in Attributed(queued) : Position(queued, c) < slots /\ Round(queued, c) = 0}

(***************************************************************************)
(* Admit: the first `slots` candidates in the order they are dealt.        *)
(***************************************************************************)
Admit(queued, slots) == {c \in Attributed(queued) : Position(queued, c) < slots}
=============================================================================
