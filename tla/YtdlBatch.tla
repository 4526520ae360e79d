------------------------------ MODULE YtdlBatch ------------------------------
(***************************************************************************)
(* One admission of queued downloads (admitQueued in api/ytdl_reconcile.go *)
(* with Admit in ytdl/queue.go): what was queued, how many slots were      *)
(* free, and what was admitted; and what one admission promises.           *)
(***************************************************************************)
EXTENDS YtdlAdmit

VARIABLE batch    \* the last admission: what was queued, the free slots, what was admitted

NoBatch == [queued |-> {}, slots |-> 0, admitted |-> {}]

-----------------------------------------------------------------------------
Share(u) == Cardinality({c \in batch.admitted : c.user = u})

Unserved == batch.queued \ batch.admitted

(***************************************************************************)
(* Admission fills exactly the room there is: no slot idles while somebody *)
(* with an account is waiting, and never one download too many is started, *)
(* whoever the queue belongs to (queue.go, "Rotation never idles a slot"). *)
(***************************************************************************)
NoSlotIdles ==
  LET wanted == Cardinality({c \in batch.queued : c.user # NoUser})
  IN  Cardinality(batch.admitted) = IF wanted < batch.slots THEN wanted ELSE batch.slots

(***************************************************************************)
(* In one admission nobody who is still waiting gets more than one slot    *)
(* fewer than anybody else: the slots rotate between users.                *)
(***************************************************************************)
SlotsRotate ==
  \A c \in Unserved : c.user # NoUser =>
    \A d \in batch.admitted : Share(d.user) <= Share(c.user) + 1

(***************************************************************************)
(* A user's pasted link is never left waiting while one of their own       *)
(* expanded items is started, and among equals submission order holds.     *)
(***************************************************************************)
OwnOrderKept ==
  \A c \in batch.admitted, d \in Unserved :
    c.user = d.user =>
      /\ d.direct => c.direct
      /\ c.direct = d.direct => c.seq < d.seq
=============================================================================
