---------------------------- MODULE DownloadSlots ----------------------------
(***************************************************************************)
(* What the YouTube queue promises, with rows, workers, cycles and         *)
(* handlers left out: downloads wait, a waiting one may be given a slot    *)
(* when one is free, and any of them may leave at any time.  Nothing gets  *)
(* into a slot without having waited.                                      *)
(***************************************************************************)
EXTENDS Naturals, FiniteSets

CONSTANTS Ids, Limit

VARIABLES waiting, running

SlotVars == <<waiting, running>>

Init == waiting = {} /\ running = {}

\* Requests, expanded items and retries join the line.
Join ==
  /\ waiting \subseteq waiting'
  /\ waiting' \subseteq Ids \ running
  /\ UNCHANGED running

Start(id) ==
  /\ Cardinality(running) < Limit
  /\ waiting' = waiting \ {id}
  /\ running' = running \cup {id}

\* Downloads end, are dismissed, or are given up while they wait.
Leave ==
  /\ waiting' \subseteq waiting
  /\ running' \subseteq running

Next == Join \/ (\E id \in waiting : Start(id)) \/ Leave

Spec == Init /\ [][Next]_SlotVars
=============================================================================
