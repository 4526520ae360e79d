----------------------------- MODULE YtdlLiveMC -----------------------------
(***************************************************************************)
(* Two pages: one account's, which owns every row, and one that sees the   *)
(* rows only while it is an administrator's.                               *)
(***************************************************************************)
EXTENDS YtdlLive

CONSTANTS ann, bob

OwnerIsAnn == [r \in Rows |-> ann]
=============================================================================
