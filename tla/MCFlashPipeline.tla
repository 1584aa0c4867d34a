---- MODULE MCFlashPipeline ----
(* Instances of FlashPipeline for TLC. *)
EXTENDS FlashPipeline, TLC

(* Projects are alike. *)
FlashSymmetry == Permutations(Projects)

(* A page whose URL names no operation. *)
NoUrls == {[op |-> "none"]}
====
