----------------------------- MODULE MCDelivery -----------------------------
(* Instances of Delivery for TLC. *)
EXTENDS Delivery, TLC

CONSTANTS s1, s2, d1, d2

OneClassified == d1 :> "sasusync"
BothOthers == (d1 :> "apps_script") @@ (d2 :> "unclassified")

SenderSymmetry == Permutations({s1, s2})
=============================================================================
