------------------------------ MODULE MC_Mounts ------------------------------
(* Two ZIP archives a.zip and b.zip and one name without a known           *)
(* extension, any of them present when the folder is mounted.              *)
EXTENDS Mounts

MC_TypeOf == [n \in Names |-> n \in {"a.zip", "b.zip"}]

=============================================================================
