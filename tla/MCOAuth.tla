-------------------------------- MODULE MCOAuth --------------------------------
(* The authorization server: two codes, six tokens, one crash. *)
EXTENDS OAuth

\* Devices and proofs share no table with codes and tokens: their steps are not
\* interleaved with each other.
Apart ==
  \/ seen = {} /\ \A d \in Device : devices[d] = "new"
  \/ codes = <<>> /\ tokens = <<>>
================================================================================
