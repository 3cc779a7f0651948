-------------------------- MODULE MCInboxDelivery --------------------------
(* Small instances of InboxDelivery for TLC. *)
EXTENDS InboxDelivery, TLC

Symmetry == Permutations(Msg) \union Permutations(Run) \union Permutations(Lease)
=============================================================================
