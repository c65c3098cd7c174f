------------------------ MODULE MCCanProtocolServer ------------------------
(* CanProtocolServer with small budgets and a short queue, for TLC. *)
EXTENDS CanProtocolServer

MCApplicationCategories == {"motor", "firmware"}
MCSequencedCategories == {"motor"}

=============================================================================
