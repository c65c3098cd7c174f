------------------------ MODULE MCCanFrameTransport ------------------------
(* CanFrameTransport with a short queue, for TLC. *)
EXTENDS CanFrameTransport

MCPriorities == {0, 4, 8}

=============================================================================
