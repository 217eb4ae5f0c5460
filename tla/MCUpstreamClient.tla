-------------------------- MODULE MCUpstreamClient --------------------------
(* Bodies of up to MaxChunks chunks, more than both buffers hold. *)
EXTENDS UpstreamClient
=============================================================================
