---------------------------- MODULE MCSyncPipeline ----------------------------
(***************************************************************************)
(* Batches of two blocks, and two transparent addresses whose transactions  *)
(* interleave; one is of a block that the wallet already has.               *)
(***************************************************************************)
EXTENDS SyncPipeline

mcStreams == << <<0, 2>>, <<1>> >>
=============================================================================
