--------------------------- MODULE MCIngestPipeline ---------------------------
(***************************************************************************)
(* Three prose events and a tool event, two requests at a time, a channel  *)
(* of one event and batches of two: the channel fills up, a batch fills up,*)
(* and both are left partly filled by a shutdown.                          *)
(***************************************************************************)
EXTENDS IngestPipeline

CONSTANTS p1, p2, p3, t1, c1, c2
===============================================================================
