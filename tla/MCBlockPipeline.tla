--------------------------- MODULE MCBlockPipeline ---------------------------
(* A short chain: two historical blocks at most, and one incomplete block.   *)
EXTENDS BlockPipeline
=============================================================================
