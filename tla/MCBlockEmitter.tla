--------------------------- MODULE MCBlockEmitter ---------------------------
(***************************************************************************)
(* Values of one, two and four elements, enough to go beyond the sixteenth *)
(* element with five operands, and a successor with up to three parameters.*)
(***************************************************************************)
EXTENDS BlockEmitter

MCWidthOf == << 1, 4, 2 >>
MCParams == << 11, 12, 13 >>

=============================================================================
