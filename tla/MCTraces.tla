------------------------------ MODULE MCTraces ------------------------------
(* Traces with guests of up to three instructions before the final loop, and
   every pair out of four ways to make a trace. *)
EXTENDS Traces

Every == [decimation |-> 1, minify_tracefile |-> FALSE, max_insn_cnt |-> 0]
SomeOptions ==
  {Every, [Every EXCEPT !.decimation = 2], [Every EXCEPT !.minify_tracefile = TRUE],
   [Every EXCEPT !.max_insn_cnt = 2]}
==============================================================================
