---------------------------- MODULE MCGdbSession ----------------------------
(* GdbSession with a guest of two instructions and a final loop. *)
EXTENDS GdbSession

ShortGuest == <<"entry", "second", "loop", "loop">>
==============================================================================
