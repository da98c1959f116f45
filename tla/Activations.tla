----------------------------- MODULE Activations -----------------------------
(***************************************************************************)
(* What a compiler relies on when it emits procedure calls: the context of *)
(* every procedure that has been called and has not returned, i.e. where   *)
(* it returns to, the caller's callee-saved register and stack pointer,    *)
(* and its own local variable, is nobody else's to change.  There are no   *)
(* addresses and no memory here.  Nothing is promised from the moment on   *)
(* that the stack has outgrown its room.                                   *)
(***************************************************************************)
EXTENDS Integers, Sequences

CONSTANT Main   (* The stack pointer and the pc that main starts with. *)

VARIABLES
  calls,   (* the contexts, outermost first                                   *)
  r4,      (* the callee-saved register                                       *)
  sp, pc,
  fits     (* the stack has not outgrown its room yet                         *)

vars == <<calls, r4, sp, pc, fits>>

Top == calls[Len(calls)]

(* The callers' contexts. *)
Rest == SubSeq(calls, 1, Len(calls) - 1)

Init == calls = <<>> /\ r4 = 0 /\ sp = Main.sp /\ pc = Main.pc /\ fits = TRUE

Call ==
  /\ UNCHANGED <<r4, sp>>
  /\ calls' = Append(calls, [ret |-> pc + 4, saved |-> r4, sp |-> sp, local |-> <<>>])

(* Back behind the call, with the register and the stack as they were there. *)
Return ==
  /\ calls # <<>>
  /\ sp' = Top.sp /\ pc' = Top.ret /\ r4' = Top.saved
  /\ calls' = Rest

(* Work with registers and global data: no context changes. *)
Work == UNCHANGED calls

(* A local variable comes and goes with the activation, and changes by its
   stores only. *)
Locals ==
  /\ calls # <<>> /\ Len(calls') = Len(calls)
  /\ UNCHANGED r4
  /\ LET local == Top'.local
     IN /\ local \in {<<>>, <<r4>>} \/ Top.local = <<>>
        /\ calls' = Append(Rest, [Top EXCEPT !.local = local])

Next ==
  \/ ~fits'
  \/ fits /\ (Work \/ Call \/ Return \/ Locals)

Spec == Init /\ [][Next]_vars
==============================================================================
