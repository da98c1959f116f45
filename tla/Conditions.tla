----------------------------- MODULE Conditions -----------------------------
(***************************************************************************)
(* The condition codes of impl_emulation.c: the fifteen conditions of      *)
(* it_cond_t over the four flags of the PSR, and the code 15 that the      *)
(* emulator meets when it negates "always" (it_cond ^ 1).                  *)
(***************************************************************************)
EXTENDS Integers

Flags == [n : BOOLEAN, z : BOOLEAN, c : BOOLEAN, v : BOOLEAN]

NoFlags == [n |-> FALSE, z |-> FALSE, c |-> FALSE, v |-> FALSE]

Conditions == 0 .. 15
CONDITION_EQ == 0
CONDITION_NE == 1
CONDITION_AL == 14

(* aCond ^ 1 *)
Negated(cond) == IF cond % 2 = 0 THEN cond + 1 ELSE cond - 1

(* cond_satisfied: codes outside the enumeration fall out of the switch and
   hold. *)
cond_satisfied(f, cond) ==
  CASE cond = 0  -> f.z
    [] cond = 1  -> ~f.z
    [] cond = 2  -> f.c
    [] cond = 3  -> ~f.c
    [] cond = 4  -> f.n
    [] cond = 5  -> ~f.n
    [] cond = 6  -> f.v
    [] cond = 7  -> ~f.v
    [] cond = 8  -> f.c /\ ~f.z
    [] cond = 9  -> ~(f.c /\ ~f.z)
    [] cond = 10 -> f.n = f.v
    [] cond = 11 -> f.n # f.v
    [] cond = 12 -> ~f.z /\ f.n = f.v
    [] cond = 13 -> f.z \/ f.n # f.v
    [] OTHER     -> TRUE
=============================================================================
