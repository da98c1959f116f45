------------------------------- MODULE ItBlock -------------------------------
(***************************************************************************)
(* What an IT instruction promises, as the disassembler spells it out:     *)
(* "itet eq" lists, letter by letter, whether each of the next one to four *)
(* instructions runs when the condition holds (t) or when it does not (e). *)
(* There is no encoding here: pending is the list of the verdicts still    *)
(* due, oldest first.                                                      *)
(***************************************************************************)
EXTENDS Conditions, Sequences

VARIABLES
  pending,  (* what is due: [cond |-> c, then |-> b], at most four of them *)
  flags,
  last      (* the last instruction and whether it ran                      *)

vars == <<pending, flags, last>>

(* The number of letters behind "it": the loop over the low bits of mask. *)
Letters(mask) ==
  IF mask % 2 = 1 THEN 3
  ELSE IF (mask \div 2) % 2 = 1 THEN 2
  ELSE IF (mask \div 4) % 2 = 1 THEN 1
  ELSE 0

(* The i-th letter, counted from 0, is a "t". *)
IsThen(firstcond, mask, i) == (mask \div <<8, 4, 2, 1>>[i + 1]) % 2 = firstcond % 2

Block(firstcond, mask) ==
  [k \in 1 .. Letters(mask) + 1 |->
     [cond |-> firstcond, then |-> k = 1 \/ IsThen(firstcond, mask, k - 2)]]

(* "Else" is the opposite of "then", whatever the condition. *)
Due == \/ pending = <<>>
       \/ pending # <<>> /\ (Head(pending).then <=> cond_satisfied(flags, Head(pending).cond))

Init == pending = <<>> /\ flags = NoFlags /\ last = [op |-> "reset"]

Open(firstcond, mask) ==
  /\ pending = <<>>
  /\ pending' = Block(firstcond, mask)
  /\ last' = [op |-> "it", flags |-> "keep", ran |-> TRUE]
  /\ UNCHANGED flags

(* Any other instruction uses up one verdict and runs accordingly.  "set_alone"
   are the instructions that set the flags only outside an IT block. *)
Run(op, use) ==
  /\ last' = [op |-> op, flags |-> use, ran |-> Due]
  /\ pending' = IF pending = <<>> THEN <<>> ELSE Tail(pending)
  /\ \/ UNCHANGED flags
     \/ Due /\ use = "set"
     \/ Due /\ use = "set_alone" /\ pending = <<>>

Next ==
  \/ last'.op = "it" /\ \E c \in Conditions, m \in 0 .. 15 : Open(c, m)
  \/ last'.op # "it" /\ Run(last'.op, last'.flags)

Spec == Init /\ [][Next]_vars
==============================================================================
