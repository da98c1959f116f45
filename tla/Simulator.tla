------------------------------ MODULE Simulator ------------------------------
(***************************************************************************)
(* The example host app/thumb2sim.c: cpu_run drives the core of CpuCm3 and *)
(* asks the host before every instruction whether to go on; an executed    *)
(* BKPT calls back into the host, and BKPT 255 is a system call: the       *)
(* handler turns the guest's pointer and length into a pointer of the host *)
(* with the lookup of Slices and hands it to a callback.                   *)
(*                                                                         *)
(* The guest's r0, r1 and r2 are data to CpuCm3, so a BKPT may find any    *)
(* of Calls in them.                                                       *)
(***************************************************************************)
EXTENDS CpuCm3

CONSTANTS
  Machine,     (* The slices init_cortexm has added.                          *)
  Calls,       (* System calls: number, pointer and length, as the guest      *)
               (* leaves them in r0, r1 and r2.                               *)
  Strings,     (* How many bytes there may be from a pointer to the first     *)
               (* zero byte, with it: a string may end behind its region.     *)
  PairLength,  (* The length of the two integers the host sends, 8.           *)
  Tired        (* The number of instructions the host gets tired at, 1000000. *)

ASSUME TiredAssumption == Tired \in Nat /\ PairLength \in Nat \ {0}
ASSUME CallsAssumption == Calls \subseteq [no : Nat, ptr : Address, len : Address]
ASSUME StringsAssumption == Strings \subseteq Nat \ {0}
ASSUME BkptAssumption == \A i \in Insns : i.op = "bkpt" => i.imm \in 0 .. 255

ASSUME MachineAssumption ==
  /\ Len(Machine) \in Nat /\ DOMAIN Machine = 1 .. Len(Machine)
  /\ \A k \in 1 .. Len(Machine) : Machine[k].begin \in Address /\ Machine[k].end \in Address

Space == INSTANCE Slices WITH AddrMod <- PcMod

SYSCALL_GUEST_READ == 0
SYSCALL_GUEST_WRITE == 1
SYSCALL_GUEST_PUTS == 2
SYSCALL_GUEST_EXIT == 3

VARIABLES
  host,           (* where cpu_run is: "check", "step"; "returned" when it has  *)
                  (* returned, "fault" when the process died                    *)
  end_emulation,  (* the flag of struct user_ctx_t                              *)
  call            (* the last system call: the slice its pointer was granted    *)
                  (* from (0 is NULL), and how many bytes the callback touched  *)
                  (* from there on                                              *)

vars == <<cpu_vars, host, end_emulation, call>>

NoCall == [no |-> -1, ptr |-> 0, len |-> 0, slice |-> 0, touched |-> 0]

------------------------------------------------------------------------------
(* How many bytes a callback may touch at the pointer it gets from slice i.
   syscall_read fills in its two integers only when asked for exactly that much;
   syscall_puts reads up to the first zero byte, which is data, unless the pointer
   is NULL, which printf prints. *)
Touched_Always(c, i) == {IF c.no = SYSCALL_GUEST_READ THEN PairLength ELSE c.len}

Touched(c, i) ==
  CASE c.no = SYSCALL_GUEST_READ           -> {IF c.len = PairLength THEN PairLength ELSE 0}
    [] c.no = SYSCALL_GUEST_WRITE          -> {c.len}
    [] c.no = SYSCALL_GUEST_PUTS /\ i # 0 -> Strings
    [] OTHER                               -> {0}

(* What the handler and the callback do for call c.  Touching memory at NULL kills
   the process; outside the buffer behind the slice it is up to the kernel. *)
Serve(c) ==
  LET takes == c.no \in {SYSCALL_GUEST_READ, SYSCALL_GUEST_WRITE, SYSCALL_GUEST_PUTS}
      i == IF takes THEN Space!getslice(Machine, c.ptr, c.len) ELSE 0
  IN /\ end_emulation' = (end_emulation \/ insn_ctr >= Tired \/ c.no = SYSCALL_GUEST_EXIT)
     /\ \E n \in Touched(c, i) :
          /\ call' = [no |-> c.no, ptr |-> c.ptr, len |-> c.len, slice |-> i, touched |-> n]
          /\ \/ host' = "check" /\ (n = 0 \/ i # 0)
             \/ host' = "fault" /\ n > 0 /\ ~(i # 0 /\ Space!InSlice(Machine[i], c.ptr, n))

(* emulation_i16_bkpt_T1 with bkpt_callback: the host is asked for every
   breakpoint; only then does the handler look for a system call. *)
Bkpt(insn) ==
  \/ insn.imm = 255 /\ \E c \in Calls : Serve(c)
  \/ /\ insn.imm # 255
     /\ end_emulation' = (end_emulation \/ insn_ctr >= Tired)
     /\ host' = "check"
     /\ UNCHANGED call

(* One cpu_single_step within the host. *)
Execute(insn) ==
  /\ Step(insn)
  /\ \/ insn.op = "bkpt" /\ emulator_should_exec_next_insn /\ Bkpt(insn)
     \/ /\ insn.op # "bkpt" \/ ~emulator_should_exec_next_insn
        /\ host' = "check"
        /\ UNCHANGED <<end_emulation, call>>

SimInit ==
  /\ Init
  /\ host = "check"
  /\ end_emulation = FALSE
  /\ call = NoCall

AskHost_AfterStep ==   (* the first instruction after the request still runs *)
  /\ host = "check"
  /\ host' = IF end_emulation /\ last.op # "bkpt" THEN "returned" ELSE "step"
  /\ UNCHANGED <<cpu_vars, end_emulation, call>>

AskHost_Never ==
  /\ host = "check"
  /\ host' = IF end_emulation THEN "check" ELSE "step"
  /\ UNCHANGED <<cpu_vars, end_emulation, call>>

(* end_emulation_callback, at the head of the loop of cpu_run. *)
AskHost ==
  /\ host = "check"
  /\ host' = IF end_emulation THEN "returned" ELSE "step"
  /\ UNCHANGED <<cpu_vars, end_emulation, call>>

Run ==
  /\ host = "step"
  /\ \E insn \in Program[reg_pc] : Execute(insn)

SimNext == AskHost \/ Run

(* cpu_run is a loop of one thread that waits for nobody. *)
SimSpec == SimInit /\ [][SimNext]_vars /\ WF_vars(SimNext)

------------------------------------------------------------------------------
SimTypeOK ==
  /\ TypeOK
  /\ host \in {"check", "step", "returned", "fault"}
  /\ end_emulation \in BOOLEAN
  /\ call.slice \in 0 .. Len(Machine) /\ call.ptr \in Address /\ call.len \in Address /\ call.touched \in Nat

(* Which memory of the host a system call touches, for every pointer and length in
   the guest's registers.  At NULL, which an unmapped range gives, none that the
   process survives.  Otherwise the bytes up to the guest's length lie in the buffer
   of the region the pointer was granted from, unless pointer and length run past
   the top of the address space; and further bytes only syscall_puts touches, which
   looks for a zero.  The handler checks nothing: this holds because memptr is asked
   for the same length the callback goes by. *)
HostTouchesGuestMemoryOnly ==
  /\ call.slice = 0 /\ call.touched > 0 => host = "fault"
  /\ call.slice # 0 /\ call.ptr + call.len <= PcMod =>
       /\ \A n \in 0 .. call.touched : n <= call.len => Space!InSlice(Machine[call.slice], call.ptr, n)
       /\ call.touched > call.len => call.no = SYSCALL_GUEST_PUTS

(* Once the guest has asked to exit, or the host is tired, not one more
   instruction is executed: the request is raised in the middle of a step, the
   step is finished, and the loop asks before it starts the next. *)
NoStepAfterEnd == [][end_emulation => UNCHANGED cpu_vars]_vars

(* A request to end the emulation is honoured: cpu_run returns (or the same
   BKPT already killed the process with a bad pointer). *)
EndReturns == end_emulation ~> host \in {"returned", "fault"}
==============================================================================
