------------------------------ MODULE Procedures ------------------------------
(***************************************************************************)
(* Compiled code on Transfers: procedures that call each other, save lr    *)
(* and the callee-saved r4 on the stack, keep a local variable there, and  *)
(* load and store global data by every form of addressing.  The code uses  *)
(* the instructions as the disassembler's listing of them reads (Listing). *)
(* It does not look at its stack pointer: nobody does, and a push below    *)
(* the RAM is dropped with a message.                                      *)
(*                                                                         *)
(* What a procedure remembers of itself while it runs is where the         *)
(* compiler has put things, which frames says; the things themselves are   *)
(* in memory.                                                              *)
(***************************************************************************)
EXTENDS Listing

CONSTANTS
  Insns,      (* Loads and stores, ...                                        *)
  DataInsns,  (* ... those among them the compiler uses on global data.       *)
  Pushes,     (* How a procedure may begin, ...                               *)
  Pops,       (* ... and how it may end.                                      *)
  Globals,    (* The addresses of the global data, at the bottom of the RAM.  *)
  StackTop,   (* The stack pointer in the vector table.                       *)
  CodeEnd,    (* Code reaches up to here: the bound on the pc.                *)
  Pointer,    (* What the start-up code leaves in r0.                         *)
  Values,     (* What the code puts into r4.                                  *)
  MaxDepth,   (* The bound on the calls,                                      *)
  MaxData     (* and on the transfers of global data in a behaviour.          *)

(* A compiler keeps its stack on words and addresses global data by a register of
   its own. *)
ASSUME ProceduresAssumption ==
  /\ AddrMod % 4 = 0
  /\ {0, 1, 4} \subseteq Registers
  /\ Globals \subseteq Address /\ StackTop \in Address /\ StackTop % 4 = 0
  /\ Pointer \in Address /\ Values \subseteq Address /\ MaxDepth \in Nat /\ MaxData \in Nat
  /\ \A i \in Insns \cup Pushes \cup Pops : Decoded(i)
  /\ DataInsns \subseteq Insns
  /\ \A i \in DataInsns :
       /\ i.op \notin {"push", "pop"}
       /\ ({i.Rn, i.Rt, i.Rtx} \cup i.register_list) \cap {REG_SP, REG_LR, REG_PC} = {}
  /\ \A i \in Pushes \cup Pops : REG_SP \notin i.register_list
  /\ \A i \in Pushes :
       /\ i.op = "push" \/ (i.op = "stmdb" /\ i.Rn = REG_SP /\ i.W)
       /\ REG_LR \in i.register_list
  /\ \A i \in Pops : i.op = "pop" \/ (i.op = "ldm" /\ i.T = 2 /\ i.Rn = REG_SP /\ i.W)

(* What calls need besides, to work: the compiler uses on global data the
   instructions whose listing says what they do, and no push stores the pc; the
   stack is in the RAM above the global data, which is far enough above address 0
   that no register list reaches around below it. *)
IsRam(a) == LET s == getslice(Machine, a, 4) IN s # 0 /\ ~Machine[s].read_only

ASSUME CallsAssumption ==
  /\ \A i \in DataInsns : ~Misprinted(i) /\ ~ByteByRegister(i)
  /\ \A i \in Pushes : REG_PC \notin i.register_list
  /\ CodeEnd \in Nat /\ CodeEnd + 4 <= AddrMod
  /\ (\E g \in Globals : g >= 4 * 16) /\ \A g \in Globals : g < StackTop
  /\ \A a \in Address : (a % 4 = 0 /\ a < StackTop /\ \A g \in Globals : g < a) => IsRam(a)

VARIABLES
  frames,  (* of each activation: the stack pointer it was entered with, the  *)
           (* registers it has pushed, the number of its local words          *)
  fits,    (* the stack has never reached into the global data                *)
  left     (* transfers of global data left                                   *)

vars == <<transfer_vars, frames, fits, left>>

Plain == [op |-> "none", T |-> 1, wide |-> FALSE, Rt |-> 0, Rtx |-> 1, Rn |-> 0, Rm |-> 1,
          imm |-> 0, P |-> TRUE, U |-> TRUE, W |-> FALSE, register_list |-> {}]

Main == frames = <<>>
Current == frames[Len(frames)]
Callers == SubSeq(frames, 1, Len(frames) - 1)

(* A procedure may change r4, and call others, when it has saved r4 and lr. *)
OwnsR4 == ~Main => 4 \in Current.pushed
OwnsLr == ~Main => REG_LR \in Current.pushed

------------------------------------------------------------------------------
(* init_cortexm with an image for the RAM, which has the global data. *)
Init ==
  /\ reg = [r \in Registers |-> CASE r = REG_SP -> StackTop [] r = REG_LR -> AddrMod - 1 [] r = 0 -> Pointer [] OTHER -> 0]
  /\ mem = [s \in DOMAIN Machine |->
              [k \in 0 .. SliceLength(Machine[s]) - 1 |->
                 IF Machine[s].read_only \/ Machine[s].begin + k \in Globals THEN k % Radix ELSE 0]]
  /\ frames = <<>>
  /\ fits = TRUE
  /\ left = MaxData

(* The code executes i, which is in the code, and its stack pointer may have
   reached into the global data. *)
Do(i) ==
  /\ reg[REG_PC] < CodeEnd
  /\ Execute(i)
  /\ fits' = (fits /\ \A g \in Globals : g < reg'[REG_SP])

Call ==
  /\ OwnsLr /\ Len(frames) < MaxDepth
  /\ Do([Plain EXCEPT !.op = "bl", !.imm = -((reg[REG_PC] + 4) \div 2)])
  /\ frames' = Append(frames, [sp |-> reg[REG_SP], pushed |-> {}, locals |-> 0])
  /\ UNCHANGED left

Enter(i) ==
  /\ ~Main /\ Current.pushed = {}
  /\ Do(i)
  /\ frames' = Append(Callers, [Current EXCEPT !.pushed = i.register_list])
  /\ UNCHANGED left

OpenLocal ==
  /\ ~Main /\ Current.pushed # {} /\ Current.locals = 0
  /\ Do([Plain EXCEPT !.op = "sub_SP", !.imm = 1])
  /\ frames' = Append(Callers, [Current EXCEPT !.locals = 1])
  /\ UNCHANGED left

CloseLocal ==
  /\ ~Main /\ Current.locals = 1
  /\ Do([Plain EXCEPT !.op = "add_SP", !.imm = 1])
  /\ frames' = Append(Callers, [Current EXCEPT !.locals = 0])
  /\ UNCHANGED left

SetLocal ==
  /\ ~Main /\ Current.locals = 1
  /\ Do([Plain EXCEPT !.op = "str_imm", !.T = 2, !.Rt = 4, !.Rn = REG_SP])
  /\ UNCHANGED <<frames, left>>

GetLocal ==
  /\ ~Main /\ Current.locals = 1 /\ OwnsR4
  /\ Do([Plain EXCEPT !.op = "ldr_imm", !.T = 2, !.Rt = 4, !.Rn = REG_SP])
  /\ UNCHANGED <<frames, left>>

(* pop into pc, with what was pushed from lr. *)
Leave(i) ==
  /\ ~Main /\ Current.locals = 0 /\ Current.pushed # {}
  /\ i.register_list = (Current.pushed \ {REG_LR}) \cup {REG_PC}
  /\ Do(i)
  /\ frames' = Callers
  /\ UNCHANGED left

(* pop everything back, and return with bx *)
Restore(i) ==
  /\ ~Main /\ Current.locals = 0 /\ Current.pushed # {}
  /\ i.register_list = Current.pushed
  /\ Do(i)
  /\ frames' = Append(Callers, [Current EXCEPT !.pushed = {}])
  /\ UNCHANGED left

Back ==
  /\ ~Main /\ Current.pushed = {}
  /\ Do([Plain EXCEPT !.op = "bx", !.Rm = REG_LR])
  /\ frames' = Callers
  /\ UNCHANGED left

(* Registers a transfer of global data writes, by its listing. *)
Updates(i) == IF i.op \in Blocks THEN Listed(i).update ELSE Listed(i).mode # "offset"
Written(i) ==
  (IF i.op \in Blocks /\ i.op \in Loads THEN i.register_list ELSE {})
    \cup (IF i.op \in Loads \ Blocks THEN {i.Rt} ELSE {})
    \cup (IF i.op = "ldrd_imm" THEN {i.Rtx} ELSE {})
    \cup (IF Updates(i) THEN {i.Rn} ELSE {})

Data(i) ==
  /\ left > 0
  /\ Lawful(i) /\ Footprint(i) \subseteq Globals
  /\ 4 \in Written(i) => OwnsR4
  /\ Do(i)
  /\ left' = left - 1
  /\ UNCHANGED frames

Move(v) ==
  /\ OwnsR4
  /\ Do([Plain EXCEPT !.op = "mov_imm", !.Rt = 4, !.imm = v])
  /\ UNCHANGED <<frames, left>>

Loop ==
  /\ Execute([Plain EXCEPT !.op = "b", !.imm = -((reg[REG_PC] + 4) \div 2)])
  /\ UNCHANGED <<frames, fits, left>>

Next ==
  \/ Call \/ OpenLocal \/ CloseLocal \/ SetLocal \/ GetLocal \/ Back \/ Loop
  \/ \E i \in Pushes : Enter(i)
  \/ \E i \in Pops : Leave(i) \/ Restore(i)
  \/ \E i \in DataInsns : Data(i)
  \/ \E v \in Values : Move(v)

Spec == Init /\ [][Next]_vars

------------------------------------------------------------------------------
Frame == [sp : Address, pushed : SUBSET Registers, locals : {0, 1}]

TypeOK ==
  /\ reg \in [Registers -> Address]
  /\ \A s \in DOMAIN Machine : mem[s] \in [0 .. SliceLength(Machine[s]) - 1 -> 0 .. Radix - 1]
  /\ frames \in Seq(Frame) /\ Len(frames) <= MaxDepth
  /\ fits \in BOOLEAN /\ left \in 0 .. MaxData

(* In every state, every lawful load and store would do what its line in the
   disassembler's listing says: the handlers of impl_emulation.c with their
   loops, scaled immediates and P, U and W against the operands that
   impl_disassembly.c prints for the same bits. *)
AccessesAsListed ==
  \A i \in Insns \cup Pushes \cup Pops :
    (Lawful(i) /\ ~Misprinted(i) /\ ~ByteByRegister(i)) => Executed(i) = AsListed(i)

(* impl_disassembly.c lists ldrb.w and strb.w with an index in a register as
   [rn, rm, lsl #imm]. *)
IndexedBytesAsListed ==
  \A i \in Insns : ByteByRegister(i) => Executed(i) = AsListed(i)

(* The frames.  Low is where the stack pointer stands above a frame. *)
Low(f) == f.sp - 4 * Cardinality(f.pushed) - 4 * f.locals
Tip(fs) == IF fs = <<>> THEN StackTop ELSE Low(fs[Len(fs)])

(* What is pushed has lr, and a local word lies above what is pushed. *)
Shaped(f) ==
  /\ f.sp % 4 = 0 /\ f.sp <= StackTop
  /\ f.pushed = {} => f.locals = 0
  /\ f.pushed # {} => REG_LR \in f.pushed /\ REG_SP \notin f.pushed /\ REG_PC \notin f.pushed

(* Each frame begins where the one before it ends. *)
Stacked(fs) ==
  /\ \A k \in 1 .. Len(fs) : Shaped(fs[k])
  /\ \A k \in 1 .. Len(fs) - 1 : fs[k].pushed # {}
  /\ \A k \in 1 .. Len(fs) : fs[k].sp = IF k = 1 THEN StackTop ELSE Low(fs[k - 1])
  /\ \A j, k \in 1 .. Len(fs) : j < k => fs[k].sp <= Low(fs[j])

(* Above the global data. *)
Roomy(a) == a \in Address /\ \A g \in Globals : g < a

Settled(fs, rg) ==
  /\ Stacked(fs) /\ rg[REG_SP] = Tip(fs)
  /\ Roomy(rg[REG_SP]) /\ rg[REG_PC] % 2 = 0

(* As long as the stack fits, its frames end where the stack pointer is, on words
   of the RAM above the global data: no push, pop, local variable or transfer of
   global data in impl_emulation.c moves the stack pointer by anything else than
   what it stores or takes off. *)
StackSettled == fits => Settled(frames, reg)

(* Where frame k keeps register r, and its local word. *)
Home(k, r) ==
  frames[k].sp - 4 * Cardinality(frames[k].pushed) + 4 * Cardinality({q \in frames[k].pushed : q < r})
LocalHome(k) == frames[k].sp - 4 * Cardinality(frames[k].pushed) - 4

(* The caller's r4 of activation k is in the outermost frame from k on that has
   saved it, or still in the register. *)
SavedR4(k) ==
  LET savers == {j \in k .. Len(frames) : 4 \in frames[j].pushed}
  IN IF savers = {} THEN reg[4]
     ELSE read_n(Word(Home(CHOOSE j \in savers : \A l \in savers : j <= l, 4)), 4)

Context(k) ==
  [ret   |-> Even(IF REG_LR \in frames[k].pushed THEN read_n(Word(Home(k, REG_LR)), 4) ELSE reg[REG_LR]),
   saved |-> SavedR4(k),
   sp    |-> frames[k].sp,
   local |-> IF frames[k].locals = 1 THEN <<read_n(Word(LocalHome(k)), 4)>> ELSE <<>>]
Contexts == [k \in 1 .. Len(frames) |-> Context(k)]

Calls == INSTANCE Activations WITH
  Main <- [sp |-> StackTop, pc |-> 0],
  calls <- Contexts,
  r4 <- reg[4],
  sp <- reg[REG_SP],
  pc <- reg[REG_PC]

(* Calls work: as long as the stack fits into the RAM above the global data,
   every procedure returns behind its call, with the caller's r4, stack pointer
   and local variable intact, in any nesting of procedures that push in one way
   and pop in another and use every form of addressing in between. *)
ImplementsActivations == Calls!Spec
==============================================================================
