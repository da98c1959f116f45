# Models and proofs for libthumb2sim

libthumb2sim emulates the user-level part of the Thumb-2 instruction set of a
Cortex-M3/M4 for tracing cryptographic code. This directory holds TLA+ modules
that model its parts, TLC configurations that check them on small instances, and
TLAPS proofs of what holds for every size. Paths below are relative to the
repository's root.

    tlc -workers 2 -config AddressSpace_any.cfg MCAddressSpace
    tlapm AddressSpace_proofs.tla

## The system

| part | code | state it keeps | operations |
|---|---|---|---|
| address space | `address_space.c` | the array of slices; the host's buffers behind them | `addrspace_add_rom_region`/`_ram_region`, `read8/16/32`, `write8/16/32`, `memptr` |
| core | `cpu_cm3.c`, `impl_emulation.c` | registers, psr, IT state and condition, instruction counter | `cpu_single_step`, `cpu_run`, `cpu_reset`, one handler per encoding |
| instruction decoder | `decoder.c`, generated by `codegen/` from `instructions.xml` | none | `decode_insn`: a chain of 365 conditions |
| loads and stores | `impl_emulation.c` | registers and memory | single, dual and block transfers with their writeback |
| disassembler | `impl_disassembly.c`, `disassembler.c` | none | the second set of handlers behind the decoder |
| machine set-up | `convenience.c` | none of its own | `init_cortexm`, `load_file` |
| example host | `app/thumb2sim.c` | `end_emulation` | the callbacks for BKPT and the four system calls |
| gdb server | `gdbserver/gdbserver.c` | one machine, one connection | the remote protocol's commands, one per read of the socket |
| gdb client | `qemu/DebuggingProtocol.py` | the receive thread, its buffer, the queue of replies | `send_cmd`, `get_regs`, `hash_memory`, `single_step`, `kill_request` |
| tracing session | `qemu/run_testcase.py`, `qemu/TraceWriter.py` | step count, last pc, chain of state hashes | step, record, stop at the final loop, kill the emulator |
| comparator | `qemu/TraceReader.py`, `qemu/cmp_trace.py` | positions in two traces | `align`, `_compare_tracepoint` |

How they interact. The host calls `init_cortexm`, which adds a ROM and a RAM
region, loads the image and resets the core, and then `cpu_run`. That loop asks
the host before each instruction whether to go on; `cpu_single_step` reads four
bytes at the pc through the address space, `decode_insn` finds the branch and
calls the handler, and the handlers read and write memory through the same
lookup. BKPT calls back into the host; BKPT 255 is a system call, whose pointer
argument is resolved by `addrspace_memptr`. The gdb server drives the same core
one step at a time for a Python client over a UNIX socket. Two emulators (this
one and qemu) are traced through the same guest and their traces compared.

What is hard. There is one thread in the library, so its difficulties are long
sequences and edges: 32-bit wrapping of addresses, overlapping regions, an
8-bit IT state that is pushed and shifted by different instructions, callbacks in the middle of a step, and an order of
overlapping conditions that is set by hand. The tracing session is concurrent:
two threads and a process, a stream cut anywhere, timeouts, and a process that
may die in between; what it keeps of a run (decimated, minified, limited) must
still be comparable. `PROJECT.json` lists each hazard at its line.

What makes each part correct:

* address space: an access that is granted stays in the buffer behind its
  region; a region added later takes nothing over; reads see the last write.
* core: the IT block applies to the instructions and in the sense it was written
  with; the pc stays on halfwords.
* loads and stores: an access is the one its listing names; the writeback never
  touches anything else; a procedure returns to its caller with what it saved.
* data processing: after a comparison or an addition the conditions say what it came
  to; a carry lasts until the instruction it is for; what a shift moves out is not lost.
* decoder: the length is the architecture's; a special case is never taken for
  the general encoding; an immediate is the one that was assembled.
* host: no instruction after the end was requested; the host's memory is touched
  inside the guest's regions only.
* session: a tracepoint is one state of the guest; every session ends and leaves
  no emulator behind.
* traces: agreement is reported only if the emulators agreed, disagreement only
  if they did not.

## Modules

| module | models | uses |
|---|---|---|
| `Slices` | the lookup of an address among slices, with wrapping addresses | |
| `AddressSpace` | regions, reads, writes, pointers | `Slices` |
| `FlatMemory` | abstract: an address names a byte of a bank, or nothing | |
| `Conditions` | flags and `cond_satisfied` | |
| `CpuCm3` | `cpu_single_step`, `cpu_reset`, and what every handler does to pc, lr, flags, IT state | `Conditions` |
| `ItBlock` | abstract: the letters of an IT instruction, used up one by one | `Conditions` |
| `Transfers` | loads and stores by value, between registers and memory | `Slices` |
| `Listing` | reference: the operands the disassembler prints, and how they are read | `Transfers` |
| `Procedures` | compiled code that calls, saves, loads and stores | `Listing` |
| `Activations` | abstract: the contexts of the procedures that have not returned | |
| `Alu` | the flags of the data processing handlers; sums, comparisons and shifts by value | `Conditions` |
| `Simulator` | `cpu_run` with the example host | `CpuCm3`, `Slices` |
| `RxStream` | framing of the remote protocol and the client's tokenizer | |
| `GdbSession` | a whole tracing session: main thread, receive thread, server | `RxStream` |
| `Traces` | writing two traces and comparing them | |
| `Encodings` | the 365 conditions of `decode_insn` as bit sets | |
| `Immediates` | the immediates of 32-bit instructions, and the way back an assembler goes | |
| `Decoder` | which condition an opcode is taken by, and with which immediate | `Encodings`, `Immediates` |
| `*_proofs` | theorems on `AddressSpace`, `CpuCm3` (and `Simulator`), `Alu`, `Traces`, `GdbSession`, `Decoder`, `Procedures` | TLAPS |
| `Activations_proofs` | that `Procedures` implements `Activations` | `Procedures_proofs` |
| `MC*` | the small instances for TLC | |

**Slices, AddressSpace.** A slice is the record of `struct address_space_slice_t`
without its name. `getslice` is the scan of `addrspace_getslice_length`: the least index whose
slice matches, all arithmetic modulo `AddrMod`. `add_region` fails on a full
table as the code exits. A buffer has a byte for every offset, so a region can
be added onto any of them, and an access that leaves its region is possible in
the model; it then either hits whatever lies there or ends in `fault`, because
the kernel decides. A value is the sequence of its bytes, the lowest first. `resp` is what the last operation returned.

**FlatMemory** knows no slices. `AddressSpace` maps to it by `where`, the byte each address
resolves to. Nothing is promised once two regions overlap or one runs past the
top (`proper` is false from then on): the code resolves a wide access to a region
that contains all of it, which need not be the one that its first byte resolves to. An
access that runs past the top of the address space is left undefined
there, as `start + length` wraps in the code; it changes no byte all the same.

**CpuCm3.** An instruction is a record: the family of its handler, its
length, its effect on flags and lr and, for branches and IT, the operands that matter.
What it computes is any word. `Step` is `cpu_single_step` in its order: fetch,
decide by the IT state, execute or skip, advance the pc by the length, refresh
the execution bits, count. Handlers that branch subtract what the advance adds
back, as in the code; handlers that clear the IT state do so. The memory may hold any of a *set* of
instructions at each address, so a behaviour is any sequence of them and
self-modifying programs are included. `cpu_reset` may come at any time when
`HostMayReset`: it does not clear the IT state.

**ItBlock** has no bits: `pending` is the list of conditions still due. `CpuCm3`
implements it, step by step, in every block whose operands keep to the manual (`LawfulBlock`:
a condition, and no "else" of "always") and that was not opened inside another
one, whatever unlawful code came before. Resets are steps the letters say nothing of.

**Transfers, Listing.** A word has four bytes of `Radix` values, and there are as many
addresses as words, so that data and pointers are the same things, as in the
program. `storeRegisters` and `loadRegisters` are the loops of the code: recursive functions over
their sixteen rounds, one register each, a store in either direction, a load
upwards; the other handlers compute a target from base, immediate,
index and the bits P, U and W and hand it to `Load` or `Store`, whose writeback reads the base again.
`Listing` has the operands that `impl_disassembly.c` prints for the same bits,
and `AsListed` how a programmer reads them: one address, one set
of registers, one new base, no loops. `Lawful` excludes what the architecture
leaves open, `Misprinted` the listings that are wrong (see below). `Decoded` is what `decode_insn`
can pass: the types of the operands, and which notations have P, U and W.

**Procedures, Activations.** Code that follows the calling convention: a call, one of the
prologues, a local word opened and closed, stores and loads of it, transfers of
global data, and one of the epilogues (a pop into pc, or a pop into lr and `bx lr`).
`frames` is the compiler's knowledge of the layout; every value is in registers and memory.
`ProceduresAssumption` is what such code keeps to: a stack of aligned words, a push and a pop of the
stack pointer's own, and none of sp, lr and pc for global data. `CallsAssumption` is what calls need
besides to work: global data is transferred by instructions whose listing is right, pc is
not pushed, code ends below the top of memory, and the stack lies in a RAM above the global data and at least 16
words above address 0. `Written` is what a compiler believes an instruction to change, the base it updates
included. `Activations` has the
context of each procedure, which nobody else may change. Nobody checks the stack pointer: `fits` becomes false
when it reaches the global data, and nothing is promised from there on.

**Alu.** `addCondCode`, `subCondCodes`, `setMov` and `setLsl` are the helpers of
`impl_emulation.c`, an action is a kind of handler, its operands any words, because
registers and immediates are data. Whether a handler sets flags depends on its encoding, its S bit and the IT
state: `KeepFlags` is the other way. A shift by n places is a multiplication by, or a division
by, the factor `2^n`; `Factors` are those below the width. A shift by nothing shifts 1
by -1 in the code, and a shift by a register that holds 32 or more is undefined as well: any
carry in the one case, any word and any carry in the other. `carry_due` is the bit that a shift has moved out
where its handler puts it into C: for `lsl_imm_T1` at any distance, for the wide
forms, which use `barrel_shift`, after a shift by one only. Results of logic, products and bit fields are any
word. `subCondCode` subtracts `int32_t` that may overflow, which C does not define; `Overflowing` has the
two things a build makes of it: the wrapped difference, and the exact one where a
comparison with 0 is simplified. gcc with the `-O3` of `Makefile:3` does one for N and the other for V.
`decided` and `carry_due` remember what the flags are
due to and exist for the properties only.

**Simulator** extends `CpuCm3`: `AskHost` is the test at the head of `cpu_run`,
`Run` one step with the callbacks inside it. The guest's r0..r2 are data, so a BKPT
finds any call of `Calls` there. `Serve` is the system-call handler with the
callback of `app/thumb2sim.c`. `Touched` has the numbers of bytes the callback may go
through: none of an unknown call or the exit, those of its length for read and write. `puts` goes on to the
first zero byte: the data is not modelled, `Strings` are the lengths at which a zero may come.

**RxStream, GdbSession.** The stream is a sequence of symbols: `+`, `$`, the payload, `#`
and the two digits. `tokenizer` is the generator in `DebuggingProtocol.py`. `Send`,
`Receive` and `Timeout` are the halves of `send_cmd`, `Recorded`, `Looked` and
`Finish` the loop of `run_testcase.py`, `Joined` and `Kill` its ways out; `RxRecv` and
`RxEnd` the receive thread; `Server` reads everything that has arrived and
answers its first frame. `Crash` is the death of the server, between two commands, with one
unread, or with any part of an answer sent; `RxEnd` then notices that nothing more comes, or ends of an error
when a command was left unread. The guest's state is its number of executed instructions,
carried by every reply, so that a mixture of states shows.

**Traces.** Each emulator may reach any state at each step. `RecordStep` is one round of
the loop; `args` are the options a trace is made with. The hash of a state and its
predecessor's hash is taken to be injective, so it *is* the sequence of states.
`Align` and `Compare` are one round of `TraceReader.align` and `_compare_tracepoint`.

**Encodings, Immediates, Decoder.** An encoding is the set of bits that must be one and
of those that must be zero, in the order of the branches. `Decode` takes the
first that matches. The patterns were compared with the masks of every branch of
`decoder.c`, and those with the ones of `InstructionSetDecoder.py`: they are the
same 365 in the same order. A word is a set of bits too: `Piece` is the shifted mask that
the generator emits, and the extensions move, repeat, rotate and invert bits. `Encoded12` and
`EncodedDistance` go the other way, from a value to the bits of an opcode, by
arithmetic and without looking at how the code does it.

## What TLC checks

| run | bounds | shows |
|---|---|---|
| `address_space` | 6 addresses, 3 slices, 3 buffers, 2 byte values, lengths 1, 2, 4; 7 regions, overlapping, empty and wrapping ones too, in any order | granted accesses stay in the buffer; wide and narrow accesses agree; every region that ends below the top stays reachable; resolutions never change; refinement of `FlatMemory` |
| `cpu_any` | 4 addresses, 2 counter values; all instruction families anywhere, 28 IT instructions, IT in IT, branches out of blocks, resets | IT state never torn; odd pc only by data; undecodable words; refinement of `ItBlock` |
| `procedures` | 256 addresses of two-bit bytes, a ROM of 8 bytes, a RAM of 24, 6 registers, 89 loads and stores, three ways to push and four to pop; calls two deep, code that executes at address 0 and loops, one transfer of global data | loads and stores are what their listing says; the stack pointer is where the frames say; refinement of `Activations` |
| `simulator_host` | 14 addresses, ROM and RAM, 4 system calls and an unknown one with pointers below, in, across and above the regions, strings shorter and longer than their length and the region | no memory beside the region the guest named, but by `puts`; end of emulation |
| `gdb_session` | a guest of two instructions and a final loop, no limit or a limit of 2, regions that cannot be hashed, a server dying at any moment, any cut of the stream | tracepoints faithful, replies matched, nothing lost, session ends |
| `traces_any` | 2 pcs, 2 data values, 3 steps before the final loop, four ways to make each trace | no deviation missed, no false alarm, cause right, comparison ends |
| `alu_flags` | words of 3 bits, shifts by 0 to 2 places, every pair of operands, every flag register | unsigned comparisons and sums are told by the conditions; carries and shifted-out bits last |
| `decoder_overlaps` | for every two overlapping encodings the common opcodes with the fewest and the most ones; all 4096 constants of a move; 256 moves of halfwords; 768 branches; 5867 opcodes in all | lengths, independence of the next halfword, special cases first, constants, halfwords and distances as assembled |
| `procedures_listing`, `alu_signed`, `traces_recreated`, `decoder_calls` | as the run above them | a disagreement each, see below |

Why the bounds are enough. Everything about an access depends on how its ends
compare with the ends of slices; six addresses have room for a region that ends at the
top, one that wraps, an overlap and a gap at once, and three slices for a region
hidden by two others. The IT state is kept at its full eight bits because its width
matters; the masks have every number of letters, both senses, and the mask 0; the pc needs a
few halfwords only to wrap. A session of two instructions and a loop has
every stage of the client at least twice. Three steps are the fewest with a state
that no trace of decimation 2 keeps between two it keeps. An overlap of two
encodings is decided by bits that either names; the sparsest and the
densest common opcode differ in all others. Branches and moves of halfwords have every combination of
the bits at the ends of the pieces of their distance or halfword, which is where a piece could be
shifted by one or swapped with another. `VIEW WithoutAnswer` drops the last answer from
the state of `AddressSpace_any`, where no invariant reads it; the refinement looks at it in
steps only, where it is the answer of the step.

In `procedures` a frame has one or two words and a local one, so that two calls fit
into the five words of stack and a third push does not always: every way into the global data
happens, and `CONSTRAINT StackFits` stops there, because nothing is promised beyond.
Instructions execute at address 0 and, with the code's loop back, in any number, so
every call returns to 4: the activations are told apart by their stack pointers
and what they have saved, not by where they return to; a wrong word popped
into pc is still another address. A procedure clears r4 or loads the global word, whose
four bytes differ, into it: two values tell whose r4 a register or a word holds. The loads and stores are checked in every reachable state of
registers and memory, not only where the procedures use them.

Carry, overflow and sign depend on the order of the operands, of
their sum and of half the word size; words of 3 bits (`Half = 4`) have every
such order, and the proofs do not depend on it.

Deadlock is checked in the runs of `CpuCm3`, `Procedures` and `Alu`, which must always have a next
step; the other systems stop: a full table or a fault, the end of the emulation, of a
session, of a comparison, of a decoding.

Fairness. `Simulator`: `WF(SimNext)`; `cpu_run` is a loop of one thread that waits for
nobody. `GdbSession`: `WF` of each thread and the server; the
operating system schedules them, and the only wait of the main thread ends with a
reply or after a second. Nothing is assumed of the stream beyond what recv
gives: the server may crash (`Crash` has no fairness), and no reply has to come. `Traces`: `WF(Next)`, a
sequential program.

### Disagreements the runs show

* `procedures_listing`: with a shift in its encoding, `ldrb.w` shifts the byte it
  has loaded and `strb.w` adds the shift to the address; the disassembler lists both as
  `[rn, rm, lsl #imm]`, which is what `ldr` and `str` do with a word.
* `alu_signed`: after comparing 0 with `0x80000000` the condition `CONDITION_LT`, "Signed
  <" in `thumb2sim.h`, holds in the library as `Makefile` builds it. The flags of a
  comparison are right whenever the difference is an `int32_t`, and would always be
  if the overflow wrapped (`Overflowing(d) == {Signed(Word(d))}`, or `-fwrapv`).
* `traces_recreated`: a trace recreated from a reference takes the ROM from it but
  not its decimation. The last step's tracepoint and the final one have the same
  count and different positions in the chain of hashes; against a decimated
  reference they are compared with each other, and the comparison fails without
  any deviation.
* `decoder_calls`: `cmp_imm_T2` is tried before `bl_T1` and does not look at bit
  15 of the second halfword, so some calls are executed as comparisons.

### Seen while modelling, and not given a run

* Sessions: the emulator is sent the kill command "to shut it down gracefully so
  we can get profiling information" (`qemu/run_testcase.py:181`) and the kill signal right after,
  which may win.
* Comparator: the report on deviating constants calls `get_bytes`, which is named
  `getbytes` (`qemu/cmp_trace.py:94`). The generated Python decoder calls
  `_thumb_expand_imm` and the sign extensions with an underscore that their definitions have not
  (`codegen/InsnSet.py:109`), so an instruction with such an immediate cannot be
  described in a report.
* Arithmetic: `0x80000000` divided by -1 is undefined in C (`impl_emulation.c:1302`); ADC takes its flags from a sum with 1 more than the result, carry or not (`impl_emulation.c:224`),
  its register form from the old destination plus the carry (`:240`), and MVN takes them from
  the operand (`:1092`). `movs` of two registers is `lsls` by nothing and clears C (`:910`).
  `lsr` and `asr` by 32 are encoded as 0: the disassembler prints `#32`,
  the handlers shift by nothing (`:944`).
* Listings: `stmdb` is always printed with `!`, `strd` without regard for its P, U and W
  bits, `ldrd` without `!`. These are left out of `AccessesAsListed` by name (`Misprinted`).
* Decoder: `orn_imm_T1` and `teq_imm_T1` have a constant that `instructions.xml` does not
  extend, and `teq_imm_T1` has no handler, so that it is passed over in silence; `qsax_T1` (`decoder.c:2898`) repeats the
  condition of `qasx_T1` and is never taken, and so do `vcvta_T1` and
  `vcvt_fltint_T1`; `mov_reg_T3` takes some opcodes of `mov_imm_T3` (`decoder.c:2691`, `:3998`).
* Host: the registers printed before the first
  instruction have `lr = 0` (`README.md:36`) while `cpu_reset` sets lr to `0xffffffff`
  (`cpu_cm3.c:233`); `guest_read` returns 0 (`app/thumb2sim.c:58`) where the handler
  stores the "actual read length" (`impl_emulation.c:484`); "Abort after a million
  instructions" (`app/thumb2sim.c:39`) is looked at in BKPT only; the read call writes to a
  ROM, too (`impl_emulation.c:481`).

## What is proved

With tlapm, for all values of the constants that satisfy the named assumptions.

`AddressSpace_proofs`

| theorem | statement |
|---|---|
| `TypeCorrect` | `Spec => []TypeOK` |
| `GrantedAccessesInBuffer` | `Spec => []GrantedInBuffer`, any address, length and region |
| `RegionsStayReachable` | `Spec => []RegionsReachable`: the bytes of a region that ends below the top resolve, those of any other do not |
| `WideAndNarrowAgree` | `Spec => []WideAgreesWithBytes` |
| `ResolutionIsStable` | `Spec => ResolutionStable` |
| `AddressSpaceIsFlatMemory` | `Spec => ImplementsFlatMemory`, the refinement |

`TypeOK` is inductive. The others are facts about one lookup in well-typed slices:
`GetSliceSpec` (a result is the least match, which rests on `LeastNatural`), `MatchInBounds` (a match whose end
does not wrap lies in its slice), `ByteMatch` (a match of n bytes is a match of each). Stability
needs that slices are only ever appended: an old least match stays the least. The refinement rests on
`GrantedIsContiguous`: in disjoint regions an access is granted exactly when its addresses name
consecutive bytes of one bank, because a byte then has one slice only (`MatchIsCover`);
adding, reading, writing and asking for a pointer each map to their abstract step
(`AddIsFlat`, `ReadIsFlat`, `WriteIsFlat`, `PointerIsFlat`).

`CpuCm3_proofs`

| theorem | statement |
|---|---|
| `TypeCorrect` | `Spec => []TypeOK` |
| `ItStateStaysWellFormed` | `Spec => []ItStateWellFormed` |
| `PcStaysEven` | `Spec => OddPcOnlyByDataWrites` |
| `UndecodableWordTraps` | `Spec => UndecodableIsTrap` |
| `ItBlocksRunAsListed` | `Spec => ImplementsItBlock`, the refinement |

The inductive invariant is `IInv == TypeOK /\ ItStateWellFormed`.
Well-formedness (each pair of bits is none, then or else) is
needed together with the type, since a push keeps the form only of a well-formed byte
(`PushKeepsForm`, `ShiftKeepsForm`, `ItKeepsForm`; `RetireKeepsIInv` for every way out of a step). The parity of the pc rests on
`WordKeepsParity`: the modulus is even, so wrapping keeps parity. For the refinement, `VerdictsAre`
counts the entries of a byte, `ShiftIsTail` says that a shift drops the head of the list,
`ItOpensBlock` that four pushes write the list of the letters for every condition and mask,
and `BlockDecides` that an entry and its condition decide as the letter does, which is where "else of
always" has to be excluded.

Of the host, in the same module, for any guest, machine and system calls

| theorem | statement |
|---|---|
| `SimTypeCorrect` | `SimSpec => []SimTypeOK` |
| `HostStaysInGuestMemory` | `SimSpec => []HostTouchesGuestMemoryOnly` |
| `EndIsPrompt` | `SimSpec => NoStepAfterEnd` |

A step of the simulator is one of the core or leaves it alone (the lemma `SimulatorRunsTheCore`), which gives the core's type
invariant. The strengthening `SimIInv` says
that a step is started only while nobody has asked for the end: `AskHost` establishes it,
and every step goes back to asking.

`Traces_proofs`, for any programs, states, options and lengths

| theorem | statement |
|---|---|
| `TypeCorrect` | `Spec => []TypeOK` |
| `NoDeviationIsMissed` | `Spec => []NoDeviationMissed` |
| `NoAlarmIsFalse` | `Spec => []NoFalseAlarm`: a complaint is right, but for the broken chain of a final tracepoint under other options |
| `BlameIsRight` | `Spec => []CauseIsFirstDeviation` |

None of them is inductive. `IInv` has what the recorder has done (`Recording`: the log holds exactly the
tracepoints that the options keep, sorted, each with the hashes of its state and of all before it)
and where the comparator is (`Comparing`). `Compared` says that a count both
traces have a tracepoint of, once `align` is past it in either, has been found equal, and
thereby every state up to it, since the chain determines its past (`ChainUnique`). `InStep` says
that traces made with the same options are walked in step, without which a
missing counterpart at the end could be blamed on an instruction.

`Alu_proofs`, for words of any width

| theorem | statement |
|---|---|
| `TypeCorrect` | `Spec => []TypeOK` |
| `UnsignedComparisonsHold` | `Spec => []UnsignedComparisonsDecided` |
| `SumsAreExact` | `Spec => []SumsDecided` |
| `LongAdditionCarries` | `Spec => LongAddition` |

The inductive invariant adds `CarryKept`: a carry that is due is in C. `AddIsExact` says what the four
flags of an addition tell of its exact sum, `SubCompares` that Z and C of a
subtraction do not depend on the overflow, `SumOfThree` that adding the carry first and wrapping twice is
the same as wrapping once. The bit a shift moves out is taken by the code from a quotient and
by the property from a remainder or the other way round; `ScaledDiv` and `HalfOfRemainder`
say they are the same (`TopBitOut`, `BottomBitOut`). From `HalfAssumption` and `FactorsAssumption` alone.

`GdbSession_proofs`, for any guest, any refusals, any cut of the stream and a server dying at any moment

| theorem | statement |
|---|---|
| `TypeCorrect` | `Spec => []TypeOK` |
| `TracepointsAreFaithful` | `Spec => []TracepointsFaithful` |
| `RepliesMatch` | `Spec => []ReplyMatchesCommand` |
| `NoCommandIsLost` | `Spec => []NoCommandLost` |

The invariants say what the main thread has, but the reason is what is on the way to it. `Exchange` is
the core of the inductive invariant: at any moment at most one command is on its way, or its
answer is under way in two parts, the front of it in the client's buffer and the rest in
the socket, up to the symbol that a dying server has come to, or the answer's message is in the queue; between two commands nothing is anywhere.
`Commanded` has the lists of commands a stage may be at, `Fresh` that all replies of a stage are about
the present state, and `Within` how far the guest can be, which keeps the server from being asked to step beyond the loop. That a part of an answer yields no message and the whole of it
exactly the one that was sent (`AnswerInPieces`) is proved of the tokenizer: `TokenizerScans` has its
recursive function exist and unfold, `PartOfFrameWaits` and `FrameIsMessage` run it over the frame of any reply.
The proof found one assumption on the guest: a trace has at least two instructions before the
second round of the final loop (`Len(PcAt) > 2`), because the client cannot compare pcs before it has stepped twice.

`Decoder_proofs`, for all `2^32` opcodes

| theorem | statement |
|---|---|
| `LengthsMatch` | `Spec => []LengthMatchesFirstHalfword` |
| `NextHalfwordIsIrrelevant` | `Spec => []NextHalfwordIrrelevant`: any 16 bits behind a 16-bit instruction |
| `SpecialCasesComeFirst` | `TableInOrder => (Spec => []SpecialCasesFirst)` |
| `ImmediatesAreAsAssembled` | `Spec => []ImmediatesReadBack`: every branch and call goes where it was assembled to go, and every halfword and constant, plain, repeated or rotated, is the one that was assembled |

Every one of the 365 branches is shown to ask for the bits that tell its length (`Sound`), from the numbers of its masks;
`FirstMatch` says that the branch taken is the first that matches. Two opcodes with the same first halfword then agree
on every 16-bit branch and fail every 32-bit one alike. `TableInOrder` is a statement about pairs of branches,
with no opcode in it: TLC evaluates it for the table (`ChainIsInOrder`, an assumption of `MCDecoder`), the
proof takes it from there to every opcode.

The last rests on the invariant `Extended`: the handler is called with the immediate that is in the opcode. The
number a set of bits stands for is a sum, of which the proof looks at any one place: below it there is no
room for its power of two (`SumIsBelow`), above it everything is a multiple of twice that (`SumIsSplit`), so that
division gives the digit back (`DigitsReadBack`). From there a distance is the number its 24
bits are, less `2^24` when they are negative, and is within reach because the bits above the sign are copies of it (`SumOfSigns`,
`DistanceOf`). What is left is where each bit goes, and comes from: `BitsOfWord20` and `BitsOfWord24` say it of the
pieces, the extension and the two inverted bits, `ShortReadsBack` and `LongReadsBack` of the way back. A
constant whose byte is zero is the exception `ConstantsReadBack` makes (the word 0 has four encodings); of any other the highest one bit
tells rotations from patterns (`PatternReadsBack`, `RotationReadsBack`), because the amount of a rotation is 8 at least (`Rotation`).

`Procedures_proofs`, for any machine with aligned stack, any register lists, operands and data, and calls of any depth

| theorem | statement |
|---|---|
| `TypeCorrect` | `Spec => []TypeOK` |
| `LoadsAndStoresAreAsListed` | `Spec => []AccessesAsListed`: the loops and handlers do what the listing promises |

The second holds of every state with words in its registers and bytes in its memory
(`EveryAccessAsListed`), so the work is in the operators. The loops exist and unfold (`RoundsExist`, the sixteen
rounds written out), and round `r` is at the base plus four for each listed register below `r`, or minus four for each
from `r` on (`UpwardAddresses`, `DownwardAddresses`, which count with `CountBelow` and `CountFrom`). Two registers' slots are words apart
even where the block wraps (`SlotsApart`), so no round undoes another, and a byte of memory is what the one
round that owns it has put there (`StoredBytes`). From that `StoreBlock` and `LoadBlock` are the listed
transfer, in one piece. A single load or store has one lemma for each notation (`Listed_ldr_imm` and so on).

`TypeOK` is not inductive. `IInv` adds that the stack pointer is a multiple of four: a word popped at
an unaligned address at the top of the address space would be granted by a comparison that has wrapped,
and read from behind the buffer. With `AlignedHasRoom` the word is there, and whatever is read is a
word (`ReadIsAddress`). An action then needs its own reason why the stack pointer stays: a push and a pop move it
by whole words and do not list it (`PushIsTyped`, `PopIsTyped`), global data does not name it
(`DataIsTyped`). The listings that are wrong (`Misprinted`, and a byte loaded by a shifted register) are not `AsListed` and are typed from their handlers.
TLC checked `IInv`, without the bound on the stack as well, before it was proved.

`Activations_proofs`, for the same and `CallsAssumption`

| theorem | statement |
|---|---|
| `StackStaysSettled` | `Spec => []StackSettled` |
| `ProceduresKeepContexts` | `Spec => ImplementsActivations`, the refinement |

What a procedure relies on is in memory, and nothing in memory says whose it is: the contexts that `Activations` has as
values are read back from the words that `frames` points at, so every step of the code has to leave the words
alone that it does not own, and the reason is where they are. The inductive invariant is
`CInv == IInv /\ StackSettled`: while the stack fits, frames lie below one another without a gap, every frame but
the current one has pushed, each has pushed lr if anything, the stack pointer is at the lower
end of the last one and above the global data, and the pc is even. `IInv` alone is not enough, because a
stack pointer anywhere else would make a push overwrite a frame.

* Bytes. `WordReadBack`: a word stored as four bytes and read by division and multiplication is the word
  (`FourBytes`, from the uniqueness of quotients). `StackWordFits` puts every word of the stack into one slice of RAM, which is
  where `CallsAssumption` is used. `BelowIsUnchanged`: what is written below an address changes no word of the stack from there on.
* Frames. `Places` has the places of a frame, on words of its own; `StackedAbove` takes the stack one frame at a time; `AboveTip` says that every frame is
  above the stack pointer.
* Contexts. `ContextsOfTop` and `CallersAreContexts` take the contexts one frame at a time; that the
  caller's r4 is in the outermost frame from there on that has saved it, or still in the register, is `SavedBelow`, which takes the least of the frames that have.
  `CallersKept`: the callers' contexts are the same whenever the words above the stack pointer are.
* Steps. Each action comes down to one of five lemmas: the frames stay (`WorkSteps`), the current
  frame gets or loses its local word or pushes or pops its registers while its context stays (`LocalsSteps`, `FrameSteps`), a frame comes (`CallSteps`), a frame goes (`ReturnSteps`).
  For a push and a pop, `PushEffect` and `PopEffect` say that a register's round of the loop hits the
  register's place in the frame; that pc in the list reads where lr was stored is `PcForLr`. For a
  transfer of global data, `SingleDone` and `BlockDone` say that it changes registers of `Written` and bytes
  of its footprint only.

The proof found that `Written` has to have the base that an instruction updates: a procedure that had not
saved r4 could have moved it as a pointer. TLC did not, because the instance has r0 for a pointer. It
found the parts of `CallsAssumption` too: a register list of 16 words reaches around below address 0 when the RAM begins
there, and what is stored at the top of the address space comes back at its bottom.

Induction. The library's induction theorems take an operator and cannot be used. Where a proof needs induction over
positions of a stream or branches of a table, it takes a least counterexample instead (`LeastNatural`, `LeastIndex`, from `WFMin`), and over the bits of a number likewise (`UpTo24`).

Only model-checked:

* `TableInOrder`, the premise of `SpecialCasesComeFirst`: it compares every two rows of one table and has no parameter, so that TLC's
  evaluation of it leaves nothing out.
* All liveness: `EndReturns`, `SessionEnds`, `ComparisonEnds`.
* The four disagreements, which are counterexamples.

## What is not modelled

* The values that logic, products, quotients and bit fields compute: one line of C each, without any
  state.
* The registers and plain fields that `decode_insn` copies from the opcode. Loads and stores
  are not composed with the decoder and the IT state: `Transfers` takes a decoded
  instruction that is executed.
* Instructions whose handlers are not implemented; they report so and do nothing.
* Formatting: disassembly text but for IT and the operands of loads and stores, hex dump, register dump, the test case templates.
* MD5 (third-party, taken to be injective in `Traces`), the JSON of trace files.
* File loading and its failures, which `init_cortexm` ignores: a fault of one call,
  visible at once in the state it leaves.
* The guest test programs and the environment, which are input.

## Plan

All of it is done: address space; core; host; session; traces; decoder; flags; loads, stores
and procedures against the listing and an abstract stack of contexts; shifts by value;
immediates; and the proofs of the address space, the core, the host, the traces, the
flags, the session, the decoder and the procedures, with the three refinements. What is left besides is out of the tools' reach or not worth a
model, for the reasons above.
