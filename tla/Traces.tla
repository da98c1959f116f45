------------------------------- MODULE Traces -------------------------------
(***************************************************************************)
(* Checking one emulator against another (qemu/run_compare): each of them  *)
(* is stepped through the same guest while TraceWriter keeps some of the   *)
(* states as tracepoints; then TraceReader.align walks both traces and     *)
(* _compare_tracepoint raises at the first pair that deviates.             *)
(*                                                                         *)
(* How a state is fetched is the matter of GdbSession; here it arrives.    *)
(* The hash of a state and of its predecessor's hash is taken to be        *)
(* injective: it is the sequence of the states hashed.                     *)
(***************************************************************************)
EXTENDS Integers, Sequences, SequencesExt

CONSTANTS
  Pcs, Data,    (* What a state is made of: the pc and all the rest.          *)
  MaxSteps,     (* The guest is in its final loop after so many instructions. *)
  Options       (* The options a trace may be made with.                      *)

ASSUME TracesAssumption ==
  /\ Pcs # {} /\ Data # {}
  /\ MaxSteps \in Nat
  /\ Options \subseteq
       [decimation : Nat \ {0}, minify_tracefile : BOOLEAN, max_insn_cnt : Nat]

VARIABLES
  args,        (* for each trace, the options it is made with                 *)
  phase,       (* "initial", "run", "final" of a trace being written; then
                  "compare" and at last the outcome: "same", "deviation" or
                  "broken", an exception of the comparator's own              *)
  writing,     (* the trace being written                                     *)
  states,      (* for each trace, the states its emulator has been in         *)
  last_pc,
  prev_state,  (* _previous_state of the TraceWriter                          *)
  trace,       (* the tracepoints of each                                     *)
  i, j,        (* the tracepoints align has come to                           *)
  cause        (* whether the report could name the instruction to blame      *)

vars == <<args, phase, writing, states, last_pc, prev_state, trace, i, j, cause>>

State == [pc : Pcs, data : Data]
Traced == 1 .. 2
Outcomes == {"same", "deviation", "broken"}

Executed(t) == Len(states[t]) - 1
Current(t) == Last(states[t])

------------------------------------------------------------------------------
Start == [pc |-> CHOOSE p \in Pcs : TRUE, data |-> CHOOSE d \in Data : TRUE]

Init ==
  /\ args \in [Traced -> Options]
  /\ phase = "initial" /\ writing = 1
  /\ states = [t \in Traced |-> <<Start>>]
  /\ last_pc = "None" /\ prev_state = <<>>
  /\ trace = [t \in Traced |-> <<>>]
  /\ i = 1 /\ j = 1 /\ cause = "none"

(* What record_state finds in state s: the components compared later. *)
Tracepoint(executed, s) ==
  [executed_insns |-> executed, components |-> <<prev_state, s>>]

Recorded(t, executed, s, append_to_trace) ==
  trace' = IF append_to_trace
             THEN [trace EXCEPT ![t] = Append(@, Tracepoint(executed, s))]
             ELSE trace

ChainOnAppend(append_to_trace, s) ==   (* forgets the steps it does not keep *)
  IF append_to_trace THEN Append(prev_state, s) ELSE prev_state

(* The hash of this state, which the next one will be chained to. *)
Chained(append_to_trace, s) == Append(prev_state, s)

(* record_state without a step, before the first and after the last one. *)
RecordInitial ==
  /\ phase = "initial"
  /\ Recorded(writing, 0, Current(writing), TRUE)
  /\ phase' = "run"
  /\ UNCHANGED <<args, writing, states, last_pc, prev_state, i, j, cause>>

(* The loop of run_testcase.py: step, record, and stop when the pc has stayed
   the same or the limit is reached.  What is kept depends on the count before
   the step.  An emulator may do anything with an instruction. *)
RecordStep ==
  /\ phase = "run"
  /\ \E s \in State :
       LET t == writing
           executed == Executed(t) + 1
           keep == Executed(t) % args[t].decimation = 0 /\ ~args[t].minify_tracefile
       IN /\ executed > MaxSteps => s.pc = last_pc
          /\ states' = [states EXCEPT ![t] = Append(@, s)]
          /\ Recorded(t, executed, s, keep)
          /\ prev_state' = Chained(keep, s)
          /\ \/ /\ \/ s.pc = last_pc
                   \/ args[t].max_insn_cnt # 0 /\ executed >= args[t].max_insn_cnt
                /\ phase' = "final"
                /\ UNCHANGED last_pc
             \/ /\ s.pc # last_pc
                /\ args[t].max_insn_cnt = 0 \/ executed < args[t].max_insn_cnt
                /\ last_pc' = s.pc
                /\ UNCHANGED phase
  /\ UNCHANGED <<args, writing, i, j, cause>>

RecordFinal_KeepsChain ==   (* the second run starts from the first one's chain *)
  /\ phase = "final"
  /\ Recorded(writing, Executed(writing), Current(writing), TRUE)
  /\ phase' = IF writing = 1 THEN "initial" ELSE "compare"
  /\ writing' = 2 /\ last_pc' = "None"
  /\ UNCHANGED <<args, states, prev_state, i, j, cause>>

(* The next run is a new process. *)
RecordFinal ==
  /\ phase = "final"
  /\ Recorded(writing, Executed(writing), Current(writing), TRUE)
  /\ phase' = IF writing = 1 THEN "initial" ELSE "compare"
  /\ writing' = 2 /\ last_pc' = "None" /\ prev_state' = <<>>
  /\ UNCHANGED <<args, states, i, j, cause>>

------------------------------------------------------------------------------
pt1 == trace[1][i]
pt2 == trace[2][j]
Key(pt) == pt.executed_insns

(* _tracepoint_by_insn_cnt *)
HasTracepoint(t, executed) == \E k \in 1 .. Len(trace[t]) : Key(trace[t][k]) = executed

(* _compare_tracepoint.  The report on deviating predecessors calls a method
   TraceReader does not have. *)
Compare ==
  IF pt1.components = pt2.components
    THEN phase' = phase /\ i' = i + 1 /\ j' = j + 1 /\ UNCHANGED cause
    ELSE /\ phase' = IF pt1.components[1] # pt2.components[1] THEN "broken" ELSE "deviation"
         /\ cause' = IF phase' = "broken" THEN "none"
                     ELSE IF \E t \in Traced : HasTracepoint(t, Key(pt1) - 1)
                       THEN "instruction" ELSE "unable"
         /\ UNCHANGED <<i, j>>

Align_Stuck ==   (* does not move on in a trace that lags behind *)
  /\ phase = "compare"
  /\ i <= Len(trace[1]) /\ j <= Len(trace[2])
  /\ Key(pt1) = Key(pt2) /\ Compare
  /\ UNCHANGED <<args, writing, states, last_pc, prev_state, trace>>

(* align *)
Align ==
  /\ phase = "compare"
  /\ i <= Len(trace[1]) /\ j <= Len(trace[2])
  /\ \/ Key(pt1) = Key(pt2) /\ Compare
     \/ Key(pt1) < Key(pt2) /\ i' = i + 1 /\ UNCHANGED <<j, phase, cause>>
     \/ Key(pt2) < Key(pt1) /\ j' = j + 1 /\ UNCHANGED <<i, phase, cause>>
  /\ UNCHANGED <<args, writing, states, last_pc, prev_state, trace>>

Aligned ==
  /\ phase = "compare"
  /\ i > Len(trace[1]) \/ j > Len(trace[2])
  /\ phase' = "same"
  /\ UNCHANGED <<args, writing, states, last_pc, prev_state, trace, i, j, cause>>

Next == RecordInitial \/ RecordStep \/ RecordFinal \/ Align \/ Aligned

Spec == Init /\ [][Next]_vars /\ WF_vars(Next)

------------------------------------------------------------------------------
TypeOK ==
  /\ phase \in {"initial", "run", "final", "compare"} \cup Outcomes
  /\ writing \in Traced
  /\ \A t \in Traced :
       /\ Executed(t) \in 0 .. MaxSteps + 1
       /\ Len(trace[t]) <= Executed(t) + 2
  /\ last_pc \in Pcs \cup {"None"}
  /\ prev_state \in Seq(State) /\ Len(prev_state) <= MaxSteps + 1
  /\ i \in 1 .. Len(trace[1]) + 1 /\ j \in 1 .. Len(trace[2]) + 1
  /\ cause \in {"none", "instruction", "unable"}

(* The two emulators have been in the same states up to n instructions. *)
AgreeUpTo(n) == \A k \in 0 .. n : states[1][k + 1] = states[2][k + 1]

Common == {n \in 0 .. MaxSteps + 1 : HasTracepoint(1, n) /\ HasTracepoint(2, n)}

(* A comparison that ends well has missed no deviation before the last count
   that both traces have a tracepoint of: also not one in a state neither of
   them kept, and not one that has healed by then. *)
NoDeviationMissed ==
  phase = "same" => \A n \in Common : AgreeUpTo(n)

(* A comparison that complains is right to, about the state as about the states
   before it.  There is one exception, traces made with other options, in the very
   tracepoint where one of them ends and the other does not: the last tracepoint of
   a trace has the count of the last step, but is chained to it. *)
NoFalseAlarm ==
  phase \in {"deviation", "broken"} =>
    \/ ~AgreeUpTo(Key(pt1))
    \/ /\ phase = "broken" /\ args[1] # args[2]
       /\ ~(i = Len(trace[1]) <=> j = Len(trace[2]))

(* The instruction named as the cause of the first deviation is the one: until
   right before it the emulators agreed. *)
CauseIsFirstDeviation ==
  cause = "instruction" => AgreeUpTo(Key(pt1) - 1)

(* The comparison comes to an outcome. *)
ComparisonEnds == <>(phase \in Outcomes)

(* run_testcase.py --recreate-trace: "take all options from that file", so that
   run_compare complains about a recreated trace only if the emulator deviates. *)
RecreatedTraceAgrees ==
  phase \in {"deviation", "broken"} => states[1] # states[2]
==============================================================================
