----------------------------- MODULE GdbSession -----------------------------
(***************************************************************************)
(* A tracing session: qemu/run_testcase.py steps a guest in                *)
(* t2sim-gdbserver over a UNIX socket and records its state after every    *)
(* step.  Three threads of control: the main thread of the client, which   *)
(* sends a command and waits for its reply; its receive thread, which cuts *)
(* the stream of replies into messages; the server, which answers one      *)
(* command per read.  The socket delivers in order, in pieces of any size. *)
(*                                                                         *)
(* The state of the guest is the number of instructions it has executed;   *)
(* a reply carries the state it was made in.  Which of the tracepoints a   *)
(* trace keeps is the matter of Traces.                                    *)
(***************************************************************************)
EXTENDS RxStream

CONSTANTS
  PcAt,        (* The pc after n instructions, a sequence from n = 0 on.      *)
  MaxInsnCnts, (* What --max-insn-cnt may be, 0 for no limit.                 *)
  MayRefuse    (* Whether a memory region to be hashed may be unmapped.       *)

(* A guest that ends in an infinite loop, listed up to the second time around: the
   client has no pc to compare with before its second look, so that the two
   instructions it always steps are listed as well. *)
ASSUME GuestAssumption ==
  /\ Len(PcAt) \in Nat /\ DOMAIN PcAt = 1 .. Len(PcAt) /\ Len(PcAt) > 2
  /\ MaxInsnCnts \subseteq Nat
  /\ PcAt[Len(PcAt)] = PcAt[Len(PcAt) - 1]
  /\ MayRefuse \in BOOLEAN

VARIABLES
  (* main thread *)
  max_insn_cnt, (* the option                                                 *)
  stage,     (* what it is doing, see Commands                                *)
  todo,      (* the commands left of it, the head being sent or waited for    *)
  waiting,   (* in send_cmd, for the reply                                    *)
  seen,      (* the replies so far                                            *)
  executed,  (* _executed_insn_count                                          *)
  last_pc,
  trace,     (* the tracepoints                                               *)
  failed,    (* an exception is on its way out                                *)
  (* receive thread *)
  rx_run,    (* _run: keep receiving                                          *)
  rx_alive,  (* the thread exists                                             *)
  buffer,    (* what the tokenizer left                                       *)
  msgs,      (* the queue to the main thread                                  *)
  (* server *)
  server,    (* "running", "exited" on request, "killed", "crashed"           *)
  steps,     (* the instructions executed                                     *)
  (* socket *)
  c2s, s2c   (* commands and symbols under way                                *)

main_vars == <<max_insn_cnt, stage, todo, waiting, seen, executed, last_pc, trace, failed>>
rx_vars == <<rx_run, rx_alive, buffer, msgs>>
server_vars == <<server, steps>>
socket_vars == <<c2s, s2c>>
vars == <<main_vars, rx_vars, server_vars, socket_vars>>

(* "s" single-steps, "g" asks for the registers, "h" for the hash of a memory
   region: the ROM and the RAM. *)
Commands(st) ==
  CASE st \in {"first", "last"} -> <<"g", "h", "h">>
    [] st = "step"              -> <<"s", "g", "h", "h">>
    [] st = "look"              -> <<"g">>
    [] OTHER                    -> <<>>

Talking == {"first", "step", "look", "last"}

------------------------------------------------------------------------------
Init ==
  /\ max_insn_cnt \in MaxInsnCnts
  /\ stage = "first" /\ todo = Commands("first") /\ waiting = FALSE
  /\ seen = <<>> /\ executed = 0 /\ last_pc = "none" /\ trace = <<>> /\ failed = FALSE
  /\ rx_run = TRUE /\ rx_alive = TRUE /\ buffer = <<>> /\ msgs = <<>>
  /\ server = "running" /\ steps = 0
  /\ c2s = <<>> /\ s2c = <<>>

(* An exception, or the end: __exit__ closes the protocol object, which clears
   _run and joins the receive thread. *)
Leave(exception) ==
  /\ stage' = "closing" /\ failed' = exception /\ rx_run' = FALSE
  /\ UNCHANGED <<max_insn_cnt, todo, seen, executed, last_pc, rx_alive, buffer>>

(* send_cmd, first half; sending to a dead process raises. *)
Send ==
  /\ stage \in Talking /\ todo # <<>> /\ ~waiting
  /\ \/ /\ server = "running"
        /\ c2s' = Append(c2s, Head(todo))
        /\ waiting' = TRUE
        /\ UNCHANGED <<max_insn_cnt, stage, todo, seen, executed, last_pc, trace, failed, rx_vars>>
     \/ /\ server # "running"
        /\ Leave(TRUE)
        /\ UNCHANGED <<waiting, trace, msgs, c2s>>
  /\ UNCHANGED <<server_vars, s2c>>

(* send_cmd, second half.  The reply to a step is not looked at; a failed reply
   to anything else has no text, and using it raises. *)
Receive ==
  /\ waiting /\ stage \in Talking /\ msgs # <<>>
  /\ msgs' = Tail(msgs)
  /\ waiting' = FALSE
  /\ \/ /\ Head(todo) = "s"
        /\ executed' = executed + 1
        /\ todo' = Tail(todo)
        /\ UNCHANGED <<max_insn_cnt, stage, seen, last_pc, failed, rx_run, rx_alive, buffer>>
     \/ /\ Head(todo) # "s" /\ Head(msgs).success
        /\ seen' = Append(seen, Head(msgs).data)
        /\ todo' = Tail(todo)
        /\ UNCHANGED <<max_insn_cnt, stage, executed, last_pc, failed, rx_run, rx_alive, buffer>>
     \/ Head(todo) # "s" /\ ~Head(msgs).success /\ Leave(TRUE)
  /\ UNCHANGED <<trace, server_vars, socket_vars>>

Timeout_Retries ==   (* sends a step again *)
  /\ waiting /\ stage \in Talking /\ msgs = <<>> /\ Head(todo) = "s"
  /\ waiting' = FALSE /\ Len(c2s) < 2
  /\ UNCHANGED <<max_insn_cnt, stage, todo, seen, executed, last_pc, trace, failed>>
  /\ UNCHANGED <<rx_vars, server_vars, socket_vars>>
Timeout_Never == FALSE /\ UNCHANGED vars

(* No reply for a second: NoResponseFromTargetException. *)
Timeout ==
  /\ waiting /\ stage \in Talking /\ msgs = <<>>
  /\ waiting' = FALSE
  /\ Leave(TRUE)
  /\ UNCHANGED <<trace, msgs, server_vars, socket_vars>>

Proceed(next) == stage' = next /\ todo' = Commands(next) /\ seen' = <<>>

Tracepoint == [executed_insns |-> executed, seen |-> seen]

(* record_state has all its replies. *)
Recorded ==
  /\ stage \in {"first", "step"} /\ todo = <<>>
  /\ trace' = Append(trace, Tracepoint)
  /\ Proceed(IF stage = "first" THEN "step" ELSE "look")
  /\ UNCHANGED <<max_insn_cnt, waiting, executed, last_pc, failed, rx_vars, server_vars, socket_vars>>

Looked_KeepsLastPc ==   (* last_pc = current_pc forgotten *)
  LET current_pc == PcAt[seen[1][1].at + 1]
  IN /\ stage = "look" /\ todo = <<>>
     /\ \/ (current_pc = last_pc \/ (max_insn_cnt # 0 /\ executed >= max_insn_cnt)) /\ Proceed("last")
        \/ current_pc # last_pc /\ (max_insn_cnt = 0 \/ executed < max_insn_cnt) /\ Proceed("step")
     /\ UNCHANGED <<max_insn_cnt, waiting, executed, last_pc, trace, failed, rx_vars, server_vars, socket_vars>>

(* The main loop looks at the pc and decides whether to go on. *)
Looked ==
  LET current_pc == PcAt[seen[1][1].at + 1]
  IN /\ stage = "look" /\ todo = <<>>
     /\ \/ /\ \/ current_pc = last_pc
              \/ max_insn_cnt # 0 /\ executed >= max_insn_cnt
           /\ Proceed("last")
           /\ UNCHANGED last_pc
        \/ /\ current_pc # last_pc
           /\ max_insn_cnt = 0 \/ executed < max_insn_cnt
           /\ last_pc' = current_pc
           /\ Proceed("step")
     /\ UNCHANGED <<max_insn_cnt, waiting, executed, trace, failed, rx_vars, server_vars, socket_vars>>

(* The last record_state; then kill_request, which waits for no reply. *)
Finish ==
  /\ stage = "last" /\ todo = <<>>
  /\ trace' = Append(trace, Tracepoint)
  /\ c2s' = IF server = "running" THEN Append(c2s, "k") ELSE c2s
  /\ Leave(server # "running")
  /\ UNCHANGED <<waiting, msgs, server_vars, s2c>>

(* stop_rx_thread has joined; conn.close. *)
Joined ==
  /\ stage = "closing" /\ ~rx_alive
  /\ stage' = "killing"
  /\ UNCHANGED <<max_insn_cnt, todo, waiting, seen, executed, last_pc, trace, failed>>
  /\ UNCHANGED <<rx_vars, server_vars, socket_vars>>

(* finally: emu_process.kill(); without an exception the trace is written. *)
Kill ==
  /\ stage = "killing"
  /\ stage' = IF failed THEN "gave_up" ELSE "written"
  /\ server' = IF server = "running" THEN "killed" ELSE server
  /\ UNCHANGED <<max_insn_cnt, todo, waiting, seen, executed, last_pc, trace, failed, steps>>
  /\ UNCHANGED <<rx_vars, socket_vars>>

Main == Send \/ Receive \/ Timeout \/ Recorded \/ Looked \/ Finish \/ Joined \/ Kill

------------------------------------------------------------------------------
(* recv returned n symbols; _put. *)
RxRecv ==
  /\ rx_alive
  /\ \E n \in 1 .. Len(s2c) :
       LET cut == tokenizer(buffer \o SubSeq(s2c, 1, n))
       IN /\ s2c' = SubSeq(s2c, n + 1, Len(s2c))
          /\ buffer' = cut.remaining
          /\ msgs' = msgs \o cut.msgs
  /\ UNCHANGED <<main_vars, rx_run, rx_alive, server_vars, c2s>>

RxEnd_OnPeerOnly ==   (* does not look at _run *)
  /\ rx_alive /\ s2c = <<>> /\ server # "running"
  /\ rx_alive' = FALSE
  /\ rx_run' = (rx_run /\ c2s # <<>>)
  /\ UNCHANGED <<main_vars, buffer, msgs, server_vars, socket_vars>>

(* The server is gone and has sent all it will: recv returns nothing, and _run is
   cleared; or it raises, when there are commands the server has not read, and the
   thread ends of that.  Or recv timed out, and _run has been cleared meanwhile. *)
RxEnd ==
  /\ rx_alive
  /\ \/ s2c = <<>> /\ server # "running"
     \/ ~rx_run
  /\ rx_alive' = FALSE
  /\ rx_run' = (rx_run /\ c2s # <<>>)
  /\ UNCHANGED <<main_vars, buffer, msgs, server_vars, socket_vars>>

RxThread == RxRecv \/ RxEnd

------------------------------------------------------------------------------
(* What gdb_handle_command may answer to cmd when the guest has executed n
   instructions.  A region that is not mapped in one piece cannot be hashed. *)
Replies(cmd, n) ==
  CASE cmd = "s" -> {tx_frame(<<>>)}
    [] cmd = "g" -> {tx_frame(<<[cmd |-> cmd, at |-> n]>>)}
    [] cmd = "h" -> {tx_frame(<<[cmd |-> cmd, at |-> n]>>)} \cup (IF MayRefuse THEN {Refusal} ELSE {})
    [] OTHER     -> {}

Handle(cmd) ==
  \/ /\ steps' = IF cmd = "s" THEN steps + 1 ELSE steps
     /\ \E reply \in Replies(cmd, steps) : s2c' = s2c \o reply
     /\ UNCHANGED server
  \/ cmd = "k" /\ server' = "exited" /\ UNCHANGED <<steps, s2c>>

(* handle_connection: one fread takes everything that has arrived;
   interpret_rxdata looks at the first frame of it, whatever follows is lost. *)
Server ==
  /\ server = "running" /\ c2s # <<>>
  /\ Handle(Head(c2s))
  /\ c2s' = <<>>
  /\ UNCHANGED <<main_vars, rx_vars>>

(* The process dies: of a step of the guest (Simulator, "fault"), or of something
   outside.  Between two commands, or with one unread; or in the middle of one, with
   a part of the answer sent or nothing of it.  The guest is gone with it. *)
Crash ==
  /\ server = "running" /\ server' = "crashed"
  /\ \/ UNCHANGED socket_vars
     \/ /\ c2s # <<>> /\ c2s' = <<>>
        /\ \E reply \in Replies(Head(c2s), steps) : \E n \in 0 .. Len(reply) - 1 :
             s2c' = s2c \o SubSeq(reply, 1, n)
  /\ UNCHANGED <<main_vars, rx_vars, steps>>

Next == Main \/ RxThread \/ Server \/ Crash

(* Each thread is scheduled as long as it can run; waiting for a reply ends in
   the reply or in the timeout.  Nothing makes the server crash, and nothing
   keeps it from crashing. *)
Spec ==
  Init /\ [][Next]_vars /\ WF_vars(Main) /\ WF_vars(RxThread) /\ WF_vars(Server)

------------------------------------------------------------------------------
TypeOK ==
  /\ stage \in Talking \cup {"closing", "killing", "written", "gave_up"}
  /\ waiting \in BOOLEAN /\ failed \in BOOLEAN
  /\ executed \in 0 .. Len(PcAt) - 1 /\ steps \in 0 .. Len(PcAt) - 1   (* not beyond the end *)
  /\ rx_run \in BOOLEAN /\ rx_alive \in BOOLEAN
  /\ server \in {"running", "exited", "killed", "crashed"}

(* Every tracepoint shows one state of the guest: the registers and the two
   hashes come from three replies, and all of them are answers of the server
   after exactly the number of instructions the tracepoint is filed under.  The
   protocol has no sequence numbers: this rests on the client sending nothing
   before it has the last reply, and giving up when one is late. *)
TracepointsFaithful ==
  \A i \in 1 .. Len(trace) : \A r \in 1 .. 3 :
    trace[i].seen[r] # <<>> /\ trace[i].seen[r][1].at = trace[i].executed_insns

(* What the receive thread hands to the waiting main thread is the one reply to
   the command it waits for, in one piece, however the stream was cut. *)
ReplyMatchesCommand ==
  (waiting /\ msgs # <<>>) =>
    /\ Len(msgs) = 1 /\ s2c = <<>> /\ buffer = <<>>
    /\ Head(msgs).success =>
         IF Head(todo) = "s" THEN Head(msgs).data = <<>>
                             ELSE Head(msgs).data[1].cmd = Head(todo)

(* The server answers only the first of the frames it reads, so there must never
   be two of them on their way. *)
NoCommandLost == Len(c2s) <= 1

(* Every session comes to an end, with a trace or with an exception, and leaves
   no emulator and no thread behind: also when the server dies of a command, with
   half of its answer sent, or is gone before the next one is sent. *)
SessionEnds == <>(stage \in {"written", "gave_up"} /\ server # "running" /\ ~rx_alive)
==============================================================================
