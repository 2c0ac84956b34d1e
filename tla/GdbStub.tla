------------------------------- MODULE GdbStub ------------------------------
(***************************************************************************)
(* The GDB Remote Serial Protocol stub (src/src/gdb_stub/gdb_stub.h, the  *)
(* header followed by gdb_stub.c) with the debugger that drives it.        *)
(*                                                                         *)
(* One TCP connection carries two byte streams, toStub and toGdb, each a  *)
(* sequence of tokens: a framed packet $...#xx (its command or reply and  *)
(* whether its checksum matches), an ACK '+', a NACK '-', or the          *)
(* out-of-band interrupt byte 0x03.  TCP keeps the bytes in order and     *)
(* loses none; Corrupt is the one fault, a packet whose checksum does not *)
(* match, at most MaxCorrupt times, on the streams in CorruptStreams.     *)
(*                                                                         *)
(* The stub's control state st is where rsp_session's thread is blocked:  *)
(* "recv" in rsp_recv_packet, "ackwait" in rsp_send_packet's wait for the *)
(* ACK (and "ackclose" when the session returns after it, as on 'D'),     *)
(* "running" in handle_continue's loop, "closed" between sessions.  The   *)
(* simulator is its halted flag, the PC, and the breakpoint list; a       *)
(* simulator_step moves the PC to any of PcValues and may fail.           *)
(*                                                                         *)
(* The client is GDB as the protocol has it: one command at a time, wait *)
(* for '+', resend on '-', wait for the reply, ACK it or NACK a corrupted *)
(* one, and send 0x03 (Ctrl-C) only while waiting for the stop reply of  *)
(* 'c'.                                                                   *)
(***************************************************************************)
EXTENDS Naturals, Sequences, SequencesExt

CONSTANTS
    MaxBreakpoints,   \* DEBUGGER_MAX_BREAKPOINTS
    BpAddrs,          \* addresses GDB sets breakpoints at (Z0/z0)
    Other,            \* a PC that is not one of BpAddrs
    MaxCorrupt,       \* how many packets the link may corrupt
    CorruptStreams    \* the streams it may corrupt them on

ASSUME Other \notin BpAddrs /\ MaxCorrupt \in Nat
ASSUME CorruptStreams \subseteq {"toStub", "toGdb"}

D == INSTANCE Debugger

PcValues == BpAddrs \cup {Other}

(* The commands the model sends: stop reason, register read (standing for *)
(* every command answered without touching run state: g G p P m M H T q), *)
(* continue, step, breakpoints, monitor halt/reset, detach, kill.         *)
Cmds == {"?", "g", "c", "s", "Z", "z", "monitor", "D", "k"}

Pkt(body) == [t |-> "pkt", body |-> body, good |-> TRUE]
Ack  == [t |-> "ack"]
Nack == [t |-> "nack"]
Intr == [t |-> "intr"]

Tokens ==
    [t: {"pkt"}, body: Cmds \cup {"S02", "S05", "OK", "E01", "data"}, good: BOOLEAN]
        \cup {Ack, Nack, Intr}

VARIABLES
    st,        \* where the stub is blocked
    halted,    \* sim->halted
    pc,        \* the core's PC
    bps,       \* the debugger's breakpoint list
    toStub,    \* bytes from GDB not yet read by the stub
    toGdb,     \* bytes from the stub not yet read by GDB
    gdb,       \* GDB: [st, req, intr]
    faults,    \* packets corrupted so far
    bpreq      \* history: the last Z0/z0 the stub handled and its address

vars == <<st, halted, pc, bps, toStub, toGdb, gdb, faults, bpreq>>

Init ==
    /\ st = "recv"
    /\ halted = FALSE
    /\ pc \in PcValues
    /\ bps = <<>>
    /\ toStub = <<>>
    /\ toGdb = <<>>
    /\ gdb = [st |-> "idle", req |-> "?", intr |-> FALSE]
    /\ faults = 0
    /\ bpreq = <<"none">>

-----------------------------------------------------------------------------
(* Mutation: rsp_send_packet returns without reading the ACK. *)
ReplyNoAckWait(body, next) ==
    /\ toGdb' = Append(toGdb, Pkt(body))
    /\ st' = IF next = "ackclose" THEN "closed" ELSE "recv"

(* rsp_send_packet's send: the reply goes out and the stub waits for the *)
(* one byte it reads as the ACK.                                          *)
Reply(body, next) ==
    /\ toGdb' = Append(toGdb, Pkt(body))
    /\ st' = next

(* The reply of a command that does not run the core. *)
StaticReply(cmd) ==
    CASE cmd = "?"       -> "S05"
      [] cmd = "g"       -> "data"
      [] OTHER           -> "OK"

(* handle_step: clear halted, one simulator_step, S05. *)
HandleStep(acked) ==
    \E npc \in PcValues, ok \in BOOLEAN :
        /\ pc' = npc
        /\ halted' = (~ok \/ D!DebuggerCheck(bps, npc))
        /\ toGdb' = Append(acked, Pkt("S05")) /\ st' = "ackwait"
        /\ UNCHANGED <<bps, bpreq>>

(* handle_set_bp: debugger_add_breakpoint, E01 when the table is full. *)
HandleSetBp(acked) ==
    \E a \in BpAddrs :
        /\ bps' = D!DebuggerAdd(bps, a) /\ bpreq' = <<"add", a>>
        /\ toGdb' = Append(acked, Pkt(IF a \notin ToSet(bps) /\ Len(bps) >= MaxBreakpoints
                                       THEN "E01" ELSE "OK"))
        /\ st' = "ackwait" /\ UNCHANGED <<halted, pc>>

(* handle_remove_bp: debugger_remove_breakpoint, E01 when not found. *)
HandleRemoveBp(acked) ==
    \E a \in BpAddrs :
        /\ bps' = D!DebuggerRemove(bps, a) /\ bpreq' = <<"delete", a>>
        /\ toGdb' = Append(acked, Pkt(IF a \in ToSet(bps) THEN "OK" ELSE "E01"))
        /\ st' = "ackwait" /\ UNCHANGED <<halted, pc>>

(* handle_monitor_cmd: "halt" (simulator_halt), "reset" or "reset halt" *)
(* (simulator_reset then simulator_halt; the reset PC is the image's    *)
(* entry point), or any other command, accepted with nothing done; each *)
(* is answered OK.                                                        *)
HandleMonitorCmd(acked) ==
    /\ \/ halted' = TRUE /\ pc' = pc
       \/ halted' = TRUE /\ pc' = Other
       \/ UNCHANGED <<halted, pc>>
    /\ toGdb' = Append(acked, Pkt("OK")) /\ st' = "ackwait"
    /\ UNCHANGED <<bps, bpreq>>

(* A command rsp_session dispatched, after the ACK rsp_recv_packet sent.  *)
(* toGdb already holds the ACK; acked is that stream.                     *)
Dispatch(cmd, acked) ==
    CASE cmd = "c" ->
            \* handle_continue: clear halted, enter the step loop
            /\ halted' = FALSE /\ st' = "running" /\ toGdb' = acked
            /\ UNCHANGED <<pc, bps, bpreq>>
      [] cmd = "s"       -> HandleStep(acked)
      [] cmd = "Z"       -> HandleSetBp(acked)
      [] cmd = "z"       -> HandleRemoveBp(acked)
      [] cmd = "monitor" -> HandleMonitorCmd(acked)
      [] cmd = "D" ->
            /\ toGdb' = Append(acked, Pkt("OK")) /\ st' = "ackclose"
            /\ UNCHANGED <<halted, pc, bps, bpreq>>
      [] cmd = "k" ->
            /\ toGdb' = acked /\ st' = "closed"
            /\ UNCHANGED <<halted, pc, bps, bpreq>>
      [] OTHER ->
            /\ toGdb' = Append(acked, Pkt(StaticReply(cmd))) /\ st' = "ackwait"
            /\ UNCHANGED <<halted, pc, bps, bpreq>>

(* rsp_recv_packet and one turn of rsp_session's loop.  Bytes before '$' *)
(* other than 0x03 are skipped; 0x03 halts the simulator and is answered *)
(* S02; a checksum mismatch is NACKed and ends the session; a good packet *)
(* is ACKed and dispatched.                                               *)
RspRecvPacket ==
    /\ st = "recv"
    /\ toStub # <<>>
    /\ LET tok == Head(toStub)
       IN  /\ toStub' = Tail(toStub)
           /\ CASE tok = Intr ->
                     /\ halted' = TRUE /\ Reply("S02", "ackwait")
                     /\ UNCHANGED <<pc, bps, bpreq>>
                [] tok.t = "pkt" /\ ~tok.good ->
                     /\ toGdb' = Append(toGdb, Nack) /\ st' = "closed"
                     /\ UNCHANGED <<halted, pc, bps, bpreq>>
                [] tok.t = "pkt" ->
                     Dispatch(tok.body, Append(toGdb, Ack))
                [] OTHER ->
                     UNCHANGED <<st, halted, pc, bps, bpreq, toGdb>>
    /\ UNCHANGED <<gdb, faults>>

(* rsp_send_packet's wait: whatever byte comes next is taken as the ACK  *)
(* ('+' or not, nothing is resent); then back to the session loop, or   *)
(* out of it after 'D'.                                                   *)
RspAckWait ==
    /\ st \in {"ackwait", "ackclose"}
    /\ toStub # <<>>
    /\ toStub' = Tail(toStub)
    /\ st' = IF st = "ackclose" THEN "closed" ELSE "recv"
    /\ UNCHANGED <<halted, pc, bps, bpreq, toGdb, gdb, faults>>

(* Mutation: the loop never calls check_interrupt. *)
ContinueStepNoInterrupt ==
    /\ st = "running"
    /\ \E npc \in PcValues, ok \in BOOLEAN :
          /\ pc' = npc
          /\ halted' = (~ok \/ D!DebuggerCheck(bps, npc))
          /\ IF halted' THEN Reply("S05", "ackwait") ELSE UNCHANGED <<st, toGdb>>
    /\ UNCHANGED <<toStub, bps, bpreq, gdb, faults>>

(* One turn of handle_continue's loop: simulator_step, then             *)
(* check_interrupt (a 0x03 at the head of the stream is consumed), then *)
(* the break on a non-Ok status or breakpoint hit.  Leaving the loop    *)
(* sends S05.                                                             *)
ContinueStep ==
    /\ st = "running"
    /\ \E npc \in PcValues, ok \in BOOLEAN :
          LET stop    == ~ok \/ D!DebuggerCheck(bps, npc)
              intr    == toStub # <<>> /\ Head(toStub) = Intr
          IN  /\ pc' = npc
              /\ halted' = stop
              /\ toStub' = IF intr THEN Tail(toStub) ELSE toStub
              /\ IF intr \/ stop
                 THEN Reply("S05", "ackwait")
                 ELSE UNCHANGED <<st, toGdb>>
    /\ UNCHANGED <<bps, bpreq, gdb, faults>>

(* gdb_stub_run accepts the next connection once the session closed and *)
(* GDB has gone; the simulator and its breakpoints carry over.            *)
Reconnect ==
    /\ st = "closed"
    /\ gdb.st \in {"detached", "lost"}
    /\ st' = "recv"
    /\ toStub' = <<>> /\ toGdb' = <<>>
    /\ gdb' = [st |-> "idle", req |-> "?", intr |-> FALSE]
    /\ UNCHANGED <<halted, pc, bps, bpreq, faults>>

-----------------------------------------------------------------------------
(***************************************************************************)
(* GDB.                                                                    *)
(***************************************************************************)
SendPacket(cmd) ==
    /\ gdb.st = "idle"
    /\ toStub' = Append(toStub, Pkt(cmd))
    /\ gdb' = [st |-> "ack", req |-> cmd, intr |-> FALSE]
    /\ UNCHANGED <<st, halted, pc, bps, bpreq, toGdb, faults>>

(* '+' for the command; after 'k' GDB does not wait for a reply. *)
RecvAck ==
    /\ gdb.st = "ack" /\ toGdb # <<>> /\ Head(toGdb) = Ack
    /\ toGdb' = Tail(toGdb)
    /\ gdb' = [gdb EXCEPT !.st = IF gdb.req = "k" THEN "detached" ELSE "reply"]
    /\ UNCHANGED <<st, halted, pc, bps, bpreq, toStub, faults>>

(* '-' for the command: send it again. *)
RecvNack ==
    /\ gdb.st = "ack" /\ toGdb # <<>> /\ Head(toGdb) = Nack
    /\ toGdb' = Tail(toGdb)
    /\ toStub' = Append(toStub, Pkt(gdb.req))
    /\ UNCHANGED <<st, halted, pc, bps, bpreq, gdb, faults>>

(* The reply: ACK it and take the next command (after 'D', detach), or  *)
(* NACK a corrupted one and wait for it to be sent again.               *)
RecvReply ==
    /\ gdb.st = "reply" /\ toGdb # <<>> /\ Head(toGdb).t = "pkt"
    /\ toGdb' = Tail(toGdb)
    /\ IF Head(toGdb).good
       THEN /\ toStub' = Append(toStub, Ack)
            /\ gdb' = [gdb EXCEPT !.st = IF gdb.req = "D" THEN "detached" ELSE "idle"]
       ELSE /\ toStub' = Append(toStub, Nack)
            /\ UNCHANGED gdb
    /\ UNCHANGED <<st, halted, pc, bps, bpreq, faults>>

(* Ctrl-C while the target runs: 0x03, once per continue. *)
Interrupt ==
    /\ gdb.st = "reply" /\ gdb.req = "c" /\ ~gdb.intr
    /\ toStub' = Append(toStub, Intr)
    /\ gdb' = [gdb EXCEPT !.intr = TRUE]
    /\ UNCHANGED <<st, halted, pc, bps, bpreq, toGdb, faults>>

(* GDB's remotetimeout: no byte of the reply comes.  The stub answers    *)
(* within microseconds of the command, so the timeout fires only once    *)
(* the stub has nothing left to send; GDB reports the error.             *)
Timeout ==
    /\ gdb.st = "reply" /\ gdb.req # "c"
    /\ toGdb = <<>> /\ toStub = <<>> /\ st = "recv"
    /\ gdb' = [gdb EXCEPT !.st = "failed"]
    /\ UNCHANGED <<st, halted, pc, bps, bpreq, toStub, toGdb, faults>>

(* The user goes on after a failed command. *)
Retry ==
    /\ gdb.st = "failed"
    /\ gdb' = [gdb EXCEPT !.st = "idle"]
    /\ UNCHANGED <<st, halted, pc, bps, bpreq, toStub, toGdb, faults>>

(* The stub closed the connection while GDB still expected bytes. *)
SeeClose ==
    /\ st = "closed" /\ toGdb = <<>>
    /\ gdb.st \in {"idle", "ack", "reply"}
    /\ gdb' = [gdb EXCEPT !.st = "lost"]
    /\ UNCHANGED <<st, halted, pc, bps, bpreq, toStub, toGdb, faults>>

(* The link delivers a packet with a checksum that does not match. *)
CorruptIn(q) ==
    \E k \in 1 .. Len(q) :
        /\ q[k].t = "pkt" /\ q[k].good
        /\ q' = [q EXCEPT ![k].good = FALSE]

Corrupt ==
    /\ faults < MaxCorrupt
    /\ faults' = faults + 1
    /\ \/ "toStub" \in CorruptStreams /\ CorruptIn(toStub) /\ UNCHANGED toGdb
       \/ "toGdb" \in CorruptStreams /\ CorruptIn(toGdb) /\ UNCHANGED toStub
    /\ UNCHANGED <<st, halted, pc, bps, bpreq, gdb>>

Stub == RspRecvPacket \/ RspAckWait \/ ContinueStep

Gdb ==
    \/ \E cmd \in Cmds : SendPacket(cmd)
    \/ RecvAck \/ RecvNack \/ RecvReply \/ Interrupt \/ SeeClose
    \/ Timeout \/ Retry

Next == Stub \/ Gdb \/ Reconnect \/ Corrupt

(***************************************************************************)
(* The stub's thread always runs: it is blocked only in recv, which TCP   *)
(* completes once a byte is there, and handle_continue's loop steps the   *)
(* core without waiting.  GDB reads the bytes it waits for.  Ctrl-C, new  *)
(* commands, reconnects and faults are left to the user and the link;   *)
(* GDB's timeout fires once nothing more arrives.                        *)
(***************************************************************************)
Fairness ==
    /\ WF_vars(RspRecvPacket) /\ WF_vars(RspAckWait) /\ WF_vars(ContinueStep)
    /\ WF_vars(RecvAck) /\ WF_vars(RecvNack) /\ WF_vars(RecvReply)
    /\ WF_vars(SeeClose) /\ WF_vars(Timeout)

Spec == Init /\ [][Next]_vars /\ Fairness

-----------------------------------------------------------------------------
RspTypeOK ==
    /\ st \in {"recv", "ackwait", "ackclose", "running", "closed"}
    /\ halted \in BOOLEAN /\ pc \in PcValues
    /\ bps \in Seq(BpAddrs) /\ Len(bps) <= MaxBreakpoints
    /\ toStub \in Seq(Tokens) /\ toGdb \in Seq(Tokens)
    /\ gdb \in [st: {"idle", "ack", "reply", "detached", "lost", "failed"}, req: Cmds, intr: BOOLEAN]
    /\ faults \in 0 .. MaxCorrupt
    /\ bpreq \in {<<"none">>} \cup ({"add", "delete"} \X BpAddrs)

Replies(q) == SelectSeq(q, LAMBDA tok : tok.t = "pkt")

(* The stub never sends a reply GDB is not waiting for: while GDB waits  *)
(* there is at most one reply on the way, and otherwise none.  The race  *)
(* it is about: Ctrl-C crosses the S05 of a continue that stopped on its *)
(* own, and the 0x03 must not later be read as a fresh interrupt and      *)
(* answered with an S02 GDB takes for the reply to its next command.     *)
NoUnsolicitedReply ==
    Len(Replies(toGdb)) <= (IF gdb.st \in {"ack", "reply"} /\ gdb.req # "k" THEN 1 ELSE 0)

(* GDB waits for an answer it will get: every command but 'c' is         *)
(* answered, and a continue is answered once GDB sent Ctrl-C; the        *)
(* session is not dropped underneath it.  It is about the ACK/NACK       *)
(* exchange of rsp_recv_packet and rsp_send_packet.                      *)
Waiting == gdb.st \in {"ack", "reply"} /\ (gdb.req # "c" \/ gdb.intr)

RequestAnswered == Waiting ~> gdb.st \in {"idle", "detached"}

(* The same, for the behaviours in which the link corrupts nothing: the  *)
(* stub's own control flow (ACK wait, continue loop, Ctrl-C, detach and  *)
(* reconnect) never leaves a command of GDB unanswered.                  *)
RequestAnsweredIntact == [](faults = 0) => RequestAnswered

(* Through Z0 and z0 the list implements a set of at most              *)
(* MaxBreakpoints addresses: an add makes its address present unless the *)
(* list is full, a remove makes it absent, and nothing else changes it,  *)
(* so once GDB removed a breakpoint no continue or step stops there until *)
(* it is set again (the duplicate check of debugger_add_breakpoint and   *)
(* the first-match compaction of debugger_remove_breakpoint).            *)
Breakpoints == INSTANCE BreakpointSet WITH Capacity <- MaxBreakpoints, Addrs <- BpAddrs,
                                        bpset <- ToSet(bps), request <- bpreq

ImplementsBreakpointSet == Breakpoints!Spec

====
