# TLA+ models of the STM32F103 emulator

This directory holds TLA+ models of the C emulator under `src/`, the TLC configurations that check them, and `PROJECT.json`. `PROJECT.json` lists the components, the runs, the mutants, the definition-to-source map, the findings and the hazards.

## The system

The emulator is a single-threaded C program. Beside it, `src/gateway` is a Go HTTP service that queues emulator jobs in PostgreSQL and KeyDB for a worker process that is not in this repository.

- **Simulator.** `simulator.h` owns a `Core`, a `Bus`, `Memory`, an `NVIC`, TIM2, USART1, a `Debugger`, and the `halted` flag.
- **Core step.** `simulator_step` does the following, in order:
  1. ticks TIM2, then USART1 (the order `simulator_init` registers them);
  2. calls `core_step`;
  3. halts on any non-Ok `Status`;
  4. checks the new PC against the breakpoints.
- **Core.** `core_step` (`core.h`) does the following:
  1. fetches a halfword;
  2. dispatches to an instruction handler, which reaches memory and peripherals through `bus_read` and `bus_write`;
  3. advances the PC unless the handler wrote it;
  4. asks the NVIC for the best pending interrupt. If there is one, `enter_exception` stacks an 8-word frame, acknowledges the line and jumps through the vector table.
- **Exception return.** A `BX` or `POP {PC}` of an `EXC_RETURN` value runs `exit_exception`. It unstacks the frame, completes the line named by `core->current_irq` and zeroes `current_irq`.
- **Bus.** The bus dispatches to the first registered region containing the address:
  - Flash, which is read-only;
  - SRAM;
  - TIM2;
  - USART1;
  - the System Control Space (SCS), which is a stub.
- **NVIC.** The NVIC is not memory-mapped. Lines are enabled and prioritised by the embedding program: the tests, or the CLI (which enables none).
- **Host side.** The host runs between steps. It consists of the CLI (`ui.c`, part_009) and the GDB RSP stub (`gdb_stub.h`). They call `simulator_run`, `simulator_halt`, `simulator_reset` and `uart_incoming_char`, and add and remove breakpoints.

## Modules

| Module | Models | State and actions |
|---|---|---|
| `Nvic` | `nvic.c` / `nvic.h` (part_011, part_012) | Each `nvic_*` function is an operator on an NVIC record. The scan of `nvic_get_pending_irq` and the recomputation of `nvic_complete` are `RECURSIVE` folds over the line order. The standalone spec drives the NVIC from peripherals, the host (set, clear, enable, disable, priority) and a core client that takes the selected line and completes the innermost one. `SelectionIsBest` and `CurrentPriorityIsMinActive` check it against the reference definitions `BestCandidate` and `ExpectedPriority`. |
| `Timer` | `timer.c` | `timer_reset`, `timer_read`, `timer_write` and `timer_tick`. Registers are `WordBits` wide and wrap modulo `2^WordBits`, as `uint32_t` does at 32. The spec ticks the timer, writes its registers and takes its IRQ. |
| `Uart` | `uart.c` | `uart_reset`, `uart_read` (a DR read dequeues), `uart_write` (SR is write-AND, DR latches `value & 0xFF`), `uart_incoming_char` and `uart_tick`. The output callback is the sequence `out`. |
| `UartFifo` | the UART's promise | An abstract bounded FIFO that drops on full, plus an in-order transmit queue. `Uart` is shown to implement it by `INSTANCE UartFifo WITH` a mapping from the ring to its contents. |
| `Debugger` | `debugger.c` | `debugger_add_breakpoint` (full-list and duplicate checks), `debugger_remove_breakpoint` (compaction) and `debugger_check`, as operators on a bounded sequence. `GdbStub` and `Simulator` use them through `INSTANCE`. |
| `BreakpointSet` | the debugger's promise | A bounded set of addresses with a `request` history (the last add or delete and its address). `GdbStub`'s breakpoint list is shown to refine it. |
| `Memory` | `memory.c`, `bus.c` (part_013), the load/store handlers of `core.h` | Byte, halfword and word little-endian access (`read_le`, `write_le`), the SRAM bounds check, read-only Flash and its alias at 0, region registration and first-match lookup. The actions are the whole STR/STRH/STRB/LDR/LDRH/LDRB/LDRSB/LDRSH handlers (register offset and immediate), the SP-relative LDR/STR, ADR, ADD Rd,SP,#imm and ADD/SUB SP,#imm. A history variable `acc` records the access. |
| `ByteBus` | the memory system's promise (spec sections 4.1, 4.2) | A byte-addressed memory: a load inside one memory returns its bytes, zero- or sign-extended; a store inside SRAM sets exactly its bytes; anything else loads 0 and stores nothing. `Memory` refines it. |
| `Machine` | `core.h`, `bus.c`, `memory.c` (part_013), `simulator.h` addresses | A machine record `[core, sram, nvic, tim, uart]`. It covers `bus_read`/`bus_write` over the five regions, word SRAM with the bounds check, and read-only Flash. It also covers `core_reset`, `core_step`, `enter_exception`, `exit_exception`, and the handlers MOV imm, LDR literal, LDR/STR imm, B, BX, BL, PUSH, POP and NOP. Each operator returns the new machine with the handler's Status and a `pc_written` flag. |
| `Simulator` | `simulator.h`, the CLI commands of `ui.c` | Described below. |
| `Alu` | `core.h`: flag helpers, `condition_passed`, `sign_extend`, formats 1–5 (ADD hi, CMP hi, MOV hi), `exec_b_cond` | Each handler is an operator from a core state `[r, xpsr]` to the next, on words of `AluBits` bits. The spec has one action per `instr_table` entry and one for the sixteen format-4 entries. Any register contents and flags are initial states. The ARMv7-M reference definitions `AddWithCarry`, `ShiftC` (Shift_C) and `Holds` (the condition table read as relations between the compared values) are written from the architecture, not the code. |
| `Decode` | `core_step`'s fetch test, `instr_table`, `execute_32bit` | `InstrTable` is the table, entry for entry, and `TableLookup` its first-match scan (`SelectInSeq`). Every mask is a run of high bits (an `ASSUME` checks it), so `instr & mask` is computed as clearing the low bits. `Is32Bit` is core_step's test and `Execute32` the BL test. The state is the two halfwords at PC and PC+2, and `Step` dispatches them. `Reference` is the ARMv7-M encoding table (A5.2, A5.3), written from the architecture and restricted to spec.md section 7's required coverage. |
| `GdbStub` | `gdb_stub.h` | Described below. |
| `Gateway` | `job_service.go`, `keydb.go`, `events.go` (the job handlers), part_005 | Described below. |

`Simulator` has the variables `m`, `bps` and `halted`, plus two history variables, `frames` and `retired`, that only the properties read.

- **Step** is the whole `simulator_step`: ticks, `core_step` with its interrupt check, halting, and the breakpoint check. No part of it is a separate action.
- **Host actions** run between steps:
  - `IncomingChar` (CLI `uart`);
  - `BreakAdd` and `BreakDelete` (CLI `break` and `delete`);
  - `Halt` (`simulator_halt`);
  - `Run` (`simulator_run` clearing `halted`);
  - `Reset` (`simulator_reset`);
  - `EnableIrq` (the embedding program re-enabling a line).

Flash holds a decoded firmware image. `MCSimulator.tla` maps each Flash offset to a decoded instruction record or a literal word. The model abstracts the bit-level Thumb decoder and keeps every handler's control flow.

`GdbStub` models one stub thread, a GDB client, and two TCP byte streams, `toStub` and `toGdb`. The streams are sequences of tokens: a packet (`good` is false when its checksum does not match), `+`, `-` and `0x03`.

- **Stub state.** `st` is the stub's place in the code:
  - `recv`: `rsp_recv_packet` at the top of `rsp_session`'s loop;
  - `ackwait`/`ackclose`: the one-byte read at the end of `rsp_send_packet`, before `continue` or after `D`;
  - `running`: `handle_continue`'s loop;
  - `closed`: back in `gdb_stub_run`'s accept loop.
- **Stub actions.**
  - `RspRecvPacket` is `rsp_recv_packet` plus the dispatch of `rsp_session`. `HandleStep`, `HandleSetBp`, `HandleRemoveBp` and `HandleMonitorCmd` are the handlers. The breakpoint handlers use `Debugger`'s operators through `INSTANCE`.
  - `RspAckWait` is the ACK read.
  - `ContinueStep` is one turn of the continue loop: `simulator_step`, `check_interrupt`, and the break.
  - `Reconnect` is the next `accept`.
- **What is abstracted.** The core's effect is a nondeterministic new PC and Ok/non-Ok status. The register and memory commands are their replies.
- **GDB's side.** It sends one command at a time, ACKs or NACKs replies, resends a NACKed command, may send Ctrl-C once during a continue, and times out on a reply that never comes (never on a continue, which GDB waits for indefinitely).
- **Faults.** `Corrupt` flips one packet in a stream named by `CorruptStreams` to a bad checksum, at most `MaxCorrupt` times.

`Gateway` models one job's life across the two stores. `pg` is the row's state, `kv` the `state` field of the hash `job:{id}`, and `pending`/`processing` the two KeyDB lists.

- **CreateJob** is `CreatePg` (the INSERT), `EnqueueJob` (the pipelined HSET and LPUSH) and `MarkFailed` (the clean-up `UpdateJobState(failed)` after a pipeline error). `Pipeline()` is not MULTI/EXEC, so an Exec error may leave neither, either or both of the two commands applied.
- **CancelJob** is `CancelCheck` (the handler's `GetJob` and the service's read of the row, with the completed/failed/cancelled check), `CancelKv` (HSET cancelled), `CancelLrem` (LREM from `jobs:processing`, then PUBLISH) and `CancelPg` (the row update). The cancel command is sent only when the row has a `worker_id`, which nothing writes, so it is never sent.
- **GetJob** changes nothing; it is the operator `View`: the row, overridden by the hash's state.
- Every store call is one step, so other requests and the worker interleave between the calls of one handler. Any call may fail, at most `MaxFaults` times, and takes the code's error return.
- **The worker** is modelled from `docs/gateway.md` section 2.2 and marked spec-modelled in the map: `WorkerTake` (BRPOPLPUSH from the tail), `WorkerStart`, `WorkerFinish` (a terminal state in the hash, and perhaps in the row, which the docs leave open) and `WorkerDrop`. It is given the kindest behaviour towards cancellation: it reads and writes the hash atomically and drops a cancelled job. The finding therefore rests on the gateway's code alone.

The component modules are written as operators that `Machine` and `Simulator` reuse through `INSTANCE ... WITH`. The composed model and the component models therefore share one translation of each C function.

A note on style: a value computed once and used several times is passed as an operator argument. Examples are `StepWith(CoreStep(TickPeripherals(m)))` and `PopWith`. This keeps TLC's coverage statistics, which re-expand every use of a `LET` definition, tractable on the composed model.

## Runs

| Run | Config | Result | What it shows |
|---|---|---|---|
| nvic | `MCNvic.cfg` | pass, 10,752 states | The single-pass scan picks the spec's line: the most urgent, ties to the lowest number, and only if more urgent than `current_priority`. Nested exceptions have strictly decreasing priority values. `current_priority` stays the minimum over active lines. All of this holds under any interleaving of raises, enables, priority changes of inactive lines, takes, returns and resets. |
| timer | `MCTimer.cfg` | pass, 12,204 states | While no write moved CNT, PSC or ARR, overflow happens exactly `(PSC+1)*ARR` ticks after the previous one (spec section 8). Once writes stop, with the counter running and ARR > 0, the overflow keeps coming (`UpdateEventRecurs`, under weak fairness of the tick). The writes never reach the all-ones PSC, whose wrap is an observation below. |
| uart | `MCUart.cfg` | pass, 136,749 states | The RX ring refines an in-order FIFO that drops on full, and every accepted DR byte is transmitted once, in order, for firmware that polls TXE. RXNE is never set over an empty ring. |
| simulator | `MCSimulator.cfg` | pass, 72,770 states | Covers the whole simulator running firmware with a TIM2 handler (`BX LR`) and a USART1 handler (`PUSH {LR}; BL; POP {PC}`) at equal priority. The NVIC's active lines are exactly the exceptions entered and not returned from. Every exception return restores the frame its entry saved. A pending enabled line is eventually taken while the simulator runs. |
| nested_irq | `MCSimulatorNested.cfg` | violation | This run is the same image with USART1 more urgent than TIM2. A USART1 interrupt nested in the TIM2 handler leaves TIM2 active forever (finding 1). |
| store_fault | `MCSimulatorStoreFault.cfg` | violation | A firmware store that the bus refuses does not halt the simulator (finding 2). |
| gdb | `MCGdbStub.cfg` | pass, 62,862 states | With up to one corrupted packet in either direction, the stub never has a reply on the wire that GDB is not waiting for (`NoUnsolicitedReply`). This includes a Ctrl-C crossing the S05 of a continue that stopped on its own, where the ACK wait reads the 0x03 as the ACK. Over an intact link, every command but an uninterrupted continue is answered (`RequestAnsweredIntact`). The breakpoint list that `Z0`/`z0` edit refines `BreakpointSet` (`ImplementsBreakpointSet`): the history variable `bpreq` makes sure that a remove of one address is never matched by the abstract removal of another. |
| memory | `MCMemory.cfg` | pass, 30,608 states | Every load and store handler, over every size, signedness and addressing form, behaves as the byte memory of `ByteBus` (`ImplementsByteBus`): little-endian order, zero and sign extension at the 0x80 boundary, Flash through both of its addresses, refused stores into Flash, the SRAM end and beyond it, and loads that straddle the end of SRAM. |
| gdb_corrupt | `MCGdbStubCorrupt.cfg` | violation | One corrupted packet leaves a command unanswered. TLC's trace corrupts a command: the stub NACKs it and closes the session (finding 4). The run corrupts only commands (`CorruptStreams = {"toStub"}`), so that this is the only path its counter-example can take; the lost reply is an observation below. |
| decode | `MCDecode.cfg` | violation | Over all 65,536 halfwords at PC, and seven second halves after each 32-bit first half (102,400 initial states), every required 16-bit encoding reaches its handler, but B.W is rejected as an invalid instruction (finding 5). |
| gateway_cancel | `MCGateway.cfg` | violation | A job that `GetJob` reports completed is later reported cancelled (finding 3). |
| alu | `MCAlu.cfg` | pass, 4,096 states | Every add, subtract, compare, negate, ADC, SBC and CMP hi handler writes AddWithCarry's result and NZCV, and ADD hi writes its result and keeps NZCV. Every shift and rotate, by immediate and by register, gives Shift_C's result and carry, keeps V, and sets N and Z. CMP then B<cond> branches to PC+4+2·offset exactly when the condition's relation holds of the two registers. All of this is checked for every 4-bit operand, flag state, offset extreme and aliasing of two registers. |

Every property of a passing run has a mutant in `PROJECT.json`. A mutant is a plausible bug in the mapped code, such as a dropped `nvic_complete`, an off-by-one overflow compare, or a frame unstacked from `SP+28`, and TLC finds the property violated under it.

## Findings

1. **Nested exception returns lose the outer completion.** Source: `core.h:199`.
   - `exit_exception` completes the line named by the scalar `current_irq`, then sets it to 0.
   - After a nested exception returns, the outer return completes nothing.
   - TIM2's line stays active in thread mode, and `current_priority` stays at its priority, so TIM2 is never taken again.
   - spec.md section 3 says `active[i]` implies the core is in the exception for vector 16+i.
2. **Refused stores are ignored.** Source: `core.h:706`.
   - `exec_str_imm` returns `STATUS_OK` whatever `bus_write` returned. So do `exec_push` and `enter_exception`.
   - A write to Flash or to unmapped memory is silently dropped.
   - spec.md section 7 says any non-Ok bus status terminates the step and halts the simulator.
3. **CancelJob overwrites a finished job.** Source: `job_service.go:127`.
   - The check reads only the PostgreSQL row. The worker's progress is in the KeyDB hash, which `GetJob` reports, and the gateway never copies it to the row. The check also omits `timeout`.
   - TLC's trace: a cancel reads the row as queued; the worker takes the job, runs it and writes completed; the cancel's HSET then writes cancelled. `GetJob` reported completed and now reports cancelled.
   - `TestCancelJob_AlreadyCompleted` (part_004 line 267) says a completed job cannot be cancelled.
4. **A NACKed command ends the GDB session.** Source: `gdb_stub.h:150`.
   - `rsp_recv_packet` answers a checksum mismatch with `-` and returns -1.
   - `rsp_session` leaves its loop on -1, and the connection is closed.
   - GDB's retransmission, which the `-` asked for, is never read.
5. **B.W is not decoded.** Source: `core.h:1028`.
   - `execute_32bit` tests only for BL (`(hw1 & 0xF800) == 0xF000 && (hw2 & 0xD000) == 0xD000`). Every other 32-bit pair returns `STATUS_INVALID_INSTRUCTION`, which halts the simulator.
   - spec.md section 7 says only BL and B.W are required of the 32-bit decoder, and that SVC and UDF are accepted no-ops.
   - TLC's trace is hw1 = 0xF000, hw2 = 0x9000 (36864): bit 15 and bit 12 set, bit 14 clear. With B.W left out of the property, the run passes: every other required encoding, 16-bit or 32-bit, reaches its handler.

Observations that no run checks. Each was seen in TLC with the change to a cfg that it names, but is not one of the project's runs:

- **A NACKed reply is never resent** (`gdb_stub.h:178`). `rsp_send_packet` reads one byte after a reply and takes it as the ACK, whatever it is. With `CorruptStreams = {"toGdb"}` in `MCGdbStubCorrupt.cfg`, TLC reports `RequestAnswered` violated this way: the stub's reply to `?` is corrupted, GDB answers `-`, the stub takes it as the ACK and waits for the next command, and GDB times out. After `c`, GDB would wait forever.
- **An all-ones PSC stops TIM2** (`timer.c:81`). With `WriteValues = {0, 1, 7}` in `MCTimer.cfg`, TLC reports `UpdateEventRecurs` violated: PSC = 7 at `WordBits = 3` makes `prescaler_counter` run 0..7 and wrap to 0, never passing PSC, so CNT never advances.

- **Ctrl-C does not set `halted`** (`gdb_stub.h:346`). `handle_continue` leaves its loop on `check_interrupt` and sends S05 with `halted` still false, while spec.md section 4.10 says receipt of 0x03 halts the simulator. Both commands that resume, `handle_continue` (line 340) and `handle_step` (line 365), clear `halted` first, so nothing in a session can observe the difference.
- **0xDExx executes as a branch** (`core.h:874`). The B<cond> entry's mask 0xF000 also takes cond 0xE, and `exec_b_cond` treats it as "always". In ARMv7-M, 0xDExx is the permanently undefined UDF; spec.md lists 14 branch conditions. Stating that every encoding outside the required coverage is rejected fails at 0xDExx and nowhere else. `SVC` is matched by its own entry first, so `exec_b_cond`'s cond 0xF arm is unreachable.

## Bounds and why they are enough

- **NVIC.** The run uses 3 lines and priorities {0, 1, 2}. This covers ties, two levels of preemption, and a line of each relation to `current_priority`.
- **Timer.** `WordBits = 3` (ARR resets to 7) with writes {0, 1, 2}. This covers PSC 0–2, ARR 0–2 and 7, CNT wrap-around, UIF clear and UIE on or off. The overflow arithmetic does not depend on the width except at all-ones PSC; see the hazards.
- **UART.** A 3-byte ring (16 in the code) with two distinct bytes. The ring wraps and fills within 4 arrivals. `out` is bounded to 3 bytes by a state constraint.
- **Memory.**
  - An 8-byte Flash and a 4-byte SRAM (128 KiB and 20 KiB in the code), at their real addresses. Bytes come from {0, 0x80, 0xFF}, which are the values at which extension and carries between bytes differ.
  - The data register starts as 0xFF800080. The base register is `SRAM_BASE - 1` and the offset register 1 or 2, so register-offset accesses are aligned, unaligned, inside and across the end of SRAM. SP is `SRAM_BASE` or `SRAM_BASE + 4` (the end), and the PCs for ADR are 0 and `FLASH_BASE`.
  - Operands are fixed to rd = r0, rn = r1, rm = r2: the handlers read the register numbers only to index `r`.
  - TLC's integers stop at 2^31 - 1, so a data word is a pair of 16-bit halves, and addresses are integers that stay below 2^31. The `uint32_t` wrap of an address sum is therefore not reached.
  - `acc` only records the access for the refinement mapping, and no action reads it, so `MCView` leaves it out of the state TLC compares.
- **Simulator.**
  - `WordBits = 3`, so TIM2 with ARR = 7 overflows every 8 ticks. This puts a timer interrupt at every point of the thread loop and of the USART1 handler.
  - An 80-byte SRAM, enough for two nested frames plus the handler's push.
  - A 2-byte RX ring and 2 breakpoint slots.
  - Real STM32 addresses throughout.
- **GDB stub.**
  - Three breakpoint addresses and two slots in the passing run, so a list fills, is refused, and compacts after removing the first of two. The violation runs use one slot.
  - One other PC.
  - Every command kind the stub treats differently.
  - One corrupted packet. A second fault adds no new control path.
- **Gateway.** Two jobs, one worker and one failing store call (`MaxFaults = 1`). Two jobs let one be cancelled while the worker holds the other, and one fault reaches every error return, the partial pipeline included. `CHECK_DEADLOCK FALSE` because the system does stop: once every request has returned and the lists are empty, the worker blocks in BRPOPLPUSH.
- **Decode.** Every 16-bit halfword is an initial state, so the table is checked exhaustively. After a 32-bit first half, the second halves are 0xF800 and 0xD000 (BL, with J1 and J2 both values), 0xB800 and 0x9000 (B.W), 0x8000 (B<cond>.W), 0xA000 (UDF) and 0. These are all the combinations of bits 15, 14 and 12 that the two decoders test. A behaviour is one fetch and dispatch, so the run sets `CHECK_DEADLOCK FALSE`.
- **ALU.**
  - `AluBits = 4`, so register shift amounts 0–15 fall below, at and above the width.
  - Two registers, so every operand pattern is both distinct and aliased.
  - Branch offsets 0, 1, 127, −128 and −1.
  - The handlers do not depend on the width except through `Msb`, `AllOnes` and the width compares. `ROR`'s `& 0x1F` is scaled to `% AluBits`, which is the same reduction for a power-of-two width.
  - `(int32_t)x >> n` on a negative value is implementation-defined in C. It is modelled as the arithmetic shift that GCC and Clang produce.

## Fairness

`Simulator` assumes weak fairness of `Step` and nothing of the host.

- **Where it comes from.** `simulator_run` and the GDB stub's `continue` loop over `simulator_step` until the simulator halts. No instruction of the image branches to itself, so `<<Step>>_vars` is enabled exactly when `~halted`.
- **How it is stated.** `StepFairness` states the property directly: `<>[]~halted => []<><<Step>>_vars`. TLC then need not compute `ENABLED` of a whole core step.
- **The caveat.** The CLI's `step` command and a GDB interrupt stop stepping without setting `halted`. `PendingIrqTaken` therefore holds for a host that keeps the simulator running whenever it is not halted.

`GdbStub` assumes weak fairness of the stub's three actions and of GDB reading its bytes (`RecvAck`, `RecvNack`, `RecvReply`, `SeeClose`) and timing out.

- **The stub.** Its thread only ever blocks in `recv`, which TCP completes once a byte is there. The continue loop steps without waiting.
- **GDB.** Its reader consumes every byte, and `remotetimeout` fires once nothing more comes.
- **Not assumed.** Ctrl-C, new commands, reconnects and link faults are the user's and the link's, and are not assumed to happen.

`Timer` assumes weak fairness of `Tick`, because `simulator_step` calls `timer_tick` on every step of a running simulator. Writes, resets and IRQ acknowledgement are not assumed to happen.

The other component specs have no liveness properties.

## Not modelled

- **NVIC reprioritisation of an active line.** `Nvic`'s constant `ReprioritiseActive` is FALSE in every run. With TRUE, `CurrentPriorityIsMinActive` fails at once: `nvic_set_priority` (part_012 line 45) leaves `current_priority` stale. The spec's row for `set_priority` matches the code, so this is an observation on the spec rather than a finding.
- **Gateway detail.** Configuration, health checks, the auth middleware, metrics, `ListJobs`, the SSE broker and `StreamEvents` (which subscribes only after its `GetJob`, so an event in between is lost), HTTP encoding and job ownership (one user).

- **GDB stub detail.** Framing bytes, hex encoding and checksum arithmetic are reduced to a good/bad bit. The register and memory commands (`g`, `G`, `p`, `P`, `m`, `M`) and the queries are reduced to their replies. The length limit of `rsp_recv_packet` (`gdb_stub.h:136`) is not modelled, because packets carry no length.
- **Instruction handlers.** The code has no LDM/STM (the table rejects them, and spec.md does not require them). The cycle counter and SVC's diagnostic message are not modelled. `Alu`'s format-5 handlers write the PC only when rd is 15, which the run's two registers never reach. `Alu`'s handlers are not yet wired into `Machine`, whose registers are unbounded integers.
- **Loading.** `memory_load_binary` and `simulator_load` are file I/O.
- **Overlapping regions.** spec.md section 3 says an overlapping region registration is rejected. `bus_register_region` checks only the region count. The emulator registers five disjoint regions, so no run reaches it; it is left as an observation.
- **Other parts.**
  - The CLI's parsing and printing;
  - the examples, tests and Makefile.

## Next steps

- Run `Machine` on `Alu`'s operators with 32-bit wrapping, dispatching through `Decode`'s table.
- Check that received bytes are eventually read under the per-byte RX interrupt (`uart.c:128`).
- Add a passing gateway run with a liveness property on jobs left queued by a partial pipeline (`keydb.go:58`).
