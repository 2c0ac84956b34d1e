-------------------------------- MODULE Alu ---------------------------------
(***************************************************************************)
(* The data-processing instructions of the core (src/src/core/core.h,     *)
(* core.c: formats 1 to 4 and the conditional branch), with the flag      *)
(* helpers update_nz, update_flags_add, update_flags_sub,                  *)
(* condition_passed and sign_extend, on words of AluBits bits: the code's *)
(* uint32_t arithmetic scaled down, 0x80000000 being Msb and 0xFFFFFFFF    *)
(* AllOnes.  xPSR is its NZCV nibble (N = 8, Z = 4, C = 2, V = 1), as in  *)
(* module Machine.                                                         *)
(*                                                                         *)
(* The state is the low registers the operands name and xPSR; an         *)
(* instruction is a record of its handler and its decoded fields.  The    *)
(* second half states the architecture's definitions (AddWithCarry,      *)
(* Shift_C and the condition table of the ARMv7-M reference manual) that  *)
(* the handlers are checked against.                                      *)
(***************************************************************************)
EXTENDS Naturals, Integers, Bitwise

CONSTANTS AluBits, Regs, BranchPc, BranchOffsets

ASSUME AluBits \in 2 .. 8

M       == 2 ^ AluBits
Word    == 0 .. (M - 1)
Msb     == 2 ^ (AluBits - 1)
AllOnes == M - 1

N_FLAG == 8
Z_FLAG == 4
C_FLAG == 2
V_FLAG == 1

Bit(v, k)   == (v \div 2 ^ k) % 2
IsSet(x, f) == (x \div f) % 2 = 1
NotW(v)     == AllOnes - v                       \* ~v
Bit31(v)    == Bit(v, AluBits - 1) = 1            \* (v >> 31) as a condition

(* set_flag *)
SetFlag(x, f, cond) ==
    CASE cond /\ ~IsSet(x, f) -> x + f
      [] ~cond /\ IsSet(x, f) -> x - f
      [] OTHER                -> x

(* update_nz *)
UpdateNZ(x, res) == SetFlag(SetFlag(x, Z_FLAG, res = 0), N_FLAG, res >= Msb)

(* update_flags_add: C from the 33-bit sum, V from the sign bits. *)
UpdateFlagsAdd(x, a, b, res) ==
    SetFlag(SetFlag(UpdateNZ(x, res), C_FLAG, a + b > AllOnes),
            V_FLAG, Bit31(NotW(a ^^ b) & (a ^^ res)))

(* Mutation: the no-borrow test is a > b. *)
UpdateFlagsSubStrict(x, a, b, res) ==
    SetFlag(SetFlag(UpdateNZ(x, res), C_FLAG, a > b),
            V_FLAG, Bit31((a ^^ b) & (a ^^ res)))

(* update_flags_sub: C is "no borrow". *)
UpdateFlagsSub(x, a, b, res) ==
    SetFlag(SetFlag(UpdateNZ(x, res), C_FLAG, a >= b),
            V_FLAG, Bit31((a ^^ b) & (a ^^ res)))

(* Mutation: GE and LT read Z where they should read V. *)
ConditionPassedGeZ(x, cond) ==
    LET n == IsSet(x, N_FLAG)  z == IsSet(x, Z_FLAG)
        c == IsSet(x, C_FLAG)  v == IsSet(x, V_FLAG)
    IN  CASE cond = 0  -> z         [] cond = 1  -> ~z
          [] cond = 2  -> c         [] cond = 3  -> ~c
          [] cond = 4  -> n         [] cond = 5  -> ~n
          [] cond = 6  -> v         [] cond = 7  -> ~v
          [] cond = 8  -> c /\ ~z   [] cond = 9  -> ~c \/ z
          [] cond = 10 -> n = z     [] cond = 11 -> n # z
          [] cond = 12 -> ~z /\ n = v
          [] cond = 13 -> z \/ n # v
          [] cond = 14 -> TRUE      [] OTHER     -> FALSE

(* condition_passed *)
ConditionPassed(x, cond) ==
    LET n == IsSet(x, N_FLAG)  z == IsSet(x, Z_FLAG)
        c == IsSet(x, C_FLAG)  v == IsSet(x, V_FLAG)
    IN  CASE cond = 0  -> z         [] cond = 1  -> ~z
          [] cond = 2  -> c         [] cond = 3  -> ~c
          [] cond = 4  -> n         [] cond = 5  -> ~n
          [] cond = 6  -> v         [] cond = 7  -> ~v
          [] cond = 8  -> c /\ ~z   [] cond = 9  -> ~c \/ z
          [] cond = 10 -> n = v     [] cond = 11 -> n # v
          [] cond = 12 -> ~z /\ n = v
          [] cond = 13 -> z \/ n # v
          [] cond = 14 -> TRUE      [] OTHER     -> FALSE

(* sign_extend(value, bits): (value ^ mask) - mask, mask = 2^(bits-1). *)
SignExtend(v, bits) == LET half == 2 ^ (bits - 1) IN (v ^^ half) - half

(* (int32_t)v: the two's-complement reading of a word. *)
Int32(v) == IF v >= Msb THEN v - M ELSE v

(***************************************************************************)
(* The handlers.  A core state is [r |-> registers, xpsr |-> NZCV]; each   *)
(* handler maps it to the next one.  The fields are the decoded operand   *)
(* registers and immediates.  Every handler returns STATUS_OK.            *)
(***************************************************************************)
Write(s, rd, v, x) == [r |-> [s.r EXCEPT ![rd] = v], xpsr |-> x]

(* R(rd) = res; set_flag(XPSR_C, c); update_nz(res) *)
Shifted(s, rd, res, c) == Write(s, rd, res, UpdateNZ(SetFlag(s.xpsr, C_FLAG, c), res))

(* The "no change" arm of a shift: only update_nz runs. *)
Unshifted(s, rd, v) == Write(s, rd, v, UpdateNZ(s.xpsr, v))

ExecLslImm(s, rd, rs, imm5) ==
    LET v == s.r[rs] IN
    IF imm5 = 0 THEN Unshifted(s, rd, v)
    ELSE Shifted(s, rd, (v * 2 ^ imm5) % M, Bit(v, AluBits - imm5) = 1)

ExecLsrImm(s, rd, rs, imm5) ==
    LET v == s.r[rs]
        n == IF imm5 = 0 THEN AluBits ELSE imm5
    IN  IF n = AluBits THEN Shifted(s, rd, 0, Bit(v, AluBits - 1) = 1)
        ELSE Shifted(s, rd, v \div 2 ^ n, Bit(v, n - 1) = 1)

ExecAsrImm(s, rd, rs, imm5) ==
    LET v == s.r[rs]
        n == IF imm5 = 0 THEN AluBits ELSE imm5
    IN  IF n = AluBits
        THEN Shifted(s, rd, IF Bit31(v) THEN AllOnes ELSE 0, Bit31(v))
        ELSE Shifted(s, rd, (Int32(v) \div 2 ^ n) % M, Bit(v, n - 1) = 1)

ExecAddReg(s, rd, rn, rm) ==
    LET res == (s.r[rn] + s.r[rm]) % M
    IN  Write(s, rd, res, UpdateFlagsAdd(s.xpsr, s.r[rn], s.r[rm], res))

ExecSubReg(s, rd, rn, rm) ==
    LET res == (s.r[rn] - s.r[rm]) % M
    IN  Write(s, rd, res, UpdateFlagsSub(s.xpsr, s.r[rn], s.r[rm], res))

ExecAddImm3(s, rd, rn, imm3) ==
    LET res == (s.r[rn] + imm3) % M
    IN  Write(s, rd, res, UpdateFlagsAdd(s.xpsr, s.r[rn], imm3, res))

ExecSubImm3(s, rd, rn, imm3) ==
    LET res == (s.r[rn] - imm3) % M
    IN  Write(s, rd, res, UpdateFlagsSub(s.xpsr, s.r[rn], imm3, res))

ExecMovImm(s, rd, imm8) == Write(s, rd, imm8, UpdateNZ(s.xpsr, imm8))

ExecCmpImm(s, rn, imm8) ==
    [s EXCEPT !.xpsr = UpdateFlagsSub(s.xpsr, s.r[rn], imm8, (s.r[rn] - imm8) % M)]

ExecAddImm8(s, rd, imm8) ==
    LET res == (s.r[rd] + imm8) % M
    IN  Write(s, rd, res, UpdateFlagsAdd(s.xpsr, s.r[rd], imm8, res))

ExecSubImm8(s, rd, imm8) ==
    LET res == (s.r[rd] - imm8) % M
    IN  Write(s, rd, res, UpdateFlagsSub(s.xpsr, s.r[rd], imm8, res))

ExecAnd(s, rd, rm) == Unshifted(s, rd, s.r[rd] & s.r[rm])
ExecEor(s, rd, rm) == Unshifted(s, rd, s.r[rd] ^^ s.r[rm])

(* shift = R(rs) & 0xFF: the low byte, compared with the word width. *)
ShiftAmount(s, rs) == s.r[rs] % 256

ExecLslReg(s, rd, rs) ==
    LET v == s.r[rd]  sh == ShiftAmount(s, rs) IN
    CASE sh = 0       -> Unshifted(s, rd, v)
      [] sh < AluBits -> Shifted(s, rd, (v * 2 ^ sh) % M, Bit(v, AluBits - sh) = 1)
      [] sh = AluBits -> Shifted(s, rd, 0, Bit(v, 0) = 1)
      [] OTHER        -> Shifted(s, rd, 0, FALSE)

(* Mutation: the carry is bit shift, not bit shift-1. *)
ExecLsrRegOffByOne(s, rd, rs) ==
    LET v == s.r[rd]  sh == ShiftAmount(s, rs) IN
    CASE sh = 0       -> Unshifted(s, rd, v)
      [] sh < AluBits -> Shifted(s, rd, v \div 2 ^ sh, Bit(v, sh) = 1)
      [] sh = AluBits -> Shifted(s, rd, 0, Bit31(v))
      [] OTHER        -> Shifted(s, rd, 0, FALSE)

ExecLsrReg(s, rd, rs) ==
    LET v == s.r[rd]  sh == ShiftAmount(s, rs) IN
    CASE sh = 0       -> Unshifted(s, rd, v)
      [] sh < AluBits -> Shifted(s, rd, v \div 2 ^ sh, Bit(v, sh - 1) = 1)
      [] sh = AluBits -> Shifted(s, rd, 0, Bit31(v))
      [] OTHER        -> Shifted(s, rd, 0, FALSE)

ExecAsrReg(s, rd, rs) ==
    LET v == s.r[rd]  sh == ShiftAmount(s, rs) IN
    CASE sh = 0       -> Unshifted(s, rd, v)
      [] sh < AluBits -> Shifted(s, rd, (Int32(v) \div 2 ^ sh) % M, Bit(v, sh - 1) = 1)
      [] OTHER        -> Shifted(s, rd, IF Bit31(v) THEN AllOnes ELSE 0, Bit31(v))

Carry(x) == IF IsSet(x, C_FLAG) THEN 1 ELSE 0

(* The sum is taken in 64 bits: C is "result > 0xFFFFFFFF". *)
ExecAdc(s, rd, rm) ==
    LET a == s.r[rd]  b == s.r[rm]
        result == a + b + Carry(s.xpsr)
        res32 == result % M
    IN  Write(s, rd, res32,
              SetFlag(SetFlag(UpdateNZ(s.xpsr, res32), C_FLAG, result > AllOnes),
                      V_FLAG, Bit31(NotW(a ^^ b) & (a ^^ res32))))

ExecSbc(s, rd, rm) ==
    LET a == s.r[rd]  b == s.r[rm]
        result == (a - b - (1 - Carry(s.xpsr))) % M
    IN  Write(s, rd, result,
              SetFlag(SetFlag(UpdateNZ(s.xpsr, result), C_FLAG, a >= b + (1 - Carry(s.xpsr))),
                      V_FLAG, Bit31((a ^^ b) & (a ^^ result))))

(* shift &= 0x1F reduces the amount modulo the width (a power of two). *)
ExecRor(s, rd, rs) ==
    LET v == s.r[rd]  sh == ShiftAmount(s, rs)  k == sh % AluBits IN
    CASE sh = 0 -> Unshifted(s, rd, v)
      [] k = 0  -> Shifted(s, rd, v, Bit31(v))
      [] OTHER  -> Shifted(s, rd, (v \div 2 ^ k) | ((v * 2 ^ (AluBits - k)) % M),
                           Bit(v, k - 1) = 1)

ExecTst(s, rn, rm) == [s EXCEPT !.xpsr = UpdateNZ(s.xpsr, s.r[rn] & s.r[rm])]

ExecNeg(s, rd, rm) ==
    LET res == (0 - s.r[rm]) % M
    IN  Write(s, rd, res, UpdateFlagsSub(s.xpsr, 0, s.r[rm], res))

ExecCmpReg(s, rn, rm) ==
    [s EXCEPT !.xpsr = UpdateFlagsSub(s.xpsr, s.r[rn], s.r[rm], (s.r[rn] - s.r[rm]) % M)]

ExecCmn(s, rn, rm) ==
    [s EXCEPT !.xpsr = UpdateFlagsAdd(s.xpsr, s.r[rn], s.r[rm], (s.r[rn] + s.r[rm]) % M)]

ExecOrr(s, rd, rm) == Unshifted(s, rd, s.r[rd] | s.r[rm])

ExecMul(s, rd, rm) == Unshifted(s, rd, (s.r[rd] * s.r[rm]) % M)
ExecBic(s, rd, rm) == Unshifted(s, rd, s.r[rd] & NotW(s.r[rm]))
ExecMvn(s, rd, rm) == Unshifted(s, rd, NotW(s.r[rm]))

(* Format 5, the high-register operations, with 4-bit register fields.    *)
(* ADD and MOV set no flags; a write to the PC clears bit 0 (and sets     *)
(* pc_written, which this state does not hold).                           *)
PC_REG == 15
HiWrite(s, rd, v) == Write(s, rd, IF rd = PC_REG THEN v - (v % 2) ELSE v, s.xpsr)

ExecAddHireg(s, rd, rm) == HiWrite(s, rd, (s.r[rd] + s.r[rm]) % M)

ExecCmpHireg(s, rn, rm) ==
    [s EXCEPT !.xpsr = UpdateFlagsSub(s.xpsr, s.r[rn], s.r[rm], (s.r[rn] - s.r[rm]) % M)]

ExecMovHireg(s, rd, rm) == HiWrite(s, rd, s.r[rm])

(* exec_b_cond on the flags x at address pc: the new PC and pc_written.   *)
(* cond 0xF is SVC and does nothing; cond 0xE is taken as "always".       *)
ExecBCond(x, pc, cond, imm8) ==
    IF cond # 15 /\ ConditionPassed(x, cond)
    THEN [pc |-> pc + 4 + SignExtend(imm8, 8) * 2, written |-> TRUE]
    ELSE [pc |-> pc, written |-> FALSE]

(***************************************************************************)
(* The specification: the low registers Regs and xPSR take any values a   *)
(* program can give them, and each step runs one handler with any decoded *)
(* fields.                                                                 *)
(***************************************************************************)
VARIABLES r, xpsr

vars == <<r, xpsr>>
cpu  == [r |-> r, xpsr |-> xpsr]

Imm3 == 0 .. 7
Imm5 == 0 .. (AluBits - 1)          \* imm5 ranges below the word width

Init == r \in [Regs -> Word] /\ xpsr \in 0 .. 15

Do(s) == r' = s.r /\ xpsr' = s.xpsr

LslImm == \E rd, rs \in Regs, i \in Imm5 : Do(ExecLslImm(cpu, rd, rs, i))
LsrImm == \E rd, rs \in Regs, i \in Imm5 : Do(ExecLsrImm(cpu, rd, rs, i))
AsrImm == \E rd, rs \in Regs, i \in Imm5 : Do(ExecAsrImm(cpu, rd, rs, i))
AddReg == \E rd, rn, rm \in Regs : Do(ExecAddReg(cpu, rd, rn, rm))
SubReg == \E rd, rn, rm \in Regs : Do(ExecSubReg(cpu, rd, rn, rm))
AddImm3 == \E rd, rn \in Regs, i \in Imm3 : Do(ExecAddImm3(cpu, rd, rn, i))
SubImm3 == \E rd, rn \in Regs, i \in Imm3 : Do(ExecSubImm3(cpu, rd, rn, i))
MovImm == \E rd \in Regs, i \in Word : Do(ExecMovImm(cpu, rd, i))
CmpImm == \E rn \in Regs, i \in Word : Do(ExecCmpImm(cpu, rn, i))
AddImm8 == \E rd \in Regs, i \in Word : Do(ExecAddImm8(cpu, rd, i))
SubImm8 == \E rd \in Regs, i \in Word : Do(ExecSubImm8(cpu, rd, i))

(* Format 4: the sixteen register-register operations. *)
Format4 ==
    \E rd, rm \in Regs :
        \/ Do(ExecAnd(cpu, rd, rm))    \/ Do(ExecEor(cpu, rd, rm))
        \/ Do(ExecLslReg(cpu, rd, rm)) \/ Do(ExecLsrReg(cpu, rd, rm))
        \/ Do(ExecAsrReg(cpu, rd, rm)) \/ Do(ExecAdc(cpu, rd, rm))
        \/ Do(ExecSbc(cpu, rd, rm))    \/ Do(ExecRor(cpu, rd, rm))
        \/ Do(ExecTst(cpu, rd, rm))    \/ Do(ExecNeg(cpu, rd, rm))
        \/ Do(ExecCmpReg(cpu, rd, rm)) \/ Do(ExecCmn(cpu, rd, rm))
        \/ Do(ExecOrr(cpu, rd, rm))    \/ Do(ExecMul(cpu, rd, rm))
        \/ Do(ExecBic(cpu, rd, rm))    \/ Do(ExecMvn(cpu, rd, rm))

(* Format 5: ADD hi, CMP hi and MOV hi. *)
HiRegOps ==
    \E rd, rm \in Regs :
        \/ Do(ExecAddHireg(cpu, rd, rm))
        \/ Do(ExecCmpHireg(cpu, rd, rm))
        \/ Do(ExecMovHireg(cpu, rd, rm))

Next ==
    \/ LslImm \/ LsrImm \/ AsrImm
    \/ AddReg \/ SubReg \/ AddImm3 \/ SubImm3
    \/ MovImm \/ CmpImm \/ AddImm8 \/ SubImm8
    \/ Format4 \/ HiRegOps

Spec == Init /\ [][Next]_vars

(***************************************************************************)
(* Reference definitions, from the ARMv7-M Architecture Reference Manual  *)
(* rather than from the code.                                              *)
(***************************************************************************)
SInt(v) == IF v < Msb THEN v ELSE v - M
SRange  == (-Msb) .. (Msb - 1)

(* AddWithCarry(x, y, carry_in): result and NZCV. *)
AddWithCarry(x, y, cin) ==
    LET u == x + y + cin  res == u % M IN
    [res |-> res, n |-> res >= Msb, z |-> res = 0,
     c |-> u >= M, v |-> SInt(x) + SInt(y) + cin \notin SRange]

(* Shift_C(value, type, amount, carry_in), on the extended value. *)
ShiftC(v, type, n, cin) ==
    LET ror == n % AluBits
        rot == (v \div 2 ^ ror) + ((v * 2 ^ (AluBits - ror)) % M)
    IN
    IF n = 0 THEN [res |-> v, c |-> cin]
    ELSE CASE type = "LSL" -> [res |-> (v * 2 ^ n) % M, c |-> Bit(v * 2 ^ n, AluBits) = 1]
           [] type = "LSR" -> [res |-> v \div 2 ^ n, c |-> Bit(v, n - 1) = 1]
           [] type = "ASR" -> [res |-> (SInt(v) \div 2 ^ n) % M,
                               c |-> (SInt(v) \div 2 ^ (n - 1)) % 2 = 1]
           [] type = "ROR" -> [res |-> rot % M, c |-> Bit(rot % M, AluBits - 1) = 1]

Flags(x) == [n |-> IsSet(x, N_FLAG), z |-> IsSet(x, Z_FLAG),
             c |-> IsSet(x, C_FLAG), v |-> IsSet(x, V_FLAG)]

(* A result with the flags as they were. *)
KeepFlags(res) ==
    [res |-> res, n |-> IsSet(xpsr, N_FLAG), z |-> IsSet(xpsr, Z_FLAG),
     c |-> IsSet(xpsr, C_FLAG), v |-> IsSet(xpsr, V_FLAG)]

(* The handler's result s writes ref.res to rd (nothing when rd is -1),  *)
(* sets NZCV as ref says, and leaves the other registers alone.           *)
Agrees(s, rd, ref) ==
    /\ \A j \in Regs : s.r[j] = IF j = rd THEN ref.res ELSE r[j]
    /\ Flags(s.xpsr) = [n |-> ref.n, z |-> ref.z, c |-> ref.c, v |-> ref.v]

(* The same for a shift: N and Z from the result, V unchanged. *)
ShiftAgrees(s, rd, ref) ==
    Agrees(s, rd, [res |-> ref.res, n |-> ref.res >= Msb, z |-> ref.res = 0,
                   c |-> ref.c, v |-> IsSet(xpsr, V_FLAG)])

Complement(v) == M - 1 - v                 \* NOT(x)
DecodeImmShift(imm5) == IF imm5 = 0 THEN AluBits ELSE imm5
SInt8(i) == IF i < 128 THEN i ELSE i - 256

(* After CMP a, b: whether branch condition cond holds of a and b, the    *)
(* unsigned, signed and result relations the condition names; 15 is SVC, *)
(* which never branches.                                                  *)
Holds(cond, a, b) ==
    LET diff == (a - b) % M  ovf == SInt(a) - SInt(b) \notin SRange IN
    << a = b, a # b, a >= b, a < b, diff >= Msb, diff < Msb, ovf, ~ovf,
       a > b, a <= b, SInt(a) >= SInt(b), SInt(a) < SInt(b),
       SInt(a) > SInt(b), SInt(a) <= SInt(b), TRUE, FALSE >>[cond + 1]

-----------------------------------------------------------------------------
(* Every add, subtract, compare and negate handler (formats 2, 3, 4 and   *)
(* CMP hi, with update_flags_add and update_flags_sub, and ADC and SBC    *)
(* with their own carry logic) writes the result and NZCV that            *)
(* AddWithCarry gives, for any register contents, carry in and aliasing   *)
(* of rd, rn and rm; ADD hi writes AddWithCarry's result and keeps NZCV.  *)
AddWithCarryAgrees ==
    \A rd, rn, rm \in Regs :
        LET a == r[rn]  b == r[rm]  cin == Carry(xpsr) IN
        /\ Agrees(ExecAddReg(cpu, rd, rn, rm), rd, AddWithCarry(a, b, 0))
        /\ Agrees(ExecSubReg(cpu, rd, rn, rm), rd, AddWithCarry(a, Complement(b), 1))
        /\ Agrees(ExecCmn(cpu, rn, rm), -1, AddWithCarry(a, b, 0))
        /\ Agrees(ExecCmpReg(cpu, rn, rm), -1, AddWithCarry(a, Complement(b), 1))
        /\ Agrees(ExecAdc(cpu, rn, rm), rn, AddWithCarry(a, b, cin))
        /\ Agrees(ExecSbc(cpu, rn, rm), rn, AddWithCarry(a, Complement(b), cin))
        /\ Agrees(ExecNeg(cpu, rd, rm), rd, AddWithCarry(Complement(b), 0, 1))
        /\ Agrees(ExecCmpHireg(cpu, rn, rm), -1, AddWithCarry(a, Complement(b), 1))
        /\ Agrees(ExecAddHireg(cpu, rn, rm), rn,
                  KeepFlags(AddWithCarry(a, b, 0).res))
        /\ \A i \in Imm3 :
            /\ Agrees(ExecAddImm3(cpu, rd, rn, i), rd, AddWithCarry(a, i, 0))
            /\ Agrees(ExecSubImm3(cpu, rd, rn, i), rd, AddWithCarry(a, Complement(i), 1))
        /\ \A i \in Word :
            /\ Agrees(ExecAddImm8(cpu, rn, i), rn, AddWithCarry(a, i, 0))
            /\ Agrees(ExecSubImm8(cpu, rn, i), rn, AddWithCarry(a, Complement(i), 1))
            /\ Agrees(ExecCmpImm(cpu, rn, i), -1, AddWithCarry(a, Complement(i), 1))

(* Every shift handler, by immediate (imm5 = 0 meaning 32 for LSR and ASR) *)
(* and by the low byte of a register (0, below, at and above the width,  *)
(* ROR reducing it modulo the width), gives the result and carry of      *)
(* Shift_C, leaves V alone and sets N and Z from the result.             *)
ShiftsAgree ==
    \A rd, rs \in Regs :
        LET c == IsSet(xpsr, C_FLAG)  amt == r[rs] % 256 IN
        /\ \A i \in Imm5 :
            /\ ShiftAgrees(ExecLslImm(cpu, rd, rs, i), rd, ShiftC(r[rs], "LSL", i, c))
            /\ ShiftAgrees(ExecLsrImm(cpu, rd, rs, i), rd,
                           ShiftC(r[rs], "LSR", DecodeImmShift(i), c))
            /\ ShiftAgrees(ExecAsrImm(cpu, rd, rs, i), rd,
                           ShiftC(r[rs], "ASR", DecodeImmShift(i), c))
        /\ ShiftAgrees(ExecLslReg(cpu, rd, rs), rd, ShiftC(r[rd], "LSL", amt, c))
        /\ ShiftAgrees(ExecLsrReg(cpu, rd, rs), rd, ShiftC(r[rd], "LSR", amt, c))
        /\ ShiftAgrees(ExecAsrReg(cpu, rd, rs), rd, ShiftC(r[rd], "ASR", amt, c))
        /\ ShiftAgrees(ExecRor(cpu, rd, rs), rd, ShiftC(r[rd], "ROR", amt, c))

(* CMP rn, rm followed by B<cond> (condition_passed on the flags that     *)
(* update_flags_sub left, and sign_extend of the 8-bit offset) branches   *)
(* to PC + 4 + 2 * offset exactly when the condition's relation holds of  *)
(* the two registers, and otherwise leaves the PC for core_step to        *)
(* advance.                                                                *)
CompareSelectsBranch ==
    \A rn, rm \in Regs, cond \in 0 .. 15, imm8 \in BranchOffsets :
        ExecBCond(ExecCmpReg(cpu, rn, rm).xpsr, BranchPc, cond, imm8)
          = IF Holds(cond, r[rn], r[rm])
            THEN [pc |-> BranchPc + 4 + 2 * SInt8(imm8), written |-> TRUE]
            ELSE [pc |-> BranchPc, written |-> FALSE]

====
