------------------------------- MODULE Decode -------------------------------
(***************************************************************************)
(* Fetch and dispatch of core_step (core.h): which handler a halfword, or *)
(* a pair of halfwords, reaches.                                           *)
(*                                                                         *)
(*   - core_step reads the halfword at PC; when its top bits say 32-bit    *)
(*     ((instr & 0xE000) == 0xE000 && (instr & 0x1800) != 0) it reads the  *)
(*     halfword at PC+2 and calls execute_32bit, which knows only BL;      *)
(*   - otherwise it scans instr_table and calls the first entry with      *)
(*     (instr & mask) == pattern; past the sentinel it returns             *)
(*     STATUS_INVALID_INSTRUCTION.                                         *)
(*                                                                         *)
(* A handler is named by the table's own name string.  What the handlers  *)
(* then do is modelled in Alu, Memory and Machine.                         *)
(***************************************************************************)
EXTENDS Naturals, Sequences, SequencesExt

CONSTANTS Second   \* the halfwords at PC+2 tried after a 32-bit first half

Halfword == 0 .. 65535

(* Every mask of instr_table is a run of high bits, 2^16 - 2^k, so        *)
(* instr & mask clears the k low bits.                                     *)
HighMask(m) == \E k \in 0 .. 16 : m = 65536 - 2 ^ k
MaskAnd(x, m) == x - (x % (65536 - m))

Bit(v, k) == (v \div 2 ^ k) % 2

(* instr_table, in its order, without the {0, 0, NULL} sentinel that ends *)
(* the scan.                                                               *)
E(m, p, n) == [mask |-> m, pattern |-> p, name |-> n]

InstrTable == <<
    E(\hFFFF, \hBF00, "NOP"),
    E(\hFFC0, \h4000, "AND"),  E(\hFFC0, \h4040, "EOR"),
    E(\hFFC0, \h4080, "LSL"),  E(\hFFC0, \h40C0, "LSR"),
    E(\hFFC0, \h4100, "ASR"),  E(\hFFC0, \h4140, "ADC"),
    E(\hFFC0, \h4180, "SBC"),  E(\hFFC0, \h41C0, "ROR"),
    E(\hFFC0, \h4200, "TST"),  E(\hFFC0, \h4240, "NEG"),
    E(\hFFC0, \h4280, "CMP"),  E(\hFFC0, \h42C0, "CMN"),
    E(\hFFC0, \h4300, "ORR"),  E(\hFFC0, \h4340, "MUL"),
    E(\hFFC0, \h4380, "BIC"),  E(\hFFC0, \h43C0, "MVN"),
    E(\hFF80, \h4700, "BX"),
    E(\hFF00, \h4400, "ADD hi"), E(\hFF00, \h4500, "CMP hi"),
    E(\hFF00, \h4600, "MOV hi"),
    E(\hFF00, \hDF00, "SVC"),
    E(\hFF00, \hB000, "ADD/SUB SP"),
    E(\hFE00, \h1800, "ADD reg"),  E(\hFE00, \h1A00, "SUB reg"),
    E(\hFE00, \h1C00, "ADD imm3"), E(\hFE00, \h1E00, "SUB imm3"),
    E(\hFE00, \h5000, "STR reg"),  E(\hFE00, \h5200, "STRH reg"),
    E(\hFE00, \h5400, "STRB reg"), E(\hFE00, \h5600, "LDRSB reg"),
    E(\hFE00, \h5800, "LDR reg"),  E(\hFE00, \h5A00, "LDRH reg"),
    E(\hFE00, \h5C00, "LDRB reg"), E(\hFE00, \h5E00, "LDRSH reg"),
    E(\hFE00, \hB400, "PUSH"),     E(\hFE00, \hBC00, "POP"),
    E(\hF800, \h0000, "LSL imm"),  E(\hF800, \h0800, "LSR imm"),
    E(\hF800, \h1000, "ASR imm"),
    E(\hF800, \h2000, "MOV imm"),  E(\hF800, \h2800, "CMP imm"),
    E(\hF800, \h3000, "ADD imm8"), E(\hF800, \h3800, "SUB imm8"),
    E(\hF800, \h4800, "LDR PC"),
    E(\hF800, \h6000, "STR imm"),  E(\hF800, \h6800, "LDR imm"),
    E(\hF800, \h7000, "STRB imm"), E(\hF800, \h7800, "LDRB imm"),
    E(\hF800, \h8000, "STRH imm"), E(\hF800, \h8800, "LDRH imm"),
    E(\hF800, \h9000, "STR SP"),   E(\hF800, \h9800, "LDR SP"),
    E(\hF800, \hA000, "ADR"),      E(\hF800, \hA800, "ADD SP imm"),
    E(\hF000, \hD000, "B<cond>"),
    E(\hF800, \hE000, "B") >>

ASSUME \A i \in 1 .. Len(InstrTable) : HighMask(InstrTable[i].mask)

(* The lookup loop of core_step: the first entry that matches. *)
TableLookup(instr) ==
    LET i == SelectInSeq(InstrTable,
                         LAMBDA e : MaskAnd(instr, e.mask) = e.pattern)
    IN IF i = 0 THEN "invalid" ELSE InstrTable[i].name

(* core_step's test for the first half of a 32-bit instruction. *)
Is32Bit(instr) == instr \div \h2000 = 7 /\ (instr \div \h800) % 4 # 0

(* execute_32bit: BL when hw1 & 0xF800 == 0xF000 and hw2 & 0xD000 ==     *)
(* 0xD000; every other pair is STATUS_INVALID_INSTRUCTION.                 *)
Execute32(hw1, hw2) ==
    IF MaskAnd(hw1, \hF800) = \hF000
       /\ Bit(hw2, 15) = 1 /\ Bit(hw2, 14) = 1 /\ Bit(hw2, 12) = 1
    THEN "BL" ELSE "invalid"

Dispatch(hw1, hw2) ==
    IF Is32Bit(hw1) THEN Execute32(hw1, hw2) ELSE TableLookup(hw1)

-----------------------------------------------------------------------------
VARIABLES hw1, hw2, handler

vars == <<hw1, hw2, handler>>

(* Any halfword may be at PC; the one at PC+2 matters only for a 32-bit   *)
(* first half.                                                             *)
Init ==
    /\ hw1 \in Halfword
    /\ hw2 \in IF Is32Bit(hw1) THEN Second ELSE {0}
    /\ handler = "none"

(* The fetch and dispatch of one core_step. *)
Step ==
    /\ handler = "none"
    /\ handler' = Dispatch(hw1, hw2)
    /\ UNCHANGED <<hw1, hw2>>

Next == Step

Spec == Init /\ [][Next]_vars

-----------------------------------------------------------------------------
(***************************************************************************)
(* The reference: the encoding tables of the ARMv7-M Architecture         *)
(* Reference Manual (A5.2 and A5.3), naming each encoding by the handler  *)
(* name the table uses for it, "other" for an encoding outside spec.md's  *)
(* required coverage.                                                      *)
(***************************************************************************)
Field(v, lo, n) == (v \div 2 ^ lo) % 2 ^ n

DataProcessing == <<"AND", "EOR", "LSL", "LSR", "ASR", "ADC", "SBC", "ROR",
                    "TST", "NEG", "CMP", "CMN", "ORR", "MUL", "BIC", "MVN">>
RegOffset == <<"STR reg", "STRH reg", "STRB reg", "LDRSB reg",
               "LDR reg", "LDRH reg", "LDRB reg", "LDRSH reg">>
ImmOffset == <<"STR imm", "LDR imm", "STRB imm", "LDRB imm">>
ShiftAddSubMovCmp(op5) ==
    CASE op5 < 4   -> "LSL imm"
      [] op5 < 8   -> "LSR imm"
      [] op5 < 12  -> "ASR imm"
      [] op5 = 12  -> "ADD reg"
      [] op5 = 13  -> "SUB reg"
      [] op5 = 14  -> "ADD imm3"
      [] op5 = 15  -> "SUB imm3"
      [] OTHER     -> <<"MOV imm", "CMP imm", "ADD imm8", "SUB imm8">>[(op5 - 16) \div 4 + 1]

(* Special data processing and branch and exchange (A5.2.3). *)
SpecialData(op4) ==
    CASE op4 < 4  -> "ADD hi"
      [] op4 < 8  -> "CMP hi"
      [] op4 < 12 -> "MOV hi"
      [] op4 < 14 -> "BX"
      [] OTHER    -> "other"      \* BLX (register)

(* Miscellaneous 16-bit instructions (A5.2.5), on bits 11:5. *)
Misc(h) ==
    LET op7 == Field(h, 5, 7) IN
    CASE op7 < 8                  -> "ADD/SUB SP"
      [] op7 \div 16 = 2          -> "PUSH"
      [] op7 \div 16 = 6          -> "POP"
      [] h = \hBF00               -> "NOP"
      [] OTHER                    -> "other"    \* CBZ, extends, REV, IT, hints

Ref16(h) ==
    LET op6 == Field(h, 10, 6)  op5 == Field(h, 11, 5) IN
    CASE op6 < 16       -> ShiftAddSubMovCmp(Field(h, 9, 5))
      [] op6 = 16       -> DataProcessing[Field(h, 6, 4) + 1]
      [] op6 = 17       -> SpecialData(Field(h, 6, 4))
      [] op5 = 9        -> "LDR PC"
      [] op6 \div 4 = 5 -> RegOffset[Field(h, 9, 3) + 1]
      [] op6 \div 8 = 3 -> ImmOffset[Field(h, 11, 2) + 1]
      [] op5 = 16       -> "STRH imm"
      [] op5 = 17       -> "LDRH imm"
      [] op5 = 18       -> "STR SP"
      [] op5 = 19       -> "LDR SP"
      [] op5 = 20       -> "ADR"
      [] op5 = 21       -> "ADD SP imm"
      [] op5 \div 2 = 11 -> Misc(h)
      [] op5 \div 2 = 13 -> IF Field(h, 8, 4) < 14 THEN "B<cond>" ELSE "other"
      [] op5 = 28       -> "B"
      [] OTHER          -> "other"    \* LDM, STM

(* 32-bit branches and miscellaneous control (A5.3.4): BL is T1 of BL,    *)
(* B.W is T4 of B; spec.md section 7 requires both.                        *)
Ref32(h1, h2) ==
    IF MaskAnd(h1, \hF800) = \hF000 /\ Bit(h2, 15) = 1 /\ Bit(h2, 12) = 1
    THEN IF Bit(h2, 14) = 1 THEN "BL" ELSE "B.W"
    ELSE "other"

Reference(h1, h2) == IF Is32Bit(h1) THEN Ref32(h1, h2) ELSE Ref16(h1)

-----------------------------------------------------------------------------
DecodeTypeOK ==
    /\ hw1 \in Halfword /\ hw2 \in Halfword
    /\ handler \in {"none", "invalid", "BL"} \cup
                   {InstrTable[i].name : i \in 1 .. Len(InstrTable)}

(* Every encoding of an instruction spec.md section 7 requires reaches    *)
(* that instruction's handler: the masks, patterns and order of           *)
(* instr_table, the 32-bit test of core_step and execute_32bit agree with *)
(* the architecture's encoding tables.                                     *)
RequiredDispatched ==
    handler # "none" /\ Reference(hw1, hw2) # "other"
        => handler = Reference(hw1, hw2)

=============================================================================
