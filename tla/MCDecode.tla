------------------------------ MODULE MCDecode ------------------------------
(* Every halfword at PC; after a 32-bit first half, second halves of each  *)
(* form bits 15, 14 and 12 take: BL (1,1,1 with J1 and J2 both values),    *)
(* B.W (1,0,1), B<cond>.W (1,0,0), UDF (hw2 = 1010...) and a zero half.    *)
EXTENDS Decode

MCSecond == {\hF800, \hD000, \hB800, \h9000, \h8000, \hA000, 0}
=============================================================================
