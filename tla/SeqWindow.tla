----------------------------- MODULE SeqWindow -----------------------------
(***************************************************************************)
(* The serial numbers of DIOs (dag_network::seq_too_old, seq_update).      *)
(* mLastSeq is 32 bits wide; only its low 8 bits are ever compared.        *)
(***************************************************************************)
EXTENDS Integers

CONSTANT SeqMod     \* 2^8: rpl_dtsn and rpl_daoseq are u_int8_t

(* The window of seq_too_old. *)
SeqTooOld(low8bit, seq) ==
    LET diff == seq - low8bit
        half == SeqMod \div 2
    IN  /\ ~(diff > 0 /\ diff < half)
        /\ \/ diff < 0 /\ diff > -half
           \/ low8bit < half /\ seq > half /\ diff > half

(* What an assignment to a u_int8_t field keeps of a counter. *)
MutByteWide(x) == x
Byte(x) == x % SeqMod
=============================================================================
