-------------------------------- MODULE EnDec --------------------------------
(***************************************************************************)
(* The 16-bit command word the server and the AGVs exchange                 *)
(* (server/src/lib/endec.c and its copy client/src/lib/endec.c):            *)
(* two bits of prefix, four of op code, ten of value.                       *)
(***************************************************************************)
EXTENDS Integers

OpCode == [SET_ID |-> 0, MOS_COS |-> 1, QR_TURN |-> 2, MOS_TURN |-> 3,
           MOS_GO |-> 4, MOS_CIR |-> 5, QR_TO_QR |-> 6, TO_QR |-> 7]

\* pf << 14 | (op & 0x0f) << 10 | (value & 0x03ff), as an uint16_t
command_ecode(pf, op, value) ==
  (pf % 4) * 16384 + (op % 16) * 1024 + (value % 1024)

command_dcode(data) ==
  [pf |-> (data \div 16384) % 4, op |-> (data \div 1024) % 16, val |-> data % 1024]

\* Mutant of SignExtend: the bits are taken as they are
NoSignExtend(v, k) == v

\* The value of an integer whose bits above the lowest k are lost, read back as
\* a two's complement number of k bits: (int16_t)(v << (16 - k)) >> (16 - k)
SignExtend(v, k) == ((v + 2^(k - 1)) % 2^k) - 2^(k - 1)
=============================================================================
