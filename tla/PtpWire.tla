------------------------------ MODULE PtpWire ------------------------------
(***************************************************************************)
(* The ten-byte timestamp of a PTP message: six bytes of seconds and four  *)
(* of nanoseconds, most significant byte first.  BYTE is the number of     *)
(* values of a byte, so that a shift by eight bits is a division by BYTE.  *)
(***************************************************************************)
EXTENDS Integers, Sequences

CONSTANTS BYTE, INT32_MAX   \* largest value of an int32_t, four bytes wide

ASSUME ByteAssumption == BYTE \in Nat /\ BYTE > 1

ASSUME Int32Assumption == 2 * (INT32_MAX + 1) = BYTE * BYTE * BYTE * BYTE

Int32 == -(INT32_MAX + 1) .. INT32_MAX

(***************************************************************************)
(* The assignment of a uint32_t to an int32_t.                             *)
(***************************************************************************)
ToInt32(x) == IF x <= INT32_MAX THEN x ELSE x - 2 * (INT32_MAX + 1)

Shr(x) == x \div BYTE

Shl(acc, digit) == acc * BYTE + digit

(***************************************************************************)
(* The values that six, respectively four, bytes hold.                     *)
(***************************************************************************)
FitsSeconds(x) == Shr(Shr(Shr(Shr(Shr(x))))) < BYTE

FitsNanosec(x) == Shr(Shr(Shr(x))) < BYTE

\* Mutant: the second bytes are written in host order.
SecondsHostOrder(x) ==
  << x % BYTE, Shr(x) % BYTE, Shr(Shr(x)) % BYTE, Shr(Shr(Shr(x))) % BYTE,
     Shr(Shr(Shr(Shr(x)))) % BYTE, Shr(Shr(Shr(Shr(Shr(x))))) % BYTE >>

(***************************************************************************)
(* ptp_prepare_timestamp: the loops write the bytes from the last to the   *)
(* first, shifting the value right one more byte each time.                *)
(***************************************************************************)
SecondsBytes(x) ==
  << Shr(Shr(Shr(Shr(Shr(x))))) % BYTE, Shr(Shr(Shr(Shr(x)))) % BYTE,
     Shr(Shr(Shr(x))) % BYTE, Shr(Shr(x)) % BYTE, Shr(x) % BYTE, x % BYTE >>

NanosecBytes(x) ==
  << Shr(Shr(Shr(x))) % BYTE, Shr(Shr(x)) % BYTE, Shr(x) % BYTE, x % BYTE >>

ptp_prepare_timestamp(ts) ==
  [sec |-> SecondsBytes(ts.seconds), ns |-> NanosecBytes(ts.nanosec)]

(***************************************************************************)
(* ptp_store_timestamp: the loops shift the bytes in, first to last.  Any  *)
(* four bytes are taken for nanoseconds, a second or more of them too, and *)
(* end up in an int32_t.                                                   *)
(***************************************************************************)
BytesSeconds(b) ==
  Shl(Shl(Shl(Shl(Shl(Shl(0, b[1]), b[2]), b[3]), b[4]), b[5]), b[6])

\* Mutant: the accumulator is shifted once too often.
NanosecShiftedTwice(b) == Shl(Shl(Shl(Shl(Shl(0, b[1]), b[2]), b[3]), b[4]), 0)

BytesNanosec(b) == Shl(Shl(Shl(Shl(0, b[1]), b[2]), b[3]), b[4])

ptp_store_timestamp(w) ==
  [seconds |-> BytesSeconds(w.sec), nanosec |-> ToInt32(BytesNanosec(w.ns))]

=============================================================================
