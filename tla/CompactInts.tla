---------------------------- MODULE CompactInts ----------------------------
(***************************************************************************)
(* Transactions as bytes (task_handlers/utils.h, utils.cpp): integers of   *)
(* variable length, gen_sign, which writes a transaction, and              *)
(* parse_tansaction, which reads one that a client sends.                  *)
(*                                                                         *)
(* The code reads hexadecimal text; a byte here is two digits there.  The  *)
(* size of a byte and the lengths of the integers are parameters, 256 and  *)
(* 2, 4, 8 in the code.                                                    *)
(***************************************************************************)
EXTENDS Integers, Sequences

CONSTANTS
  Base,                        \* values of a byte
  Bytes16, Bytes32, Bytes64   \* bytes of uint16_t, uint32_t, uint64_t

ASSUME BytesAssumption ==
  /\ Base \in Nat /\ Base > 7
  /\ Bytes16 \in Nat \ {0} /\ Bytes32 \in Nat /\ Bytes64 \in Nat
  /\ Bytes16 <= Bytes32 /\ Bytes32 <= Bytes64

\* How many values an integer of n bytes has.
Values[n \in 0..Bytes64] == IF n = 0 THEN 1 ELSE Base * Values[n - 1]

\* Values above the limit have a mark and a longer integer: 250, 251, 252.
Limit == Base - 7
Mark16 == Base - 6
Mark32 == Base - 5
Mark64 == Base - 4

toLittleEndian(value, size) ==
  LET integer[i \in 0..size] == IF i = 0 THEN value ELSE integer[i - 1] \div Base
  IN  [i \in 1..size |-> integer[i - 1] % Base]

\* reverse_byte_order and hexStrToInt: the last byte comes first.
FromLittleEndian(bytes) ==
  LET size == Len(bytes)
      result[i \in 0..size] == IF i = 0 THEN 0 ELSE result[i - 1] * Base + bytes[size + 1 - i]
  IN  result[size]

write_compact_int(value) ==
  IF value <= Limit THEN toLittleEndian(value, 1)
  ELSE IF value < Values[Bytes16] THEN <<Mark16>> \o toLittleEndian(value, Bytes16)
  ELSE IF value < Values[Bytes32] THEN <<Mark32>> \o toLittleEndian(value, Bytes32)
  ELSE <<Mark64>> \o toLittleEndian(value, Bytes64)

\* Bytes of the integer behind the first byte, 0 when it is that byte itself.
Behind(byte) ==
  IF byte = Mark16 THEN Bytes16
  ELSE IF byte = Mark32 THEN Bytes32
  ELSE IF byte = Mark64 THEN Bytes64
  ELSE 0

From(buf, i) == SubSeq(buf, i, Len(buf))

\* The value and what is left of the buffer; ok is FALSE for an exception.  An
\* integer of one byte is read only when another byte follows it.
read_compact_int(buf) ==
  IF buf = <<>> THEN [ok |-> TRUE, value |-> 0, rest |-> buf]
  ELSE LET n == Behind(buf[1])
           bytes == IF n = 0 THEN SubSeq(buf, 1, 1) ELSE SubSeq(buf, 2, n + 1)
       IN  IF Len(buf) < IF n = 0 THEN 2 ELSE n + 1
           THEN [ok |-> FALSE, value |-> 0, rest |-> buf]
           ELSE [ok |-> TRUE, value |-> FromLittleEndian(bytes), rest |-> From(buf, IF n = 0 THEN 2 ELSE n + 2)]

\* Mutant: the length of the data is that of its hexadecimal text.
gen_sign_text(tx) ==
  tx.to \o write_compact_int(tx.value) \o write_compact_int(tx.fee) \o write_compact_int(tx.nonce)
    \o write_compact_int(2 * Len(tx.data)) \o tx.data

\* gen_sign with the format "xUUUux": the bytes that are signed
gen_sign(tx) ==
  tx.to \o write_compact_int(tx.value) \o write_compact_int(tx.fee) \o write_compact_int(tx.nonce)
    \o write_compact_int(Len(tx.data)) \o tx.data

\* parse_tansaction, addresses having addrSize bytes
parse_tansaction(buf, addrSize) ==
  LET value == read_compact_int(From(buf, addrSize + 1))
      fee == read_compact_int(value.rest)
      nonce == read_compact_int(fee.rest)
      data_size == read_compact_int(nonce.rest)
  IN  [ok |-> value.ok /\ fee.ok /\ nonce.ok /\ data_size.ok,
       to |-> SubSeq(buf, 1, addrSize), value |-> value.value, fee |-> fee.value,
       nonce |-> nonce.value, data_size |-> data_size.value, data |-> data_size.rest]

=============================================================================
