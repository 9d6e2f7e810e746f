------------------------------ MODULE Checksum ------------------------------
(***************************************************************************)
(* The RFC 1071 checksum of the transport headers                          *)
(* (src/platform/linux/checksum.rs): the scalar loop, the two vector       *)
(* versions that the processor may choose instead, the folding, and the    *)
(* pseudo-header.  A byte has Radix values, so that numbers of eight bytes  *)
(* stay within the model checker's integers.                               *)
(***************************************************************************)
EXTENDS Integers, Sequences

CONSTANTS Radix,        \* values of a byte
          ChecksumCase  \* what is summed: the fields of a pseudo-header, and data

ASSUME RadixAssumption == Radix \in Nat \ {0, 1}

Byte == 0 .. Radix - 1
U16 == Radix * Radix
U64 == U16 * U16 * U16 * U16

\* Addresses have whole 16-bit words, and with a packet's length no sum of its words
\* reaches 64 bits.
ASSUME CaseAssumption ==
  \A c \in ChecksumCase :
    /\ c.src \in Seq(Byte) /\ c.dst \in Seq(Byte) /\ c.data \in Seq(Byte)
    /\ c.protocol \in Byte
    /\ Len(c.src) % 2 = 0 /\ Len(c.dst) % 2 = 0
    /\ Len(c.src) + Len(c.dst) + 4 + Len(c.data) < U16 * U16

\* The bytes of b from position i (counted from 0) on, as a big-endian number.
read_u16(b, i) == b[i + 1] * Radix + b[i + 2]
read_u32(b, i) == read_u16(b, i) * U16 + read_u16(b, i + 2)

\* f[0] + ... + f[n - 1], in 64 bits.
SumTo(n, f) ==
  LET s[k \in 0 .. n] == IF k = 0 THEN 0 ELSE (s[k - 1] + f[k - 1]) % U64 IN s[n]

From(b, i) == SubSeq(b, i + 1, Len(b))

\* Mutant: the last byte of an odd number is the low one of its word.
odd_byte_low(rest) == IF rest = <<>> THEN 0 ELSE rest[1]

odd_byte(rest) == IF rest = <<>> THEN 0 ELSE rest[1] * Radix

checksum_no_fold_scalar(b, initial) ==
  LET words == Len(b) \div 4
      rest == From(b, 4 * words)
      pair == IF Len(rest) >= 2 THEN read_u16(rest, 0) ELSE 0
  IN  (initial + SumTo(words, [k \in 0 .. words - 1 |-> read_u32(b, 4 * k)]) + pair
         + odd_byte(IF Len(rest) >= 2 THEN From(rest, 2) ELSE rest)) % U64

\* A register of so many 64-bit lanes; a chunk gives each lane two words.
lanes_sum(b, initial, lanes) ==
  LET chunk == 8 * lanes
      chunks == Len(b) \div chunk
      two(i) == [c \in 0 .. chunks - 1 |->
                   read_u32(b, c * chunk + 4 * i) + read_u32(b, c * chunk + 4 * (lanes + i))]
      sums == [i \in 0 .. lanes - 1 |-> SumTo(chunks, two(i))]
  IN  checksum_no_fold_scalar(From(b, chunks * chunk),
                              (initial + SumTo(lanes, sums)) % U64)

checksum_no_fold_avx2(b, initial) == lanes_sum(b, initial, 4)
checksum_no_fold_sse41(b, initial) == lanes_sum(b, initial, 2)

Cpu == {"avx2", "sse4.1", "other"}
checksum_no_fold(cpu, b, initial) ==
  CASE cpu = "avx2" -> checksum_no_fold_avx2(b, initial)
    [] cpu = "sse4.1" -> checksum_no_fold_sse41(b, initial)
    [] cpu = "other" -> checksum_no_fold_scalar(b, initial)

\* `while accumulator > 0xFFFF`: eight rounds are more than a 64-bit number needs.
checksum(cpu, b, initial) ==
  LET fold[k \in 0 .. 8] ==
        IF k = 0 THEN checksum_no_fold(cpu, b, initial)
        ELSE IF fold[k - 1] < U16 THEN fold[k - 1]
        ELSE (fold[k - 1] \div U16) + (fold[k - 1] % U16)
  IN  fold[8] % U16

pseudo_header_checksum_no_fold(cpu, protocol, src_addr, dst_addr, total_len) ==
  LET sum == checksum_no_fold(cpu, dst_addr, checksum_no_fold(cpu, src_addr, 0))
  IN  checksum_no_fold(cpu, <<0, protocol, total_len \div Radix, total_len % Radix>>, sum)

(***************************************************************************)
(* Properties.                                                             *)
(***************************************************************************)

\* The sum of RFC 1071: 16-bit words, a last odd byte filled up with zero, and the carry
\* added in again.
Reference(b) ==
  LET word(k) == b[2 * k - 1] * Radix + (IF 2 * k <= Len(b) THEN b[2 * k] ELSE 0)
      add(x, y) == IF x + y >= U16 THEN x + y - U16 + 1 ELSE x + y
      s[k \in 0 .. (Len(b) + 1) \div 2] == IF k = 0 THEN 0 ELSE add(s[k - 1], word(k))
  IN  s[(Len(b) + 1) \div 2]

Row(c, total_len) ==
  c.src \o c.dst \o <<0, c.protocol, total_len \div Radix, total_len % Radix>> \o c.data

\* Summed piece by piece, without folding in between, by any of the three versions, the
\* pseudo-header and the data have the checksum of all the bytes in one row: whatever
\* the number of bytes is at the boundaries of a word, a chunk and an odd end.
SumsAgree ==
  \A c \in ChecksumCase, cpu \in Cpu :
    LET total_len == Len(c.data) % U16
        initial == pseudo_header_checksum_no_fold(cpu, c.protocol, c.src, c.dst, total_len)
    IN  checksum(cpu, c.data, initial) = Reference(Row(c, total_len))
=============================================================================
