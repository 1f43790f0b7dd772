------------------------------ MODULE Checksum ------------------------------
(***************************************************************************)
(* The checksum of an ICMPv6 message: csum_partial and csum_ipv6_magic     *)
(* (lib/libndmgmt/iface.cpp) as send_raw_icmp of lib/libfakeiface uses     *)
(* them.  A buffer is a sequence of bytes; what follows the message in its *)
(* buffer is zero.                                                         *)
(***************************************************************************)
EXTENDS Integers, Sequences, SequencesExt

IPPROTO_ICMPV6 == 58

\* Word i of a buffer, as a little-endian machine reads it.
Word(buff, i) ==
    LET byte(k) == IF k <= Len(buff) THEN buff[k] ELSE 0
    IN  byte(2 * i - 1) + 256 * byte(2 * i)

MutFolded(sum) == (sum % 65536) + (sum \div 65536)

\* The carries are added twice.
Folded(sum) ==
    LET once == (sum % 65536) + (sum \div 65536) IN (once % 65536) + (once \div 65536)

\* The first n words are added to a sum.
AddWords(buff, sum, n) == FoldLeft(LAMBDA s, i : s + Word(buff, i), sum, [i \in 1 .. n |-> i])

csum_partial(buff, sum) == Folded(AddWords(buff, sum, (Len(buff) + 1) \div 2)) % 65536

\* The length in network order.
htonl(n) == <<0, 0, n \div 256, n % 256>>

PseudoHeader(saddr, daddr, len, proto) == saddr \o daddr \o htonl(len) \o <<0, 0, 0, proto>>

csum_ipv6_magic(saddr, daddr, len, proto, sum) ==
    csum_partial(PseudoHeader(saddr, daddr, len, proto), sum)

\* The message with its checksum, in bytes 3 and 4.
WithChecksum(saddr, daddr, icmp) ==
    LET zeroed == [icmp EXCEPT ![3] = 0, ![4] = 0]
        sum == csum_partial(zeroed, csum_ipv6_magic(saddr, daddr, Len(icmp), IPPROTO_ICMPV6, 0))
        ck == 65535 - sum
    IN  [zeroed EXCEPT ![3] = ck % 256, ![4] = ck \div 256]
====
