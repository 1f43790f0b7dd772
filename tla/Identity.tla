------------------------------ MODULE Identity ------------------------------
(***************************************************************************)
(* Identities from certificates (lib/libidevid) and peck, which gives the  *)
(* EUI-64 of a certificate to an interface (programs/peck/peck.cpp).  What *)
(* mbedtls does is given by its results.  Texts are those of module Eui,   *)
(* and have some characters more.                                          *)
(***************************************************************************)
EXTENDS Eui

CONSTANT AddrBytes      \* the bytes of an address in an ACP name: 16

ASSUME AcpAssumption == AddrBytes \in Nat

PlusSign == 24
AtSign == 25
NoDigit == 26           \* a character that is none of the others, or the end of the text
RFC8994 == 27           \* "rfc8994"
RFCSELF == 28           \* "rfcSELF"
Blank == 29
Minus == 30

-----------------------------------------------------------------------------
(* rfc8994acp.cpp *)

\* The text before the first c, and after it; all of it is before if there is none.
Before(t, c) == LET i == SelectInSeq(t, LAMBDA x : x = c) IN IF i = 0 THEN t ELSE SubSeq(t, 1, i - 1)
After(t, c) == SubSeq(t, Len(Before(t, c)) + 2, Len(t))

\* sscanf with %02x, from a position on: the lowest byte of the number, or -1 if
\* there is none.  Blanks are skipped, and do not count for the width of two: a
\* number is one or two digits, or a sign and a digit.
NonBlank(t, p) == Min({q \in p .. Len(t) : t[q] # Blank} \cup {Len(t) + 1})
CharAt(t, p) == IF p <= Len(t) THEN t[p] ELSE NoDigit

Scanned(t, p) ==
    LET a == CharAt(t, NonBlank(t, p))
        b == CharAt(t, NonBlank(t, p) + 1)
    IN  IF a < 16 THEN (IF b < 16 THEN a * 16 + b ELSE a)
        ELSE IF a = Minus /\ b < 16 THEN (256 - b) % 256
        ELSE -1

MutHexByte(digits, i) == IF Len(digits) < 2 * i - 1 THEN 0 ELSE Scanned(digits, 2 * i - 1)

\* Byte i of the address, at the i-th two characters, however many were read
\* before; a digit that is left over at the end is ignored.
HexByte(digits, i) == IF Len(digits) < 2 * i THEN 0 ELSE Scanned(digits, 2 * i - 1)

\* parse_rfc8994string, for a text with an '@': what is behind it is not looked at.
parse_rfc8994string(text) ==
    LET local == Before(text, AtSign)
        digits == Before(After(local, PlusSign), PlusSign)
        ok == /\ \E i \in DOMAIN local : local[i] = PlusSign
              /\ Before(local, PlusSign) \in {<<RFC8994>>, <<RFCSELF>>}
              /\ \A i \in 1 .. AddrBytes : HexByte(digits, i) # -1
    IN  [ok |-> ok, addr |-> IF ok THEN [i \in 1 .. AddrBytes |-> HexByte(digits, i)] ELSE <<>>]

-----------------------------------------------------------------------------
(* eui64.cpp *)

MutLoad(hasCa, caParses, certParses, infoOk, verifies) ==
    IF hasCa /\ ~caParses THEN 1 ELSE IF ~certParses \/ ~infoOk THEN 2 ELSE 0

\* load_identity_from_cert: 0 when the certificate was kept.
load_identity_from_cert(hasCa, caParses, certParses, infoOk, verifies) ==
    IF hasCa /\ ~caParses THEN 1
    ELSE IF ~certParses \/ ~infoOk \/ (hasCa /\ ~verifies) THEN 2
    ELSE 0

\* The bytes and the length of an EUI-64 in a name: in text, if the third
\* character is a separator, or in binary, with the length it happens to have.
NameValue(text) ==
    IF Len(text) > 2 /\ text[3] = Sep
    THEN LET r == parse_eui2bin(text, 8)
         IN  [eui64 |-> r.dst, len |-> IF r.retlen \in {6, 8} THEN r.retlen ELSE 0]
    ELSE [eui64 |-> text, len |-> Len(text)]

\* extract_eui64_from_cert.  A subjectAltName is "plain" (no OID in it), "other"
\* (another OID, or not encoded as expected) or the text of an EUI-64.
extract_eui64_from_cert(names) ==
    LET i == SelectInSeq(names, LAMBDA n : n.type # "other")
    IN  IF i = 0 \/ names[i].type = "plain" THEN [eui64 |-> <<>>, len |-> -1]
        ELSE NameValue(names[i].text)

\* set_link_layer64 on an interface with hardware address eui48.
set_link_layer64(eui48, lowpan, eui64, len) ==
    CASE len = 6 -> IF lowpan THEN eui64_from_eui48(eui64) ELSE eui64
      [] len = 8 -> IF lowpan THEN eui64 ELSE eui48
      [] OTHER -> eui48

\* peck: the hardware address of an interface afterwards.  The test for a
\* certificate without an EUI-64, (!eui64len == -1), is never true.
peck(loaded, names, eui48, lowpan) ==
    IF loaded # 0 THEN eui48
    ELSE LET e == extract_eui64_from_cert(names) IN set_link_layer64(eui48, lowpan, e.eui64, e.len)
====
