------------------------------ MODULE AddrText ------------------------------
(***************************************************************************)
(* Addresses and subnets as text: lib/libosw.                              *)
(*                                                                         *)
(* A character is a number: a digit of any base is its value, in either    *)
(* case, and the others have names.  A text is a sequence of characters.   *)
(* An address is a record of its family, its bytes and its port, and the   *)
(* family 0 stands for one that is neither AF_INET nor AF_INET6.  The      *)
(* result of a conversion is its complaint, NULL for success, and what the *)
(* caller finds in *dst afterwards.                                        *)
(***************************************************************************)
EXTENDS Integers, Sequences, FiniteSets, SequencesExt

CONSTANTS
    NPIECES,        \* 16-bit pieces of an IPv6 address: 8
    LongDigits,     \* hexadecimal digits of an unsigned long: 16
    HostName        \* a text that the resolver knows, as an IPv6 host

ASSUME TextAssumption == NPIECES \in Nat \ {0, 1} /\ LongDigits \in Nat \ {0}

Colon == 16
Dot == 17
Slash == 18
LetterX == 19
LetterH == 20
Letter == 21        \* any other character of a name
Default == <<22>>   \* "%default"
ARPA == 23          \* "IN-ADDR.ARPA." or "IP6.ARPA."

AF_INET == 2
AF_INET6 == 10
NBYTES == 4

NULL == ""          \* no complaint
Says(why, dst) == [oops |-> why, dst |-> dst]
Ok(dst) == Says(NULL, dst)

Address(f, b) == [af |-> f, bytes |-> b, port |-> 0]

-----------------------------------------------------------------------------
(* Numbers: ttoul.c, ultot.c. *)

ULONG_MAX == 16 ^ LongDigits - 1

Value(s, base) == FoldLeft(LAMBDA r, d : IF r > ULONG_MAX THEN r ELSE r * base + d, 0, s)

(* ttoul with a base of 8, 10 or 16. *)
ttoulBase(s, base) ==
    IF \E i \in DOMAIN s : s[i] >= base THEN Says("digit", 0)
    ELSE IF base = 16 /\ Len(s) > LongDigits THEN Says("too long", 0)
    ELSE IF Value(s, base) > ULONG_MAX THEN Says("overflow", 0)
    ELSE Ok(Value(s, base))

(* The length n at position p of t, where 0 means all that follows. *)
Slice(t, p, n) == IF n = 0 THEN SubSeq(t, p, Len(t)) ELSE SubSeq(t, p, p + n - 1)

ttoul(t, p, n, base) ==
    LET s == Slice(t, p, n)
    IN  CASE s = <<>> -> Says("empty", 0)
          [] base # 0 -> ttoulBase(s, base)
          [] s # <<>> /\ base = 0 ->
                IF Len(s) > 2 /\ s[1] = 0 /\ s[2] = LetterX THEN ttoulBase(SubSeq(s, 3, Len(s)), 16)
                ELSE IF Len(s) > 1 /\ s[1] = 0 THEN ttoulBase(Tail(s), 8)
                ELSE ttoulBase(s, 10)

(* ultot, whose text is never cut off by the callers' buffers. *)
ultot(n, base) ==
    LET digits[k \in 0 .. n] == IF k < base THEN <<k>> ELSE Append(digits[k \div base], k % base)
    IN  digits[n]

-----------------------------------------------------------------------------
(* addrtypeof.c, initaddr.c, anyaddr.c, portof.c *)

addrlenof(a) == CASE a.af = AF_INET -> NBYTES [] a.af = AF_INET6 -> 2 * NPIECES [] OTHER -> 0

initaddr(b, f, dst) ==
    IF f \in {AF_INET, AF_INET6} /\ Len(b) = addrlenof(Address(f, b)) THEN Ok(Address(f, b))
    ELSE Says("length or family", dst)

Zeros(n) == [i \in 1 .. n |-> 0]
unspecaddr(f) == Address(f, Zeros(addrlenof(Address(f, <<>>))))

loopbackaddr(f) ==
    IF f = AF_INET THEN Address(f, <<127, 0, 0, 1>>)
    ELSE Address(f, [i \in 1 .. 2 * NPIECES |-> IF i = 2 * NPIECES THEN 1 ELSE 0])

isanyaddr(a) == a.af = 0 \/ (a.af \in {AF_INET, AF_INET6} /\ a.bytes = unspecaddr(a.af).bytes)
isloopbackaddr(a) == a.af \in {AF_INET, AF_INET6} /\ a.bytes = loopbackaddr(a.af).bytes

setportof(port, a) == IF a.af = 0 THEN a ELSE [a EXCEPT !.port = port % 65536]

-----------------------------------------------------------------------------
(* ttoaddr.c *)

(* The position after the digits that start at p. *)
DigitsEnd(t, p, base) ==
    CHOOSE q \in p .. Len(t) + 1 : /\ q = Len(t) + 1 \/ t[q] >= base
                                  /\ \A k \in p .. q - 1 : t[k] < base

(* getbyte: the byte, the position after it, and a complaint that starts with
   '?' if there was no number at all. *)
getbyte(t, p) ==
    LET number(q) == FoldLeft(LAMBDA n, d : IF n > 255 THEN n ELSE n * 10 + d, 0, SubSeq(t, p, q - 1))
        got(q, no) == [pos |-> q, byte |-> no,
                       oops |-> IF q = p THEN "?" ELSE IF no > 255 THEN "overflow" ELSE NULL]
        upto(q) == got(q, number(q))
    IN  upto(DigitsEnd(t, p, 10))

MutDottedByte(t, st, i, g) ==
    LET more == g.pos <= Len(t)
    IN  IF g.oops # NULL
        THEN [st EXCEPT !.oops = IF g.oops = "?" /\ i > 1 THEN "failed number" ELSE g.oops]
        ELSE IF more /\ t[g.pos] # Dot
        THEN [st EXCEPT !.oops = IF i = 0 THEN "?" ELSE "syntax"]
        ELSE [st EXCEPT !.buf[i + 1] = g.byte, !.pos = IF more THEN g.pos + 1 ELSE g.pos]

(* Byte i of a dotted address, g, and the dot after it. *)
DottedByte(t, st, i, g) ==
    LET more == i < NBYTES - 1 /\ g.pos <= Len(t)
    IN  IF g.oops # NULL
        THEN [st EXCEPT !.oops = IF g.oops = "?" /\ i > 1 THEN "failed number" ELSE g.oops]
        ELSE IF more /\ t[g.pos] # Dot
        THEN [st EXCEPT !.oops = IF i = 0 THEN "?" ELSE "syntax"]
        ELSE [st EXCEPT !.buf[i + 1] = g.byte, !.pos = IF more THEN g.pos + 1 ELSE g.pos]

DottedStep(t, st, i) ==
    IF st.oops # NULL \/ st.pos > Len(t) THEN st ELSE DottedByte(t, st, i, getbyte(t, st.pos))

trydotted(t, dst) ==
    LET result(st) == IF st.oops # NULL THEN Says(st.oops, dst)
                      ELSE IF st.pos # Len(t) + 1 THEN Says("extra garbage", dst)
                      ELSE initaddr(st.buf, AF_INET, dst)
    IN  result(FoldLeft(LAMBDA s, i : DottedStep(t, s, i),
                        [pos |-> 1, buf |-> Zeros(NBYTES), oops |-> NULL], <<0, 1, 2, 3>>))

(* tryhex: eight digits in network or in (little-endian) host order. *)
tryhex(s, flavor, dst) ==
    LET byte == [i \in 1 .. NBYTES |-> 16 * s[2 * i - 1] + s[2 * i]]
    IN  IF \E i \in DOMAIN s : s[i] >= 16 THEN Says("digit", dst)
        ELSE initaddr(IF flavor = LetterX THEN byte ELSE Reverse(byte), AF_INET, dst)

(* getpiece: an empty field has the complaint ":". *)
getpiece(t, p) ==
    LET number(q) == FoldLeft(LAMBDA n, d : n * 16 + d, 0, SubSeq(t, p, q - 1))
        upto(q) == CASE p > Len(t) \/ t[p] = Colon -> [pos |-> p, piece |-> 0, oops |-> ":"]
                     [] p <= Len(t) /\ t[p] # Colon /\ q = p -> [pos |-> p, piece |-> 0, oops |-> "non-hex"]
                     [] q > p + 4 -> [pos |-> p, piece |-> 0, oops |-> "longer"]
                     [] q \in p + 1 .. p + 4 -> [pos |-> q, piece |-> number(q), oops |-> NULL]
    IN  upto(DigitsEnd(t, p, 16))

MutColonPiece(t, st, i, g) ==
    LET empty == g.oops = ":"
        gap == IF empty /\ st.gapat < 0 THEN i ELSE st.gapat
        q == g.pos
    IN  IF ~empty /\ g.oops # NULL THEN [st EXCEPT !.oops = g.oops]
        ELSE IF i < NPIECES - 1 /\ q > Len(t) /\ gap < 0
        THEN [st EXCEPT !.oops = "ends prematurely"]
        ELSE IF i < NPIECES - 1 /\ q <= Len(t) /\ t[q] # Colon
        THEN [st EXCEPT !.oops = "syntax"]
        ELSE [pos |-> IF i < NPIECES - 1 /\ q <= Len(t) THEN q + 1 ELSE q,
              gapat |-> gap, piece |-> Append(st.piece, g.piece), oops |-> NULL]

(* Piece i of an address, g, and the colon after it. *)
ColonPiece(t, st, i, g) ==
    LET empty == g.oops = ":"
        gap == IF empty THEN i ELSE st.gapat
        q == g.pos
    IN  IF empty /\ st.gapat >= 0 THEN [st EXCEPT !.oops = "more than one ::"]
        ELSE IF ~empty /\ g.oops # NULL THEN [st EXCEPT !.oops = g.oops]
        ELSE IF i < NPIECES - 1 /\ q > Len(t) /\ gap < 0
        THEN [st EXCEPT !.oops = "ends prematurely"]
        ELSE IF i < NPIECES - 1 /\ q <= Len(t) /\ t[q] # Colon
        THEN [st EXCEPT !.oops = "syntax"]
        ELSE [pos |-> IF i < NPIECES - 1 /\ q <= Len(t) THEN q + 1 ELSE q,
              gapat |-> gap, piece |-> Append(st.piece, g.piece), oops |-> NULL]

ColonStep(t, st, i) ==
    IF st.oops # NULL \/ st.pos > Len(t) THEN st ELSE ColonPiece(t, st, i, getpiece(t, st.pos))

Bytes(pieces) == [k \in 1 .. 2 * Len(pieces) |->
                    IF k % 2 = 1 THEN pieces[(k + 1) \div 2] \div 256 ELSE pieces[k \div 2] % 256]

(* The gap is filled with zeros, and what follows it moves to the end. *)
Spread(pieces, gapat) ==
    SubSeq(pieces, 1, gapat) \o Zeros(NPIECES - (Len(pieces) - 1))
        \o SubSeq(pieces, gapat + 2, Len(pieces))

(* The address of the pieces that were found, st. *)
ColonResult(t, st, dst) ==
    IF st.oops # NULL THEN Says(st.oops, dst)
    ELSE IF st.pos # Len(t) + 1 THEN Says("extra garbage", dst)
    ELSE IF st.gapat < 0 /\ Len(st.piece) < NPIECES THEN Says("incomplete", dst)
    ELSE IF st.gapat >= 0 /\ Len(st.piece) = NPIECES THEN Says("non-abbreviating", dst)
    ELSE initaddr(Bytes(IF st.gapat < 0 THEN st.piece ELSE Spread(st.piece, st.gapat)), AF_INET6, dst)

colon(t, dst) ==
    LET n == Len(t)
        lead == t[1] = Colon
        from == IF lead THEN 2 ELSE 1
    IN  IF lead /\ (n = 1 \/ t[2] # Colon) THEN Says("leading :", dst)
        ELSE IF lead /\ n = 2 THEN Ok(unspecaddr(AF_INET6))
        ELSE IF t[n] = Colon /\ (n + 1 - from = 1 \/ t[n - 1] # Colon) THEN Says("trailing :", dst)
        ELSE ColonResult(t, FoldLeft(LAMBDA s, i : ColonStep(t, s, i),
                                     [pos |-> from, gapat |-> -1, piece |-> <<>>, oops |-> NULL],
                                     [i \in 1 .. NPIECES |-> i - 1]), dst)

ttoaddr_base(t, f, dst) ==
    IF f \notin {0, AF_INET, AF_INET6} THEN Says("family", dst)
    ELSE IF f = AF_INET /\ Len(t) = 10 /\ t[1] = 0 /\ t[2] \in {LetterX, LetterH}
    THEN tryhex(SubSeq(t, 3, 10), t[2], dst)
    ELSE IF Colon \in Range(t)
    THEN IF f = AF_INET THEN Says("non-ipv6", dst) ELSE colon(t, dst)
    ELSE LET numeric(d) == IF f # AF_INET6 /\ d.oops # "?" THEN d ELSE Says("not numeric", dst)
         IN  numeric(trydotted(t, dst))

(* tnatoaddr *)
tnatoaddr(t, f, dst) ==
    IF t = <<>> THEN Says("empty", dst)
    ELSE IF f \notin {0, AF_INET, AF_INET6} THEN Says("family", dst)
    ELSE IF f = AF_INET THEN trydotted(t, dst)
    ELSE LET guessed(six) == IF f = 0 /\ six.oops # NULL THEN trydotted(t, dst) ELSE six
         IN  guessed(colon(t, dst))

(* tryname: gethostbyname2 knows one name. *)
tryname(t, f, dst) ==
    IF t = HostName /\ f = AF_INET6 THEN Ok(loopbackaddr(f)) ELSE Says("lookup failed", dst)

ttoaddr_num(t, f, dst) == IF t = <<>> THEN Says("empty", dst) ELSE ttoaddr_base(t, f, dst)

(* A text that is not numeric is looked up only if the family is to be guessed;
   otherwise there is no complaint and *dst is as before. *)
ttoaddr(t, f, dst) ==
    LET six == tryname(t, AF_INET6, dst)
        result(base) == IF base.oops # "not numeric" THEN base
                        ELSE IF f # 0 THEN Ok(dst)
                        ELSE IF six.oops = NULL THEN six ELSE tryname(t, AF_INET, dst)
    IN  result(ttoaddr_num(t, f, dst))

-----------------------------------------------------------------------------
(* addrtot.c *)

Joined(texts, sep) ==
    FoldLeft(LAMBDA s, i : IF i = 1 THEN texts[i] ELSE s \o <<sep>> \o texts[i], <<>>,
             [i \in DOMAIN texts |-> i])

normal4(b) == Joined([i \in DOMAIN b |-> ultot(b[i], 10)], Dot)

Pieces(b) == [i \in 1 .. Len(b) \div 2 |-> 256 * b[2 * i - 1] + b[2 * i]]
Hexes(p, i, j) == [k \in 1 .. j - i + 1 |-> ultot(p[i + k - 1], 16)]

MutNormal6(b, squish) ==
    LET p == Pieces(b)
        n == Len(p)
        pairs == {i \in 1 .. n - 1 : p[i] = 0 /\ p[i + 1] = 0}
        first == CHOOSE i \in pairs : \A j \in pairs : i <= j
    IN  IF squish /\ pairs # {}
        THEN Joined(Hexes(p, 1, first - 1), Colon) \o <<Colon, Colon>>
                \o Joined(SelectSeq(Hexes(p, first, n), LAMBDA h : h # <<0>>), Colon)
        ELSE Joined(Hexes(p, 1, n), Colon)

(* The first run of two zero pieces or more is squished. *)
normal6(b, squish) ==
    LET p == Pieces(b)
        n == Len(p)
        pairs == {i \in 1 .. n - 1 : p[i] = 0 /\ p[i + 1] = 0}
        first == CHOOSE i \in pairs : \A j \in pairs : i <= j
        last == CHOOSE j \in first .. n : (\A k \in first .. j : p[k] = 0) /\ (j = n \/ p[j + 1] # 0)
    IN  IF squish /\ pairs # {}
        THEN Joined(Hexes(p, 1, first - 1), Colon) \o <<Colon, Colon>>
                \o Joined(Hexes(p, last + 1, n), Colon)
        ELSE Joined(Hexes(p, 1, n), Colon)

reverse4(b) == Joined([i \in DOMAIN b |-> ultot(Reverse(b)[i], 10)], Dot) \o <<Dot, ARPA>>

reverse6(b) ==
    FoldLeft(LAMBDA s, c : s \o <<c % 16, Dot, c \div 16, Dot>>, <<>>, Reverse(b)) \o <<ARPA>>

(* addrtot, with format 0 (here "n"), 'Q' or 'r'. *)
addrtot(a, format) ==
    CASE a.af = AF_INET /\ format \in {"n", "Q"} -> normal4(a.bytes)
      [] a.af = AF_INET6 /\ format \in {"n", "Q"} -> normal6(a.bytes, format = "n")
      [] a.af = AF_INET /\ format = "r" -> reverse4(a.bytes)
      [] a.af = AF_INET6 /\ format = "r" -> reverse6(a.bytes)
      [] OTHER -> <<Letter>>        \* "<invalid>"

(* What fits into a buffer, and the space that all of it needs. *)
Fitted(text, dstlen) ==
    [n |-> Len(text) + 1, text |-> IF dstlen <= Len(text) THEN SubSeq(text, 1, dstlen - 1) ELSE text]

-----------------------------------------------------------------------------
(* initsubnet.c, subnettypeof.c *)

Subnet(a, n) == [addr |-> a, maskbits |-> n]

MutKept(a, count, i) == IF i <= count \div 8 THEN a.bytes[i] ELSE 0

(* Byte i of an address without its host part. *)
Kept(a, count, i) ==
    LET b == a.bytes[i]
        m == 2 ^ (8 - (count % 8))
    IN  IF i <= count \div 8 THEN b
        ELSE IF i = count \div 8 + 1 /\ count % 8 # 0 THEN b - (b % m) ELSE 0

(* initsubnet; clash is '0' to zero host bits and 'x' to complain of them. *)
initsubnet(a, count, clash, dst) ==
    LET zeroed == [a EXCEPT !.bytes = [i \in 1 .. addrlenof(a) |-> Kept(a, count, i)]]
    IN  IF addrlenof(a) = 0 THEN Says("family", [dst EXCEPT !.addr = a])
        ELSE IF clash \notin {"0", "x"} THEN Says("clash control", [dst EXCEPT !.addr = a])
        ELSE IF count \div 8 > addrlenof(a) THEN Says("mask count", [dst EXCEPT !.addr = a])
        ELSE IF clash = "x" /\ zeroed # a THEN Says("host part", [dst EXCEPT !.addr = a])
        ELSE Ok(Subnet(zeroed, count))

addrtosubnet(a, dst) ==
    IF addrlenof(a) = 0 THEN Says("family", dst) ELSE Ok(Subnet(a, addrlenof(a) * 8))

maskof(s) ==
    Address(s.addr.af, [i \in 1 .. addrlenof(s.addr) |->
                            Kept([bytes |-> [k \in 1 .. addrlenof(s.addr) |-> 255]], s.maskbits, i)])

(* The bits of a byte that is a row of ones and then zeros. *)
PartialBits(b) ==
    IF \E k \in 0 .. 8 : b = 256 - 2 ^ (8 - k)
    THEN CHOOSE k \in 0 .. 8 : b = 256 - 2 ^ (8 - k) ELSE -1

masktocount(a) ==
    LET len == addrlenof(a)
        stop == SelectInSeq(a.bytes, LAMBDA b : b # 255)
    IN  IF len = 0 THEN -1
        ELSE IF stop = 0 THEN len * 8
        ELSE IF PartialBits(a.bytes[stop]) = -1 \/ \E i \in stop + 1 .. len : a.bytes[i] # 0 THEN -1
        ELSE (stop - 1) * 8 + PartialBits(a.bytes[stop])

-----------------------------------------------------------------------------
(* ttosubnet.c, subnettot.c *)

(* The subnet of the address a, the port, and a bit count, or else a mask, in
   what follows the slash. *)
SubnetOf(f, a, port, bc, mask, dst) ==
    LET nbits == IF f = AF_INET THEN 32 ELSE 16 * NPIECES
        subnet(count) == initsubnet(setportof(port.dst, a.dst), count, "0", dst)
        masked(m) == IF m.oops # NULL THEN Says(m.oops, dst)
                     ELSE IF masktocount(m.dst) < 0 THEN Says("mask", dst)
                     ELSE subnet(masktocount(m.dst))
    IN  IF a.oops # NULL THEN Says(a.oops, dst)
        ELSE IF port.oops # NULL THEN Says(port.oops, dst)
        ELSE IF bc.oops = NULL
        THEN IF bc.dst > nbits THEN Says("count too large", dst) ELSE subnet(bc.dst)
        ELSE IF f # AF_INET THEN Says("no masks", dst)
        ELSE masked(ttoaddr_num(mask, f, Address(0, <<>>)))

(* The parts of a text whose slash is at position slash, and whose port, if any,
   follows the colon at colonat. *)
SubnetParts(t, slash, colonat, f, addrtmp, dst) ==
    LET mlen == IF colonat = 0 THEN Len(t) - slash ELSE colonat - slash - 1
    IN  SubnetOf(f, ttoaddr(Slice(t, 1, slash - 1), f, addrtmp),
                 IF colonat = 0 THEN Ok(0) ELSE ttoul(t, colonat + 1, Len(t) - colonat, 0),
                 ttoul(t, slash + 1, mlen, 10), Slice(t, slash + 1, mlen), dst)

(* ttosubnet; addrtmp is the local variable, which is not initialised. *)
ttosubnet(text, f, addrtmp, dst) ==
    LET t == IF text # Default THEN text
             ELSE IF f = AF_INET THEN <<0, Slash, 0>> ELSE <<Colon, Colon, Slash, 0>>
        parts(slash) ==
            IF slash = 0 THEN Says("no /", dst)
            ELSE SubnetParts(t, slash, SelectInSubSeq(t, slash + 1, Len(t), LAMBDA c : c = Colon),
                             f, addrtmp, dst)
    IN  IF text = <<>> THEN Says("empty", dst)
        ELSE IF f \notin {AF_INET, AF_INET6} THEN Says("family", dst)
        ELSE parts(SelectInSeq(t, LAMBDA c : c = Slash))

subnettot(s) == addrtot(s.addr, "n") \o <<Slash>> \o ultot(s.maskbits, 10)

subnetporttot(s) ==
    IF s.addr.port = 0 THEN subnettot(s)
    ELSE subnettot(s) \o <<Colon>> \o ultot(s.addr.port, 10)

(* "returns true if the subnet looks valid": no bit count is at once at most 0
   and more than 32. *)
isvalidsubnet(s) == s.addr.af \in {AF_INET, AF_INET6}

-----------------------------------------------------------------------------
(* sameaddr.c *)

LexLess(b, c) ==
    \E i \in DOMAIN b \cap DOMAIN c : b[i] < c[i] /\ \A j \in 1 .. i - 1 : b[j] = c[j]

MutAddrcmp(a, b) ==
    IF LexLess(a.bytes, b.bytes) THEN -1 ELSE IF LexLess(b.bytes, a.bytes) THEN 1 ELSE 0

addrcmp(a, b) ==
    CASE LexLess(a.bytes, b.bytes) -> -1
      [] LexLess(b.bytes, a.bytes) -> 1
      [] ~LexLess(a.bytes, b.bytes) /\ ~LexLess(b.bytes, a.bytes) ->
            IF addrlenof(a) # addrlenof(b)
            THEN IF addrlenof(a) < addrlenof(b) THEN -1 ELSE 1
            ELSE IF a.af = b.af THEN 0 ELSE IF a.af < b.af THEN -1 ELSE 1

sameaddr(a, b) == addrcmp(a, b) = 0
samesubnet(s, r) == sameaddr(s.addr, r.addr) /\ s.maskbits = r.maskbits
subnetishost(s) == s.maskbits = addrlenof(s.addr) * 8

samenbits(a, b, n) ==
    /\ a.af = b.af /\ addrlenof(a) # 0 /\ n <= addrlenof(a) * 8
    /\ \A i \in 1 .. (n + 7) \div 8 : Kept(a, n, i) = Kept(b, n, i)

addrinsubnet(a, s) == a.af = s.addr.af /\ samenbits(a, s.addr, s.maskbits)

subnetinsubnet(s, r) ==
    /\ s.addr.af = r.addr.af /\ s.maskbits >= r.maskbits
    /\ samenbits(s.addr, r.addr, r.maskbits)
====
