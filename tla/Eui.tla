--------------------------------- MODULE Eui ---------------------------------
(***************************************************************************)
(* Interface identifiers: their text form (lib/libndmgmt/ifacefuncs.cpp)   *)
(* and the link-local address made of them (iface.cpp, netlink.cpp).  A    *)
(* text is a sequence of hexadecimal digits by value, of Sep for '-' and   *)
(* ':', and of Bad for all else.                                           *)
(***************************************************************************)
EXTENDS Integers, Sequences, SequencesExt

Sep == 16
Bad == 17

MutNibbleStep(st, c) ==
    CASE st.bad \/ Len(st.dst) = st.room -> st
      [] c = Bad -> [st EXCEPT !.bad = TRUE]
      [] c = Sep /\ st.high -> st
      [] c = Sep /\ ~st.high -> [st EXCEPT !.dst = Append(@, st.upper * 16), !.high = TRUE]
      [] c < 16 /\ st.high -> [st EXCEPT !.upper = c, !.high = FALSE]
      [] c < 16 /\ ~st.high -> [st EXCEPT !.dst = Append(@, st.upper * 16 + c), !.high = TRUE]

\* One character of parse_eui2bin.  A separator after one digit ends a byte of
\* one digit; at the end of the text, such a byte is left out.
NibbleStep(st, c) ==
    CASE st.bad \/ Len(st.dst) = st.room -> st
      [] c = Bad -> [st EXCEPT !.bad = TRUE]
      [] c = Sep /\ st.high -> st
      [] c = Sep /\ ~st.high -> [st EXCEPT !.dst = Append(@, st.upper), !.high = TRUE]
      [] c < 16 /\ st.high -> [st EXCEPT !.upper = c, !.high = FALSE]
      [] c < 16 /\ ~st.high -> [st EXCEPT !.dst = Append(@, st.upper * 16 + c), !.high = TRUE]

NibbleSteps(st, text) == FoldLeft(NibbleStep, st, text)

\* The bytes, and their number or -1.
parse_eui2bin(text, dstlen) ==
    LET st == NibbleSteps([dst |-> <<>>, high |-> TRUE, upper |-> 0, bad |-> FALSE, room |-> dstlen],
                          text)
    IN  [dst |-> st.dst, retlen |-> IF st.bad THEN -1 ELSE Len(st.dst)]

\* snprintf cuts the text off when the buffer is full; a byte is tried while
\* more than three characters are left.
FmtStep(st, b) ==
    IF st.left <= 3 THEN [st EXCEPT !.ok = FALSE]
    ELSE LET piece == (IF st.text = <<>> THEN <<>> ELSE <<Sep>>) \o <<b \div 16, b % 16>>
         IN  [text |-> st.text \o piece, left |-> st.left - Len(piece), ok |-> st.ok]

\* The loop counts the whole length.
fmt_eui(txtlen, eui) == FoldLeft(FmtStep, [text |-> <<>>, left |-> txtlen, ok |-> TRUE], eui)

\* The bit 0x02 of a byte is set.
SetGlobal(b) == IF (b \div 2) % 2 = 1 THEN b ELSE b + 2

MutEui64(e) == <<SetGlobal(e[1]), e[2], e[3], 255, 254, e[3], e[4], e[5]>>

eui64_from_eui48(e) == <<SetGlobal(e[1]), e[2], e[3], 255, 254, e[4], e[5], e[6]>>

generate_linkaddr(eui64) == <<254, 128, 0, 0, 0, 0, 0, 0>> \o eui64

set_eui48(e) == generate_linkaddr(eui64_from_eui48(e))
set_eui64(e) == generate_linkaddr([e EXCEPT ![1] = SetGlobal(@)])
====
