------------------------------- MODULE Netlink -------------------------------
(***************************************************************************)
(* Requests to the kernel: the attributes of a netlink message and         *)
(* rtnl_talk (lib/libnetlink/libnetlink.c), and the request of             *)
(* configure_wpan (lib/libndmgmt/netlink.cpp).  A message is the buffer of *)
(* its attributes and the length in use, both counted from the first       *)
(* attribute.  An attribute is a header of four bytes, with its length and *)
(* its type, and its data; it starts at a multiple of four.                *)
(***************************************************************************)
EXTENDS Integers, Sequences, SequencesExt

CONSTANT Room       \* the bytes for attributes: 1024

ASSUME RoomAssumption == Room \in Nat /\ Room % 4 = 0

IFLA_IFNAME == 3
IFLA_LINK == 5
IFLA_LINKINFO == 18
IFLA_GROUP == 27
IFLA_INFO_KIND == 1

MutAligned(n) == n

\* RTA_ALIGN, NLMSG_ALIGN
Aligned(n) == ((n + 3) \div 4) * 4

NoAttributes == [buf |-> [k \in 0 .. Room - 1 |-> 0], len |-> 0]

\* The bytes from position at on; the buffer has no others.
Put(buf, at, bytes) ==
    [k \in DOMAIN buf |-> IF k - at + 1 \in DOMAIN bytes THEN bytes[k - at + 1] ELSE buf[k]]

Attribute(type, data) == <<4 + Len(data), 0, type, 0>> \o data

\* addattr_l: what does not fit is left out.
addattr_l(n, maxlen, type, data) ==
    LET at == Aligned(n.len)
    IN  IF at + Aligned(4 + Len(data)) > maxlen THEN n
        ELSE [buf |-> Put(n.buf, at, Attribute(type, data)), len |-> at + Aligned(4 + Len(data))]

\* addattr32 has four bytes of data.
addattr32(n, maxlen, type, data) == addattr_l(n, maxlen, type, data)

\* addraw_l.  The bytes it clears are not those of the padding: the length is
\* added to a pointer to attribute headers, of four bytes each.
addraw_l(n, maxlen, data) ==
    LET at == Aligned(n.len)
        padding == [k \in 1 .. Aligned(Len(data)) - Len(data) |-> 0]
    IN  IF at + Aligned(Len(data)) > maxlen THEN n
        ELSE [buf |-> Put(Put(n.buf, at, data), at + 4 * Len(data), padding),
              len |-> at + Aligned(Len(data))]

\* rta_addattr_l and rta_addattr32: the attribute at nest is extended, at the
\* end of the message; maxlen bounds its own length.
rta_addattr_l(n, nest, maxlen, type, data) ==
    LET at == Aligned(n.buf[nest])
        len == at + Aligned(4 + Len(data))
    IN  IF len > maxlen THEN n
        ELSE [n EXCEPT !.buf = Put(Put(@, nest + at, Attribute(type, data)), nest, <<len>>)]

\* addattr_nest returns the position of the nest, also when there is no room.
addattr_nest(n, maxlen, type) ==
    [nest |-> Aligned(n.len), msg |-> addattr_l(n, maxlen, type, <<>>)]

addattr_nest_end(n, nest) == [n EXCEPT !.buf = Put(@, nest, <<Aligned(n.len) - nest>>)]

\* RTA_OK and RTA_NEXT: the positions of the attributes in len bytes from from on.
Positions(buf, from, len) ==
    LET walk[o \in 0 .. len + 3] ==
            IF len - o >= 4 /\ buf[from + o] >= 4 /\ buf[from + o] <= len - o
            THEN <<from + o>> \o walk[o + Aligned(buf[from + o])]
            ELSE <<>>
    IN  walk[0]

TypeAt(buf, at) == buf[at + 2]
Payload(buf, at) == [k \in 1 .. buf[at] - 4 |-> buf[at + 3 + k]]

\* parse_rtattr: the position of the last attribute of each type, or -1.
parse_rtattr(buf, from, len, max) ==
    LET all == Positions(buf, from, len)
    IN  [t \in 0 .. max |->
            LET i == SelectLastInSeq(all, LAMBDA at : TypeAt(buf, at) = t)
            IN  IF i = 0 THEN -1 ELSE all[i]]

\* parse_rtattr_byindex: the first max attributes of a type up to max.
Indexed(tb, buf, at, max) == IF TypeAt(buf, at) <= max /\ Len(tb) < max THEN Append(tb, at) ELSE tb
parse_rtattr_byindex(buf, from, len, max) ==
    FoldLeft(LAMBDA tb, at : Indexed(tb, buf, at, max), <<>>, Positions(buf, from, len))

\* configure_wpan: the request for a new link of kind "lowpan" on this one.
configure_wpan(index, name, kind) ==
    LET group == addattr_l(NoAttributes, Room, IFLA_GROUP, <<0, 0, 0, 0>>)
        link == addattr_l(group, Room, IFLA_LINK, index)
        named == addattr_l(link, Room, IFLA_IFNAME, name)
        linkinfo == addattr_nest(named, Room, IFLA_LINKINFO)
    IN  addattr_nest_end(addattr_l(linkinfo.msg, Room, IFLA_INFO_KIND, kind), linkinfo.nest)

-----------------------------------------------------------------------------
(* rtnl_talk.  What recvmsg gives is a message, whole; or an error, for which
   rtnl_talk returns -1: the request was not sent, the socket has ended, or a
   message is truncated; or it is malformed, and the process exits: a sender of
   another kind, a message that is longer than the datagram, or a remnant.  A
   message is the answer to this request or not (own), an acknowledgement or not
   (ack), and an acknowledgement has a code, not 0 if it is too short to have one.
   No caller has a handler for the messages of others (junk). *)

MutTalkStep(result, h, wanted) ==
    CASE result # "reads" -> result
      [] result = "reads" /\ h.form = "error" -> "failed"
      [] result = "reads" /\ h.form = "malformed" -> "exited"
      [] result = "reads" /\ h.form = "message" /\ h.ack -> IF h.code = 0 THEN "ok" ELSE "failed"
      [] result = "reads" /\ h.form = "message" /\ ~h.ack -> IF wanted THEN "ok" ELSE "reads"

\* One message.  A message of others is not stepped over: the loop continues with
\* the same one for ever.
TalkStep(result, h, wanted) ==
    CASE result # "reads" -> result
      [] result = "reads" /\ h.form = "error" -> "failed"
      [] result = "reads" /\ h.form = "malformed" -> "exited"
      [] result = "reads" /\ h.form = "message" /\ ~h.own -> "spins"
      [] result = "reads" /\ h.form = "message" /\ h.own ->
            IF h.ack THEN (IF h.code = 0 THEN "ok" ELSE "failed") ELSE IF wanted THEN "ok" ELSE "reads"

\* The messages of a datagram, one after the other.
TalkDatagram(result, datagram, wanted) ==
    FoldLeft(LAMBDA r, h : TalkStep(r, h, wanted), result, datagram)

\* The datagrams are read one after the other, as long as there is no result; an
\* interrupted call, and a datagram that is truncated between two messages, are
\* passed over.
rtnl_talk(datagrams, wanted) ==
    FoldLeft(LAMBDA r, d : TalkDatagram(r, d, wanted), "reads", datagrams)
====
