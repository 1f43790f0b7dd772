----------------------------- MODULE RplOptions -----------------------------
(***************************************************************************)
(* The options of RPL messages: how build_dao, build_dio, build_dis and    *)
(* build_daoack append them (lib/libndmgmt/dao.cpp, dio.cpp, dis.cpp,      *)
(* daoack.cpp), and how rpl_msg finds them again (rplmsg.cpp).  A message  *)
(* is a sequence of bytes; an option is its type, the length of its data   *)
(* and the data.  Offsets count from 0, as in the code.                    *)
(***************************************************************************)
EXTENDS Integers, Sequences, SequencesExt

CONSTANTS
    BuffLen,        \* the size of the buffer a message is built in, and of mBytes: 2048
    HeaderLen,      \* the bytes before the options
    PrefixLen       \* the bytes of an address: 16

\* A byte holds the number of the bits of an address, and a DIO has room for its
\* one option.
ASSUME OptionsAssumption ==
    /\ {BuffLen, HeaderLen} \subseteq Nat /\ PrefixLen \in 0 .. 31
    /\ HeaderLen + PrefixLen + 16 <= BuffLen /\ BuffLen % 8 = 0

PAD0 == 0
RPLTARGET == 5
SOLICITEDINFO == 7
DESTPREFIX == 8
NotFound == -1      \* a NULL pointer

-----------------------------------------------------------------------------
(* Building. *)

Empty == [buff |-> [k \in 0 .. BuffLen - 1 |-> 0], next |-> HeaderLen]

MutAppend(msg, room, type, data) ==
    IF room < Len(data) + 2 THEN [msg EXCEPT !.next = @ - 1]
    ELSE LET opt == <<type, Len(data) + 2>> \o data
         IN  [buff |-> [k \in DOMAIN msg.buff |->
                          IF k - msg.next + 1 \in DOMAIN opt THEN opt[k - msg.next + 1] ELSE msg.buff[k]],
              next |-> msg.next + Len(opt)]

\* append_suboption.  If there is no room, it returns -1, and build_dao adds that
\* to the position.
append_suboption(msg, room, type, data) ==
    IF room < Len(data) + 2 THEN [msg EXCEPT !.next = @ - 1]
    ELSE LET opt == <<type, Len(data)>> \o data
         IN  [buff |-> [k \in DOMAIN msg.buff |->
                          IF k - msg.next + 1 \in DOMAIN opt THEN opt[k - msg.next + 1] ELSE msg.buff[k]],
              next |-> msg.next + Len(opt)]

\* build_target_opt: flags, the length of the prefix, always a whole address.
build_target_opt(addr) == <<0, 8 * PrefixLen>> \o addr

\* build_prefix_dioopt: length, flags, two lifetimes, a reserved word, the prefix.
build_prefix_dioopt(prefix, maskbits, lifetime) ==
    <<maskbits, 64>> \o lifetime \o lifetime \o <<0, 0, 0, 0>>
        \o [i \in 1 .. PrefixLen |-> IF i <= (maskbits + 7) \div 8 THEN prefix[i] ELSE 0]

\* build_info_disopt: the instance, the flag I, no DODAGID and no version.
build_info_disopt(inst) == <<inst, 64>> \o [i \in 1 .. PrefixLen + 1 |-> 0]

Rounded(n) == ((n + 7) \div 8) * 8

\* The bytes that are sent, after the header.
Options(msg) ==
    LET len == Rounded(msg.next)
    IN  [i \in 1 .. len - HeaderLen |->
            IF HeaderLen + i - 1 < BuffLen THEN msg.buff[HeaderLen + i - 1] ELSE 0]

\* build_dao: one target option for every prefix of dag_children and dag_announced.
AppendTarget(msg, addr) ==
    append_suboption(msg, BuffLen - msg.next, RPLTARGET, build_target_opt(addr))

build_dao(targets) == FoldLeft(AppendTarget, Empty, targets)

\* build_dio and build_dis append one option each; the room they state is the
\* length of the option itself.
AppendOwn(type, data) == append_suboption(Empty, Len(data) + 2, type, data)

build_dio(prefix, maskbits, lifetime) ==
    AppendOwn(DESTPREFIX, build_prefix_dioopt(prefix, maskbits, lifetime))

build_dis(inst) == AppendOwn(SOLICITEDINFO, build_info_disopt(inst))

-----------------------------------------------------------------------------
(* Searching. *)

\* rpl_msg::rpl_msg, reset_options: what does not fit into mBytes is cut off.
Decode(bytes) ==
    [bytes |-> SubSeq(bytes, 1, IF Len(bytes) > BuffLen THEN BuffLen ELSE Len(bytes)),
     mOptions |-> [t \in 0 .. 255 |-> 0]]

At(m, offset) == m.bytes[offset + 1]
SkipLen(m, offset) == IF At(m, offset) = PAD0 THEN 1 ELSE At(m, offset + 1) + 2

\* Whether the loop of search_subopt looks at an option there.  The comparison
\* with sizeof is one of unsigned numbers; no difference is negative in messages
\* whose options end where the message ends, and only they are searched here.
Looks(m, offset) ==
    /\ Len(m.bytes) - offset > 2
    /\ At(m, offset) = PAD0 \/ At(m, offset + 1) # 0

MutCursors(m, seen, optnum, found) ==
    [t \in DOMAIN m.mOptions |->
        LET first == SelectInSeq(seen, LAMBDA o : At(m, o) = t /\ o # 0)
        IN  IF t = optnum /\ found # NotFound THEN found + SkipLen(m, found)
            ELSE IF first # 0 THEN seen[first]
            ELSE m.mOptions[t]]

\* The cursors after the options at the offsets seen were looked at: that of a
\* type that is still at 0 moves to the first option of that type, and to the
\* second if the first is at offset 0; that of the type that was asked for moves
\* past what was found.
Cursors(m, seen, optnum, found) ==
    [t \in DOMAIN m.mOptions |->
        LET first == SelectInSeq(seen, LAMBDA o : At(m, o) = t /\ o # 0)
        IN  IF t = optnum /\ found # NotFound THEN found + SkipLen(m, found)
            ELSE IF m.mOptions[t] = 0 /\ first # 0 THEN seen[first]
            ELSE m.mOptions[t]]

\* The offsets of the options that the loop looks at, from each offset on, up to
\* one of the type that is asked for.
Walk(m, optnum) ==
    LET walk[o \in 0 .. Len(m.bytes) + 257] ==
            IF ~Looks(m, o) THEN <<>>
            ELSE IF At(m, o) = optnum THEN <<o>>
            ELSE <<o>> \o walk[o + SkipLen(m, o)]
    IN  walk

\* search_subopt: the message with its cursors, and the offset found or NotFound.
search_subopt(m, optnum) ==
    LET seen == Walk(m, optnum)[m.mOptions[optnum]]
        last == seen[Len(seen)]
        found == IF seen # <<>> /\ At(m, last) = optnum THEN last ELSE NotFound
    IN  [msg |-> [m EXCEPT !.mOptions = Cursors(m, seen, optnum, found)], offset |-> found]

\* What the option at an offset carries.
Data(m, o) == SubSeq(m.bytes, o + 3, o + 2 + At(m, o + 1))

\* rpl_dao::rpltarget: NULL, or the address, if the option is as long as it says.
rpltarget(m) ==
    LET r == search_subopt(m, RPLTARGET)
        prefixbytes == (At(m, r.offset + 3) + 7) \div 8
    IN  [msg |-> r.msg,
         target |-> IF r.offset = NotFound \/ SkipLen(m, r.offset) < prefixbytes + 4 THEN <<>>
                    ELSE SubSeq(m.bytes, r.offset + 5, r.offset + 4 + prefixbytes)]

\* rpl_dio::destprefix: NULL when the option is too short.
destprefix(m) ==
    LET r == search_subopt(m, DESTPREFIX)
    IN  [msg |-> r.msg,
         prefix |-> IF r.offset = NotFound \/ SkipLen(m, r.offset) < 16 + PrefixLen THEN <<>>
                    ELSE SubSeq(m.bytes, r.offset + 17, r.offset + 16 + PrefixLen)]

\* rpl_dis::rplsolicitedinfo
rplsolicitedinfo(m) == search_subopt(m, SOLICITEDINFO)
====
