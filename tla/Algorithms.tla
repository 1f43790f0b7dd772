----------------------------- MODULE Algorithms -----------------------------
(***************************************************************************)
(* The pure algorithms of the program, compared with reference definitions *)
(* over bounded inputs.  A behaviour chooses one input and keeps it; there *)
(* is one invariant for each algorithm.                                    *)
(***************************************************************************)
EXTENDS Filters, RplOptions, Checksum, Identity, Netlink

CONSTANTS
    Octet, Piece,       \* bytes of IPv4 addresses and pieces of IPv6 addresses
    MaxText6, MaxText4, \* lengths of the texts that are parsed
    MaxTargets,         \* the most targets of a DAO
    MaxCalls,           \* the calls of search_subopt
    MaxPayload,         \* the bytes of a message after its checksum
    MaxFilters          \* the options that set a filter

\* A message has its checksum behind two bytes, and a length of 16 bits.
ASSUME PayloadAssumption == MaxPayload \in Nat /\ 4 + MaxPayload <= 65535
ASSUME FilterAssumption == MaxFilters \in Nat
\* There is room for the attributes of configure_wpan, with a name of up to four bytes.
ASSUME WpanRoom == 36 <= Room
ASSUME OptionBounds == {MaxTargets, MaxCalls} \subseteq Nat

VARIABLES kind, input

Tuples(S, n) == [1 .. n -> S]
UpTo(S, n) == UNION {Tuples(S, k) : k \in 0 .. n}

Four == {Address(AF_INET, b) : b \in Tuples(Octet, NBYTES)}
Six == {Address(AF_INET6, Bytes(p)) : p \in Tuples(Piece, NPIECES)}

\* Few addresses of both families, where one may be the beginning of another.
Sample ==
    {Address(AF_INET, <<a, 0, 0, b>>) : a \in {0, 1, 160}, b \in {0, 1}}
    \cup {Address(AF_INET6, Bytes([i \in 1 .. NPIECES |-> IF i = 1 THEN a ELSE IF i = NPIECES THEN b ELSE 0])) :
            a \in {0, 256, 40960}, b \in {0, 1}}

\* Options as the code builds them, and single bytes of padding.
Option == {<<PAD0>>, <<1, 1, 5>>, <<RPLTARGET, 1, 8>>, <<RPLTARGET, 2, 5, 1>>, <<DESTPREFIX, 3, 5, 1, 8>>}

\* The bytes of a message: 105, 28, 255, 255 makes a sum that has a carry again
\* when its carries are added.
Payloads == {0, 28, 105, 255}

Field == UNION {{<<d>>, <<d, e>>} : d \in {0, 10}, e \in {1, 15}}

\* Attributes of a netlink message, and messages that rtnl_talk reads.
Attributes(datas) == [type : {1, 3}, data : datas]
Heard ==
    [form : {"error", "malformed"}, own : {FALSE}, ack : {FALSE}, code : {0}]
    \cup [form : {"message"}, own : BOOLEAN, ack : {FALSE}, code : {0}]
    \cup [form : {"message"}, own : BOOLEAN, ack : {TRUE}, code : {0, 17}]

\* Wildcards, the last one with no room in a row for the NUL that is written
\* behind its end; subnets of addresses in Sample; and the options of both kinds.
Wildcard == {<<5>>, <<Star>>, <<5, Star>>, <<AnyOne, 6, 7>>, <<5, 6, 7, Star>>}
SubnetText == {subnettot(initsubnet(a, 20, "0", Subnet(a, 0)).dst) :
                  a \in {x \in Sample : Len(x.bytes) > NBYTES /\ x.bytes[1] # 1}}
FilterOpt == [opt : {"A"}, arg : Wildcard] \cup [opt : {"a"}, arg : SubnetText]

\* Names in a certificate, and the EUI that some of them stand for.
Eui6 == <<0, 18, 52, 1, 2, 3>>
Eui8 == <<0, 18, 52, 86, 1, 2, 3, 4>>
Name == {[type |-> t, eui |-> <<>>, text |-> <<>>] : t \in {"plain", "other"}}
        \cup {[type |-> "eui64", eui |-> e, text |-> fmt_eui(64, e).text] : e \in {Eui6, Eui8}}
        \cup {[type |-> "eui64", eui |-> Eui8, text |-> Eui8]}

Init ==
    \/ kind = "address" /\ input \in Four \cup Six
    \/ kind = "text6" /\ input \in UpTo({1, Colon}, MaxText6) \ {<<>>}
    \/ kind = "text4" /\ input \in UpTo({2, 6, Dot}, MaxText4) \ {<<>>}
    \/ kind = "subnet" /\ input \in Sample \X (0 .. 16 * NPIECES)
    \/ kind = "triple" /\ input \in Sample \X Sample \X Sample
    \/ kind = "options" /\ input \in Option \X Option \X Option \X Option
    \/ kind = "targets" /\ input \in UpTo(Tuples({5, 0}, PrefixLen), MaxTargets)
    \/ kind = "packet" /\ input \in UpTo(Payloads, MaxPayload)
    \/ kind = "fields" /\ input \in UpTo(Field, 3) \ {<<>>}
    \/ kind = "eui48" /\ input \in Tuples({0, 2, 3}, 6)
    \/ kind = "attributes" /\ input \in UpTo(Attributes({<<>>, <<7>>, Eui8 \o <<9>>}), 3)
                                       \X UpTo(Attributes({<<>>, <<7, 8>>}), 2)
    \/ kind = "talk" /\ input \in UpTo(UpTo(Heard, 2) \ {<<>>}, 2) \X BOOLEAN
    \/ kind = "filters" /\ input \in UpTo(FilterOpt, MaxFilters)
    \/ kind = "acp" /\ input \in {RFC8994, RFCSELF, 5} \X UpTo({0, 10, NoDigit, Blank, Minus}, 2 * AddrBytes + 1)
    \/ kind = "certificate" /\ input \in Tuples(BOOLEAN, 6) \X UpTo(Name, 2)

Next == UNCHANGED <<kind, input>>

Spec == Init /\ [][Next]_<<kind, input>>

-----------------------------------------------------------------------------
(* addrtot and ttoaddr are inverse to each other, for both families, with zeros
   squished and without, also when the family is to be guessed; and the buffer
   sizes addrtot asks for are enough. *)
AddressRoundTrip ==
    kind = "address" =>
        \A format \in {"n", "Q"} :
            LET text == addrtot(input, format)
                fit == Fitted(text, Fitted(text, 1).n)
            IN  /\ fit.text = text
                /\ \A f \in {0, input.af} : ttoaddr(text, f, Address(0, <<>>)) = Ok(input)
                /\ tnatoaddr(text, 0, Address(0, <<>>)) = Ok(input)

\* Numeric IPv6 addresses of the digit 1, by definition: all pieces, or two
\* lists of pieces around a gap of two or more.
Ones == {[i \in 1 .. n |-> 1] : n \in 1 .. 4}
Around(n) == [1 .. n -> Ones]

Valid6 ==
    {[text |-> Joined(x, Colon), pieces |-> x] : x \in Around(NPIECES)}
    \cup {[text |-> Joined(z[1], Colon) \o <<Colon, Colon>> \o Joined(z[2], Colon),
           pieces |-> z[1] \o [i \in 1 .. NPIECES - Len(z[1]) - Len(z[2]) |-> <<0>>] \o z[2]] :
            z \in {y \in UNION {Around(i) \X Around(j) : i, j \in 0 .. NPIECES - 2} :
                      Len(y[1]) + Len(y[2]) <= NPIECES - 2}}

(* colon accepts exactly the texts of IPv6 addresses, with one "::" for two or
   more pieces anywhere, and yields the address that such a text stands for. *)
ColonGrammar ==
    kind = "text6" =>
        LET r == colon(input, Address(0, <<>>))
        IN  \/ r.oops # "" /\ r.dst.af = 0 /\ \A v \in Valid6 : v.text # input
            \/ r.oops = "" /\ \E v \in Valid6 :
                    v.text = input /\ r.dst.bytes = Bytes([i \in 1 .. NPIECES |-> Value(v.pieces[i], 16)])

\* The fields of a text between its dots.
Fields(t) ==
    FoldLeft(LAMBDA fs, c : IF c = Dot THEN Append(fs, <<>>)
                            ELSE [fs EXCEPT ![Len(fs)] = Append(@, c)], <<<<>>>>, t)

(* trydotted accepts one to four numbers of at most 255 with dots in between; the
   last numbers may be missing, with their dots or with one dot left, and are 0. *)
DottedGrammar ==
    kind = "text4" =>
        LET r == trydotted(input, Address(0, <<>>))
            fs == Fields(input)
            n == IF Len(fs) > 1 /\ Len(fs) <= NBYTES /\ fs[Len(fs)] = <<>> THEN Len(fs) - 1 ELSE Len(fs)
            good == n <= NBYTES /\ \A i \in 1 .. n : fs[i] # <<>> /\ Value(fs[i], 10) <= 255
        IN  /\ good <=> r.oops = ""
            /\ good => r.dst.bytes = [i \in 1 .. NBYTES |-> IF i <= n THEN Value(fs[i], 10) ELSE 0]

Bits(a) == [k \in 1 .. 8 * Len(a.bytes) |->
              (a.bytes[(k + 7) \div 8] \div 2 ^ (7 - ((k - 1) % 8))) % 2]

(* The subnet of an address (initsubnet) has the first bits of the address and no
   others, contains exactly the addresses that begin with these bits, has a mask
   that masktocount counts right, and comes back from its text, with a port. *)
SubnetsAreBitPrefixes ==
    kind = "subnet" /\ input[2] <= 8 * Len(input[1].bytes) =>
        LET a == input[1]
            n == input[2]
            none == Subnet(Address(0, <<>>), 0)
            s == initsubnet(a, n, "0", none).dst
            p == [s EXCEPT !.addr = setportof(n, s.addr)]
        IN  /\ Bits(s.addr) = [k \in DOMAIN Bits(a) |-> IF k <= n THEN Bits(a)[k] ELSE 0]
            /\ \A b \in Sample : addrinsubnet(b, s) <=>
                    b.af = a.af /\ SubSeq(Bits(b), 1, n) = SubSeq(Bits(a), 1, n)
            /\ masktocount(maskof(s)) = n
            /\ ttosubnet(subnetporttot(p), a.af, Address(0, <<>>), none) = Ok(p)
            /\ subnetishost(s) <=> s = addrtosubnet(a, none).dst

(* Text and addresses correspond: what addrtot writes ttoaddr reads, and it reads
   nothing but addresses; and a subnet, as text and as bits, is a prefix. *)
AddressesAsText == AddressRoundTrip /\ ColonGrammar /\ DottedGrammar /\ SubnetsAreBitPrefixes

\* What makes addrcmp a total order, of three addresses.
Ordered(a, b, c) ==
    /\ addrcmp(a, b) = -addrcmp(b, a)
    /\ sameaddr(a, b) <=> a = b
    /\ addrcmp(a, b) <= 0 /\ addrcmp(b, c) <= 0 => addrcmp(a, c) <= 0

(* addrcmp is a total order of the addresses of both families, although it
   compares addresses of different lengths. *)
AddrcmpOrders == kind = "triple" => Ordered(input[1], input[2], input[3])

(* "NULL for success, else string literal": when ttoaddr does not complain, it
   has set the address. *)
NullMeansConverted ==
    kind = "text4" => \A f \in {0, AF_INET, AF_INET6} :
        LET r == ttoaddr(input, f, Address(0, <<>>)) IN r.oops = "" => r.dst.af # 0

-----------------------------------------------------------------------------
Concat(ss) == FlattenSeq(ss)

\* The offsets of the options of a type.
Offsets(opts, type) ==
    {Len(Concat(SubSeq(opts, 1, i - 1))) : i \in {j \in DOMAIN opts : opts[j][1] = type}}

\* The answers to a sequence of searches, for each type.
Ask(st, t) ==
    LET r == search_subopt(st.msg, t)
    IN  [msg |-> r.msg, got |-> [st.got EXCEPT ![t] = Append(@, r.offset)]]

Answers(m, types, calls) == FoldLeft(Ask, [msg |-> m, got |-> [t \in types |-> <<>>]], calls).got

\* Each answer is the first that was not given before, and then NULL.
InOrder(got, all) ==
    \A k \in DOMAIN got :
        LET left == all \ {got[j] : j \in 1 .. k - 1}
        IN  got[k] = IF left = {} THEN NotFound ELSE Min(left)

\* What searches find in a message that ends with two bytes of padding, and is not cut off.
FoundInOrder(opts, calls) ==
    LET types == {calls[i] : i \in DOMAIN calls}
        m == Decode(Concat(opts) \o <<0, 0>>)
    IN  /\ Len(Concat(opts)) + 2 <= BuffLen
        /\ (\A t, u \in types : t = u) \/ opts[1][1] \notin types
        => \A t \in types : InOrder(Answers(m, types, calls)[t], Offsets(opts, t))

(* search_subopt returns the options of a type one by one, each once, and then
   NULL for good, although data may look like options: when a message is asked for
   one type, as all callers do, and when searches for several types share the
   cursors in any order, unless an option of these types is at offset 0, which a
   cursor does not tell from an option not seen yet. *)
OptionsInOrder ==
    kind = "options" => \A calls \in Tuples({RPLTARGET, DESTPREFIX}, MaxCalls) : FoundInOrder(input, calls)

\* The targets that are found in a message, by n calls.
NextTarget(st, i) ==
    LET r == rpltarget(st.msg) IN [msg |-> r.msg, found |-> Append(st.found, r.target)]

Targets(m, n) == FoldLeft(NextTarget, [msg |-> m, found |-> <<>>], [i \in 1 .. n |-> i]).found

\* A DAO, a DIO and a DIS have the options that they were built with, and no others.
TargetsFound(targets) ==
    Targets(Decode(Options(build_dao(targets))), Len(targets) + 1) = Append(targets, <<>>)

PrefixFound(addr, lifetime) ==
    LET first == destprefix(Decode(Options(build_dio(addr, 8 * PrefixLen, lifetime))))
    IN  first.prefix = addr /\ destprefix(first.msg).prefix = <<>>

SolicitationFound(inst) ==
    LET first == rplsolicitedinfo(Decode(Options(build_dis(inst))))
    IN  first.offset = 0 /\ rplsolicitedinfo(first.msg).offset = NotFound

\* The buffer has room for all targets.
TargetsFit(targets) == HeaderLen + Len(targets) * (PrefixLen + 4) <= BuffLen

(* The targets of a DAO arrive: as long as their options fit into the buffer of
   build_dao, rpltarget finds them all, in order, and nothing else in the padding
   that rounds up the length.  The prefix of a DIO arrives in the same way, and a
   DIS has one solicitation. *)
TargetsArrive ==
    kind = "targets" /\ TargetsFit(input) =>
        /\ TargetsFound(input)
        /\ PrefixFound(IF input = <<>> THEN [i \in 1 .. PrefixLen |-> 8] ELSE input[1], <<5, 7, 8, 1>>)
        /\ SolicitationFound(7)

(* The options of a message are found (search_subopt) as they were put there
   (append_suboption). *)
OptionsArrive == OptionsInOrder /\ TargetsArrive

-----------------------------------------------------------------------------
\* The sum over pseudo-header and message is all ones when the checksum is in its
\* place, and it does not depend on where an even buffer is split.
Verifies(src, dst, icmp) ==
    LET sent == WithChecksum(src, dst, icmp)
        magic == csum_ipv6_magic(src, dst, Len(sent), IPPROTO_ICMPV6, 0)
    IN  /\ csum_partial(sent, magic) = 65535
        /\ \A i \in 0 .. Len(sent) \div 2 :
              csum_partial(SubSeq(sent, 2 * i + 1, Len(sent)),
                           csum_partial(SubSeq(sent, 1, 2 * i), magic)) = csum_partial(sent, magic)

(* The checksum that send_raw_icmp inserts verifies, for even and odd lengths and
   with carries, and may be computed in parts. *)
ChecksumVerifies ==
    kind = "packet" => Verifies(<<254, 128, 255, 255>>, <<255, 2, 255, 26>>, <<155, 2, 7, 7>> \o input)

-----------------------------------------------------------------------------
FieldByte(f) == IF Len(f) = 1 THEN f[1] ELSE 16 * f[1] + f[2]

\* Fields of digits are the bytes they stand for, and bytes are two digits each.
FieldsAreBytes(fields) ==
    LET bytes == [i \in DOMAIN fields |-> FieldByte(fields[i])]
        n == Len(fields)
        whole == fmt_eui(3 * n + 1, bytes)
    IN  /\ Len(fields[n]) = 2 => parse_eui2bin(Joined(fields, Sep), 8) = [dst |-> bytes, retlen |-> n]
        /\ whole.ok /\ parse_eui2bin(whole.text, 8).dst = bytes
        /\ \A len \in 0 .. 3 * n - 1 : ~fmt_eui(len, bytes).ok

(* parse_eui2bin reads fields of one and of two digits as the bytes they stand
   for, if the last has two, and reads back what fmt_eui wrote. *)
EuiFields == kind = "fields" => FieldsAreBytes(input)

\* Hardware addresses of 48 bits with the same link-local address.
SameLinkAddress(e, f) ==
    set_eui48(e) = set_eui48(f) <=> SetGlobal(e[1]) = SetGlobal(f[1]) /\ \A i \in 2 .. 6 : e[i] = f[i]

\* The EUI-64 in which a hardware address is embedded.
Embedded(e) == <<e[1], e[2], e[3], 255, 254, e[4], e[5], e[6]>>

(* Two hardware addresses have the same link-local address only if they differ
   in nothing but the bit that is set, and an EUI-64 in which they are embedded
   has that address too. *)
LinkAddressUnique ==
    kind = "eui48" =>
        /\ set_eui64(Embedded(input)) = set_eui48(input)
        /\ \A e \in Tuples({0, 2, 3}, 6) : SameLinkAddress(e, input)

(* The hardware address given as text becomes the link-local address. *)
LinkAddresses == EuiFields /\ LinkAddressUnique

-----------------------------------------------------------------------------
\* The attributes of a list that fit into room bytes, one after the other, and their
\* bytes.
Size(a) == 4 + 4 * ((Len(a.data) + 3) \div 4)
Fit(st, a, room) ==
    IF st.bytes + Size(a) <= room THEN [got |-> Append(st.got, a), bytes |-> st.bytes + Size(a)] ELSE st
Fitting(as, room) == FoldLeft(LAMBDA st, a : Fit(st, a, room), [got |-> <<>>, bytes |-> 0], as)

\* The data of the last attribute of a type in a list, and in a message.
LastOf(as, type) ==
    {as[i].data : i \in {j \in DOMAIN as : as[j].type = type /\ \A k \in j + 1 .. Len(as) : as[k].type # type}}
Parsed(tb, buf, type) == {Payload(buf, at) : at \in {tb[type]} \ {-1}}

\* Messages with a list of attributes, and with a nest behind them, closed at the
\* end or extended with each attribute.
AddTo(n, a) == addattr_l(n, Room, a.type, a.data)
AddAll(n, as) == FoldLeft(AddTo, n, as)
Closed(as, nest, inner) ==
    LET open == addattr_nest(AddAll(NoAttributes, as), Room, nest)
    IN  addattr_nest_end(AddAll(open.msg, inner), open.nest)
GrowAll(n, nest, as) == FoldLeft(LAMBDA m, a : rta_addattr_l(m, nest, Room - nest, a.type, a.data), n, as)
Grown(as, nest, inner) ==
    LET open == addattr_nest(AddAll(NoAttributes, as), Room, nest)
    IN  GrowAll(open.msg, open.nest, inner)

ListArrives(as, max) ==
    LET outer == Fitting(as, Room)
        sent == AddAll(NoAttributes, as)
        index == parse_rtattr_byindex(sent.buf, 0, sent.len, max)
    IN  /\ sent.len = outer.bytes /\ sent.len <= Room
        /\ [i \in DOMAIN index |-> Payload(sent.buf, index[i])]
                = [i \in 1 .. (IF Len(outer.got) < max THEN Len(outer.got) ELSE max) |-> outer.got[i].data]

\* There is room for a nest, and for all that is to be in it.
NestFits(as, inner) ==
    LET room == Room - (Fitting(as, Room).bytes + 4)
    IN  room >= 0 /\ Fitting(inner, room).got = inner

NestArrives(as, nest, inner, max) ==
    LET closed == Closed(as, nest, inner)
        tb == parse_rtattr(closed.buf, 0, closed.len, max)
        inside == parse_rtattr(closed.buf, tb[nest] + 4, closed.buf[tb[nest]] - 4, max)
    IN  /\ \A t \in 0 .. max : /\ t # nest => Parsed(tb, closed.buf, t) = LastOf(Fitting(as, Room).got, t)
                               /\ Parsed(inside, closed.buf, t) = LastOf(inner, t)
        /\ Grown(as, nest, inner).buf = closed.buf

\* The request of configure_wpan has its name and, in the nest, the kind of the link.
WpanArrives(index, name, lowpan) ==
    LET wpan == configure_wpan(index, name, lowpan)
        link == parse_rtattr(wpan.buf, 0, wpan.len, IFLA_GROUP)
        kinds == parse_rtattr(wpan.buf, link[IFLA_LINKINFO] + 4, wpan.buf[link[IFLA_LINKINFO]] - 4, IFLA_GROUP)
    IN  /\ Payload(wpan.buf, link[IFLA_LINK]) = index
        /\ Payload(wpan.buf, link[IFLA_IFNAME]) = name
        /\ Payload(wpan.buf, kinds[IFLA_INFO_KIND]) = lowpan

(* The attributes of a request arrive, in whatever sizes: of each type, the last
   that had room, also with a nest behind them, and in the nest all that was put
   into it; the message is never longer than the buffer.  A nest that is extended
   by rta_addattr_l is the same.  So does the request of configure_wpan. *)
AttributesArrive ==
    kind = "attributes" =>
        /\ ListArrives(input[1], 3)
        /\ NestFits(input[1], input[2]) => NestArrives(input[1], 2, input[2], 3)
        /\ WpanArrives(<<1, 0, 0, 0>>, <<1>> \o (IF input[2] = <<>> THEN <<>> ELSE input[2][1].data), <<6, 6>>)

\* What decides the result of rtnl_talk: an error, or an answer to the request.
Decides(h, wanted) == h.form # "message" \/ (h.own /\ (h.ack \/ wanted))

\* The result of rtnl_talk is that of the first.
AnsweredByOwn(datagrams, wanted) ==
    LET heard == Concat(datagrams)
        result == rtnl_talk(datagrams, wanted)
        answers == {i \in DOMAIN heard : Decides(heard[i], wanted)}
        first == {i \in answers : \A j \in answers : i <= j}
    IN  /\ result = "ok" => \E i \in first : heard[i].form = "message" /\ heard[i].code = 0
        /\ result = "failed" => \E i \in first : heard[i].form = "error" \/ heard[i].code # 0
        /\ result = "exited" => \E i \in first : heard[i].form = "malformed"
        /\ result = rtnl_talk(<<heard>>, wanted)
        /\ \A i \in first : (\A j \in 1 .. i : heard[j].form = "message" => heard[j].own)
                => result \in {"ok", "failed", "exited"}

(* rtnl_talk believes only the answer to its own request, and the first one: an
   acknowledgement of an earlier request or of another process is none, and success
   is reported after no error.  The result does not depend on how the messages are
   split into datagrams, and there is one when an answer or an error arrives and
   nothing but replies to this request before it. *)
TalkAnswersOwn == kind = "talk" => AnsweredByOwn(input[1], input[2])

(* A request reaches the kernel as it was made, and its result is its own. *)
RequestsAnswered == AttributesArrive /\ TalkAnswersOwn

\* The filters after all options, and the arguments of the options of one kind.
NoSubnet == Subnet(Address(0, <<>>), 0)
Filters(opts) == FoldLeft(LAMBDA f, o : FilterOption(f, o, NoSubnet), NoFilters(<<>>), opts)
Arguments(opts, k) == FoldLeft(LAMBDA s, o : IF o.opt = k THEN Append(s, o.arg) ELSE s, <<>>, opts)

\* A DAG announces an address by what one of the first options of each kind says.
Announces(opts, name, a) ==
    LET used(s) == {s[i] : i \in {j \in DOMAIN s : j <= DAG_IFWILDCARD_MAX}}
        subnet(t) == ttosubnet(t, AF_INET6, Address(0, <<>>), NoSubnet).dst
    IN  notify_new_interface(<<NoFilters(<<>>), Filters(opts)>>, name, a) =
            IF /\ \E w \in used(Arguments(opts, "A")) : fnmatch(w, name)
               /\ \E t \in used(Arguments(opts, "a")) : addrinsubnet(a, subnet(t))
            THEN {2} ELSE {}

\* What a DAG with wildcards up to a length announces, of some names and addresses.
Select(max) ==
    kind = "filters" /\ (\A i \in DOMAIN input : input[i].opt = "A" => Len(input[i].arg) <= max) =>
        \A name \in {<<5>>, <<6>>, <<6, 6, 7>>} : \A a \in {x \in Sample : x.af = AF_INET6} :
            Announces(input, name, a)

(* A DAG announces an address if one of its wildcards matches the name of the
   interface and one of its subnets contains the address, each of the first
   DAG_IFWILDCARD_MAX of its kind, in whatever order the options -A and -a were
   given, as long as every wildcard leaves room in its row for the two NULs that
   set_interface_wildcard writes, and no subnets were left in the memory of the DAG. *)
WildcardsSelect == Select(DAG_IFWILDCARD_LEN - 2)

(* The same for every wildcard that the manual page allows: "up to 8 times, with
   names up to 32 characters". *)
FiltersAsDocumented == Select(DAG_IFWILDCARD_LEN)

-----------------------------------------------------------------------------
AcpText(tag, digits, area, domain) == <<tag, PlusSign>> \o digits \o area \o <<AtSign>> \o domain

\* The address that the digits stand for, whatever follows them.
AcpAddress(tag, digits, area, domain) ==
    LET whole == {i \in 1 .. AddrBytes : 2 * i <= Len(digits)}
        r == parse_rfc8994string(AcpText(tag, digits, area, domain))
    IN  /\ r = parse_rfc8994string(AcpText(tag, digits, <<>>, <<>>))
        /\ r.ok => /\ tag \in {RFC8994, RFCSELF}
                   /\ \A i \in whole : /\ digits[2 * i - 1] # NoDigit
                                      /\ \E k \in 2 * i - 1 .. Len(digits) : digits[k] < 16
        /\ tag \in {RFC8994, RFCSELF} /\ (\A i \in DOMAIN digits : digits[i] < 16) =>
                r = [ok |-> TRUE,
                     addr |-> [i \in 1 .. AddrBytes |->
                                 IF i \in whole THEN 16 * digits[2 * i - 1] + digits[2 * i] ELSE 0]]

(* An ACP name with hexadecimal digits is read as their address, two digits for a
   byte and zeros for those that are missing, whatever area and domain follow.  Of
   other texts sscanf takes more than the name may have, blanks and signs; but
   other tags are refused, and so are bytes that begin with any other character or
   have no digit behind them. *)
AcpNameParsed ==
    kind = "acp" =>
        \A area \in {<<>>, <<PlusSign, 10, 10>>}, domain \in {<<5>>, <<PlusSign, 0, 0>>} :
            AcpAddress(input[1], input[2], area, domain)

\* The hardware address of an interface after peck, with the certificate and the
\* CA that cert says; whether the certificate is to be trusted; and what an EUI is
\* on the interface: Ethernet has no address of 64 bits.
Pecked(cert, names, old) ==
    peck(load_identity_from_cert(cert[1], cert[2], cert[3], cert[4], cert[5]), names, old, cert[6])
Trusted(cert) == cert[3] /\ cert[4] /\ (cert[1] => cert[2] /\ cert[5])
Form(e, lowpan) == IF Len(e) = 6 /\ lowpan THEN [Embedded(e) EXCEPT ![1] = SetGlobal(@)] ELSE e
Fits(e, lowpan) == lowpan \/ Len(e) = 6

TakesIdentity(cert, names, old) ==
    LET new == Pecked(cert, names, old)
        own == {i \in DOMAIN names : names[i].type = "eui64"}
    IN  /\ new # old => Trusted(cert) /\ \E i \in own : Fits(names[i].eui, cert[6])
                                                     /\ new = Form(names[i].eui, cert[6])
        /\ Trusted(cert) /\ (\A i \in DOMAIN names : names[i].type # "plain") =>
                \A i \in own : own = {i} /\ Fits(names[i].eui, cert[6]) => new = Form(names[i].eui, cert[6])

(* peck changes the hardware address of an interface only if the certificate was
   read and, with a CA, verified; and only to the EUI of one of its names, in the
   form that the interface needs.  It does so if there is one such name, and none
   without an OID. *)
IdentityVerified ==
    kind = "certificate" => TakesIdentity(input[1], input[2], <<2, 0, 0, 0, 0, 1>>)

(* "Now process the last certificate that has the right subjectAltName": of several
   names with an EUI-64, peck takes the last. *)
LastNameTaken ==
    kind = "certificate" /\ Trusted(input[1]) /\ (\A i \in DOMAIN input[2] : input[2][i].type = "eui64") =>
        LET last == input[2][Len(input[2])].eui
        IN  input[2] # <<>> /\ Fits(last, input[1][6]) =>
                Pecked(input[1], input[2], <<2, 0, 0, 0, 0, 1>>) = Form(last, input[1][6])

(* What a certificate says of its owner, in an ACP name or as an EUI-64, is taken
   from it as it is, and only from one that is trusted. *)
IdentityOfCertificate == AcpNameParsed /\ IdentityVerified
====
