------------------------------- MODULE Filters -------------------------------
(***************************************************************************)
(* The filters that choose the addresses a DAG announces: --dao-if-filter  *)
(* and --dao-addr-filter (lib/libndmgmt/dag.cpp).  The wildcards are rows  *)
(* of one array, mIfWildcard, whose bytes are kept one after the other, as *)
(* in memory: a row that is full has its end in the next one.  Characters  *)
(* are numbers, NUL is 0, and a letter stands for both cases.              *)
(***************************************************************************)
EXTENDS AddrText

CONSTANTS
    DAG_IFWILDCARD_MAX,     \* rows: 8
    DAG_IFWILDCARD_LEN      \* bytes of a row: 32

ASSUME WildcardAssumption == DAG_IFWILDCARD_MAX \in Nat /\ DAG_IFWILDCARD_LEN \in Nat \ {0}

NUL == 0
Star == 42
AnyOne == 63        \* '?'

\* init_dag does not set mIfFilter_max: left are the subnets the memory happens
\* to hold.
NoFilters(left) ==
    [mIfWildcard |-> [k \in 0 .. DAG_IFWILDCARD_MAX * DAG_IFWILDCARD_LEN |-> NUL],
     mIfWildcard_max |-> 0, mIfFilter |-> left]

\* set_interface_wildcard.  Behind the array is the lowest byte of mIfFilter_max:
\* the end of a last row that is full sets it to 0.
set_interface_wildcard(f, wild) ==
    IF f.mIfWildcard_max >= DAG_IFWILDCARD_MAX THEN f
    ELSE LET text == Append(wild, NUL)
             len == IF Len(text) > DAG_IFWILDCARD_LEN - 1 THEN DAG_IFWILDCARD_LEN ELSE Len(text)
             row == f.mIfWildcard_max * DAG_IFWILDCARD_LEN
         IN  [f EXCEPT !.mIfWildcard_max = @ + 1,
                       !.mIfFilter = IF row + len = DAG_IFWILDCARD_MAX * DAG_IFWILDCARD_LEN
                                     THEN <<>> ELSE @,
                       !.mIfWildcard = [k \in DOMAIN @ |->
                            IF k = row + len THEN NUL
                            ELSE IF k \in row .. row + len - 1 THEN text[k - row + 1] ELSE @[k]]]

\* set_interface_filter.  Whether ttosubnet succeeds is not looked at; i6 is the
\* subnet on the stack before.
set_interface_filter(f, text, i6) ==
    IF Len(f.mIfFilter) >= DAG_IFWILDCARD_MAX THEN f
    ELSE [f EXCEPT !.mIfFilter = Append(@, ttosubnet(text, AF_INET6, Address(0, <<>>), i6).dst)]

\* One option -A or -a of main: they may come in any order.
FilterOption(f, o, i6) ==
    IF o.opt = "A" THEN set_interface_wildcard(f, o.arg) ELSE set_interface_filter(f, o.arg, i6)

\* The text from a position to the next NUL.
CString(mem, at) ==
    LET end == CHOOSE e \in DOMAIN mem : /\ e >= at /\ mem[e] = NUL
                                         /\ \A k \in at .. e - 1 : mem[k] # NUL
    IN  [k \in 1 .. end - at |-> mem[at + k - 1]]

fnmatch(pattern, name) ==
    LET m[i \in 0 .. Len(pattern), j \in 0 .. Len(name)] ==
            CASE i = 0 -> j = 0
              [] i > 0 /\ pattern[i] = Star -> m[i - 1, j] \/ (j > 0 /\ m[i, j - 1])
              [] i > 0 /\ pattern[i] # Star ->
                    j > 0 /\ pattern[i] \in {name[j], AnyOne} /\ m[i - 1, j - 1]
    IN  m[Len(pattern), Len(name)]

MutMatchesIfWildcard(f, ifname) ==
    \E i \in 1 .. f.mIfWildcard_max :
        fnmatch(CString(f.mIfWildcard, i * DAG_IFWILDCARD_LEN), ifname)

matchesIfWildcard(f, ifname) ==
    \E i \in 0 .. f.mIfWildcard_max - 1 :
        fnmatch(CString(f.mIfWildcard, i * DAG_IFWILDCARD_LEN), ifname)

matchesIfPrefix(f, v6) == \E i \in DOMAIN f.mIfFilter : addrinsubnet(v6, f.mIfFilter[i])

\* notify_new_interface: the DAGs, by their filters, that announce the address.
notify_new_interface(filters, ifname, if_addr) ==
    {k \in DOMAIN filters : matchesIfWildcard(filters[k], ifname) /\ matchesIfPrefix(filters[k], if_addr)}
====
