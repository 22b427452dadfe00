---- MODULE MCDiscovery ----
(* A small instance of Discovery: two spellings of an IPv6 address and an  *)
(* IPv4 address mapped into IPv6, which is another address; names that     *)
(* differ in case, depth and a boundary between labels.                    *)
EXTENDS Discovery

CONSTANTS none, v1, v2, https, site, other, cert1

Spelled ==
    [t \in {"10.0.0.20", "::ffff:10.0.0.20", "2001:db8::20", "2001:DB8:0::20", "vip"} |->
        CASE t = "10.0.0.20" -> "v4"
          [] t = "::ffff:10.0.0.20" -> "mapped"
          [] t \in {"2001:db8::20", "2001:DB8:0::20"} -> "v6"
          [] t = "vip" -> none]

Texts == DOMAIN Spelled

Configurable ==
    {[ip |-> "10.0.0.20", ip6 |-> none], [ip |-> none, ip6 |-> "2001:db8::20"],
     [ip |-> none, ip6 |-> "2001:DB8:0::20"]}

LowerCase ==
    [c \in {"a", "A", "b", "c", "1", "2", ".", "*"} |-> IF c = "A" THEN "a" ELSE c]

MCLiterals == {<<"1", ".", "2", ".", "1">>}

MCDomains ==
    {<<"c", ".", "a">>, <<"c", ".", "A">>, <<"c", ".", "b", ".", "A", ".">>,
     <<"b", ".", "a">>, <<"c", "b", ".", "a">>, <<"b", ".", "c", ".", "b", ".", "a">>,
     <<"b", ".", "c", "b", ".", "a">>, <<"*", ".", "b", ".", "a">>, <<"c">>} \cup MCLiterals

MCCommonNames ==
    {<<"*", ".", "A">>, <<"*", ".", "b", ".", "a", ".">>, <<"c", ".", "a">>,
     <<"*", ".", "2", ".", "1">>, <<"*">>, <<"b", ".", "a">>}
====
