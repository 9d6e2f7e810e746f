---------------------------- MODULE MCBsdDevice ----------------------------
EXTENDS BsdDevice

Prefix(n) == [form |-> "prefix", val |-> n]
Mask(v) == [form |-> "mask", val |-> v]
V4(kind, a, m, d) == [NoOp EXCEPT !.kind = kind, !.addr = a, !.mask = m, !.dst = d]
Simple(kind, arg) == [NoOp EXCEPT !.kind = kind, !.arg = arg]

\* With and without a name, with and without routes.
Configs == {[unit |-> None, associate_route |-> TRUE], [unit |-> 1, associate_route |-> FALSE]}

Symmetry == Permutations(Thread)

\* A network in the middle, the one that is everything, one that is a single address,
\* and a netmask that is none.
SetOps == {V4("set_network_address", 5, Prefix(2), None),
           V4("set_network_address", 6, Prefix(0), None),
           V4("set_network_address", 2, Mask(7), 1),
           V4("set_network_address", 2, Mask(5), None)}

Ops == SetOps
         \cup {V4("add_address_v4", 1, Mask(6), None),
               V4("remove_address", 5, Prefix(0), None), Simple("add_address_v6", 1),
               Simple("remove_address_v6", 1), Simple("enabled", TRUE),
               Simple("set_mtu", 1), Simple("mtu", None), Simple("set_name", 9),
               Simple("enable_tunsifhead", None),
               Simple("set_associate_route", FALSE)}

RouteOps == {V4("add_address_v4", 5, Prefix(2), None),
             V4("remove_address", 5, Prefix(0), None)}
=============================================================================
