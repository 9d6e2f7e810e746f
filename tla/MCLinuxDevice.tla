--------------------------- MODULE MCLinuxDevice ---------------------------
(***************************************************************************)
(* Instances of LinuxDevice for TLC.                                       *)
(***************************************************************************)
EXTENDS LinuxDevice

CONSTANTS n1, n2, n3, a1, a2, b1

O(k, x) == [kind |-> k, arg |-> x, dst |-> None]

\* Every operation of the device.
AllOps == {O("set_name", n2), O("set_mtu", 1), O("enabled", 0), O("persist", 1),
           O("set_network_address", a1), O("add_address_v4", a2),
           O("add_address_v6", b1), O("remove_address_v4", a1), O("remove_address", b1),
           O("remove_address_v6", b1), O("mtu", 0), O("if_index", 0),
           O("set_tx_queue_len", 1), O("set_broadcast", 1), O("set_mac_address", 1),
           O("user", 1), O("group", 1), O("is_running", 0), O("tx_queue_len", 0),
           O("mac_address", 0), O("broadcast", 0), O("name", 0), O("addresses", 0)}

\* A rename against addresses().
RenameAndList == {O("set_name", n2), O("addresses", 0)}

\* A builder that sets everything, one that attaches to the same name without offload
\* and leaves the interface down, and one that lets the kernel choose the name.
Full == [name |-> n1, offload |-> TRUE, mtu |-> 2, ipv4 |-> a1, dst |-> a2,
         ipv6 |-> <<b1>>, enabled |-> 1]
Plain == [name |-> n1, offload |-> FALSE, mtu |-> None, ipv4 |-> a1, dst |-> None,
          ipv6 |-> <<>>, enabled |-> 0]
Unnamed == NoConfig

Configs == {Full, Plain, Unnamed}
OnlyFull == {Full}
=============================================================================
