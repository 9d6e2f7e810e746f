------------------------- MODULE LinuxDeviceProofs -------------------------
(***************************************************************************)
(* Proofs about the Linux device, for any threads, names, builders,        *)
(* operations and numbers of interfaces, devices and calls: nothing        *)
(* leaks, the offload flags agree with the kernel, an operation touches    *)
(* the device's own interface only, set_network_address is exact, and a    *)
(* device comes up configured as the builder was told.                     *)
(*                                                                         *)
(* All of them need to know where an operation is in its sequence of       *)
(* system calls (ProgressInv) and who holds op_lock (LockInv).  The name   *)
(* that was asked for stays right because a rename is the last call of an  *)
(* operation that holds the write side (NameInv); the four stages of       *)
(* set_network_address are NetworkInv; and what the builder was told is    *)
(* in force, in the plan, or in the middle of being done (ConfigInv).      *)
(***************************************************************************)
EXTENDS LinuxDevice, TLAPS

(***************************************************************************)
(* Scripts.                                                                *)
(***************************************************************************)

ByIndex == {"list_all", "list_matching", "remove_each"} \cup IndexCalls
Writes == SetCalls \cup IndexCalls \cup FdCalls \cup {"remove_each"}
AllCalls == {"tungetiff", "if_nametoindex", "getifaddrs", "getifaddrs_v6"}
            \cup GetCalls \cup Writes \cup ByIndex

(* What every operation's sequence of calls is like.  It begins with the   *)
(* request for the name, or it is one call on the descriptor; a call on an *)
(* index comes behind if_nametoindex; a rename is the last call; and an    *)
(* operation that changes anything takes the write side of op_lock.        *)
WellScripted(o, s) ==
  /\ s \in Seq(AllCalls) /\ Len(s) >= 1
  /\ s[1] \in {"tungetiff"} \cup FdCalls
  /\ \A k \in 1..Len(s) : s[k] \in FdCalls => Len(s) = 1
  /\ \A k \in 1..Len(s) : s[k] \in ByIndex => \E j \in 1..k - 1 : s[j] = "if_nametoindex"
  /\ \A k \in 1..Len(s) : s[k] = "siocsifname" => k = Len(s) /\ o.kind = "set_name"
  /\ \A k \in 1..Len(s) : s[k] \in Writes => LockOf(o) = "write"

(* The getters, which only read. *)
LEMMA GetterScript ==
  ASSUME NEW o, o.kind \in Getter PROVE WellScripted(o, Script(o))
<1> USE DEF Script, WellScripted, LockOf, Getter, AllCalls, Writes, ByIndex, SetCalls,
        GetCalls, IndexCalls, FdCalls, request, if_index_impl
<1>1. CASE o.kind = "is_running" BY <1>1 DEF is_running
<1>2. CASE o.kind = "mtu" BY <1>2 DEF mtu
<1>3. CASE o.kind = "tx_queue_len" BY <1>3 DEF tx_queue_len
<1>4. CASE o.kind = "mac_address" BY <1>4 DEF mac_address
<1>5. CASE o.kind = "broadcast" BY <1>5 DEF broadcast
<1>6. CASE o.kind = "name" BY <1>6
<1>7. CASE o.kind = "if_index" BY <1>7
<1> QED BY <1>1, <1>2, <1>3, <1>4, <1>5, <1>6, <1>7

(* The setters of an attribute or of the name. *)
LEMMA AttributeScript ==
  ASSUME NEW o, o.kind \in {"set_name", "set_mtu", "set_tx_queue_len", "set_broadcast",
                            "set_mac_address", "enabled", "persist", "user", "group"}
  PROVE  WellScripted(o, Script(o))
<1> USE DEF Script, WellScripted, LockOf, Getter, AllCalls, Writes, ByIndex, SetCalls,
        GetCalls, IndexCalls, FdCalls, request
<1>1. CASE o.kind = "set_name" BY <1>1 DEF set_name
<1>2. CASE o.kind = "set_mtu" BY <1>2 DEF set_mtu
<1>3. CASE o.kind = "set_tx_queue_len" BY <1>3 DEF set_tx_queue_len
<1>4. CASE o.kind = "set_broadcast" BY <1>4 DEF set_broadcast
<1>5. CASE o.kind = "set_mac_address" BY <1>5 DEF set_mac_address
<1>6. CASE o.kind = "enabled" BY <1>6 DEF enabled
<1>7. CASE o.kind = "persist" BY <1>7 DEF persist
<1>8. CASE o.kind = "user" BY <1>8 DEF user
<1>9. CASE o.kind = "group" BY <1>9 DEF group
<1> QED BY <1>1, <1>2, <1>3, <1>4, <1>5, <1>6, <1>7, <1>8, <1>9

(* The two halves of a concatenation. *)
LEMMA Concat ==
  ASSUME NEW S, NEW a \in Seq(S), NEW b \in Seq(S)
  PROVE  /\ a \o b \in Seq(S) /\ Len(a \o b) = Len(a) + Len(b)
         /\ \A k \in 1..Len(a) : (a \o b)[k] = a[k]
         /\ \A k \in 1..Len(b) : (a \o b)[Len(a) + k] = b[k]
<1>1. ASSUME NEW k \in 1..Len(b) PROVE (a \o b)[Len(a) + k] = b[k]
  <2>1. Len(a) + k \in Len(a) + 1..Len(a) + Len(b) /\ (Len(a) + k) - Len(a) = k
    OBVIOUS
  <2> QED BY <2>1
<1> QED BY <1>1

(* The calls of set_network_address. *)
NetworkLen(o) == IF o.dst = None THEN 8 ELSE 10
NetworkCall == [k \in 1..10 |->
  CASE k \in {1, 5, 7, 9} -> "tungetiff"
    [] k = 2 -> "if_nametoindex"
    [] k = 3 -> "list_all"
    [] k = 4 -> "remove_each"
    [] k = 6 -> "siocsifaddr"
    [] k = 8 -> "siocsifnetmask"
    [] k = 10 -> "siocsifdstaddr"]

(* Its script is these calls, eight of them, or ten with a destination.    *)
LEMMA NetworkScript ==
  ASSUME NEW o, o.kind = "set_network_address"
  PROVE  /\ Script(o) \in Seq(AllCalls) /\ Len(Script(o)) = NetworkLen(o)
         /\ \A k \in 1..NetworkLen(o) : Script(o)[k] = NetworkCall[k]
<1> DEFINE a == remove_all_address_v4
           b == set_address_v4
           c == set_netmask
           d == set_destination
           s == a \o b \o c
<1>1. Script(o) = set_network_address(o.dst)
  BY DEF Script
<1>2. /\ a \in Seq(AllCalls) /\ Len(a) = 4 /\ a[1] = "tungetiff"
      /\ a[2] = "if_nametoindex" /\ a[3] = "list_all" /\ a[4] = "remove_each"
  BY DEF remove_all_address_v4, if_index_impl, AllCalls, ByIndex, Writes
<1>3. b \in Seq(AllCalls) /\ Len(b) = 2 /\ b[1] = "tungetiff" /\ b[2] = "siocsifaddr"
  BY DEF set_address_v4, request, AllCalls, Writes, SetCalls
<1>4. c \in Seq(AllCalls) /\ Len(c) = 2 /\ c[1] = "tungetiff" /\ c[2] = "siocsifnetmask"
  BY DEF set_netmask, request, AllCalls, Writes, SetCalls
<1>5. d \in Seq(AllCalls) /\ Len(d) = 2 /\ d[1] = "tungetiff" /\ d[2] = "siocsifdstaddr"
  BY DEF set_destination, request, AllCalls, Writes, SetCalls
<1>6. Script(o) = IF o.dst = None THEN s \o <<>> ELSE s \o d
  BY <1>1 DEF set_network_address
<1> HIDE DEF a, b, c, d
<1>7. /\ s \in Seq(AllCalls) /\ Len(s) = 8
      /\ s[1] = a[1] /\ s[2] = a[2] /\ s[3] = a[3] /\ s[4] = a[4]
      /\ s[5] = b[1] /\ s[6] = b[2] /\ s[7] = c[1] /\ s[8] = c[2]
  <2> DEFINE ab == a \o b
  <2>1. /\ ab \in Seq(AllCalls) /\ Len(ab) = Len(a) + Len(b)
        /\ \A k \in 1..Len(a) : ab[k] = a[k]
        /\ \A k \in 1..Len(b) : ab[Len(a) + k] = b[k]
    <3>1. a \in Seq(AllCalls) /\ b \in Seq(AllCalls)
      BY <1>2, <1>3
    <3> QED BY <3>1, Concat
  <2> HIDE DEF ab
  <2>2. /\ ab \o c \in Seq(AllCalls) /\ Len(ab \o c) = Len(ab) + Len(c)
        /\ \A k \in 1..Len(ab) : (ab \o c)[k] = ab[k]
        /\ \A k \in 1..Len(c) : (ab \o c)[Len(ab) + k] = c[k]
    <3>1. c \in Seq(AllCalls) /\ ab \in Seq(AllCalls)
      BY <1>4, <2>1
    <3> QED BY <3>1, Concat
  <2>3. s = ab \o c
    BY DEF ab
  <2>4. /\ Len(ab) = 6 /\ ab[1] = a[1] /\ ab[2] = a[2] /\ ab[3] = a[3] /\ ab[4] = a[4]
        /\ ab[4 + 1] = b[1] /\ ab[4 + 2] = b[2]
    BY <1>2, <1>3, <2>1
  <2>5. /\ Len(s) = 8 /\ s[6 + 1] = c[1] /\ s[6 + 2] = c[2]
        /\ \A k \in 1..6 : s[k] = ab[k]
    BY <1>4, <2>2, <2>3, <2>4
  <2> QED BY <2>2, <2>3, <2>4, <2>5
<1> HIDE DEF s
<1>8. \A k \in 1..8 : s[k] = NetworkCall[k]
  BY <1>7, <1>2, <1>3, <1>4 DEF NetworkCall
<1>9. CASE o.dst = None
  BY <1>6, <1>7, <1>8, <1>9 DEF NetworkLen
<1>10. CASE o.dst # None
  <2>1. /\ s \o d \in Seq(AllCalls) /\ Len(s \o d) = 10
        /\ \A k \in 1..8 : (s \o d)[k] = s[k]
        /\ \A k \in 1..2 : (s \o d)[8 + k] = d[k]
    <3>1. /\ s \o d \in Seq(AllCalls) /\ Len(s \o d) = Len(s) + Len(d)
          /\ \A k \in 1..Len(s) : (s \o d)[k] = s[k]
          /\ \A k \in 1..Len(d) : (s \o d)[Len(s) + k] = d[k]
      <4>1. s \in Seq(AllCalls) /\ d \in Seq(AllCalls)
        BY <1>5, <1>7
      <4> QED BY <4>1, Concat
    <3> QED BY <1>5, <1>7, <3>1
  <2>2. NetworkCall[9] = "tungetiff" /\ NetworkCall[10] = "siocsifdstaddr"
    BY DEF NetworkCall
  <2>3. (s \o d)[9] = d[1] /\ (s \o d)[10] = d[2]
    <3>1. 8 + 1 = 9 /\ 8 + 2 = 10 /\ 1 \in 1..2 /\ 2 \in 1..2
      OBVIOUS
    <3>2. (s \o d)[8 + 1] = d[1] /\ (s \o d)[8 + 2] = d[2]
      BY <2>1
    <3> QED BY <3>1, <3>2
  <2>4. (s \o d)[9] = NetworkCall[9] /\ (s \o d)[10] = NetworkCall[10]
    BY <1>5, <2>2, <2>3
  <2>5. ASSUME NEW k \in 1..10 PROVE (s \o d)[k] = NetworkCall[k]
    <3>1. k \in 1..8 \/ k = 9 \/ k = 10
      OBVIOUS
    <3>2. CASE k \in 1..8
      BY <1>8, <2>1, <3>2
    <3> QED BY <2>4, <3>1, <3>2
  <2> QED BY <1>6, <1>10, <2>1, <2>5 DEF NetworkLen
<1> QED BY <1>9, <1>10

(* set_network_address as one of the operations. *)
LEMMA NetworkShape ==
  ASSUME NEW o, o.kind = "set_network_address" PROVE WellScripted(o, Script(o))
<1> DEFINE s == Script(o)
<1>1. /\ s \in Seq(AllCalls) /\ Len(s) \in {8, 10}
      /\ \A k \in 1..Len(s) : s[k] = NetworkCall[k]
  <2>1. NetworkLen(o) \in {8, 10}
    BY DEF NetworkLen
  <2> QED BY <2>1, NetworkScript
<1>2. \A k \in 1..10 : /\ NetworkCall[k] \notin {"siocsifname"} \cup FdCalls
                       /\ LockOf(o) = "write"
  BY DEF NetworkCall, LockOf, Getter, FdCalls
<1>3. NetworkCall[1] = "tungetiff" /\ NetworkCall[2] = "if_nametoindex"
  BY DEF NetworkCall
<1>4. \A k \in 1..10 : NetworkCall[k] \in ByIndex => k > 2
  BY DEF NetworkCall, ByIndex, IndexCalls
<1> HIDE DEF s
<1>5. /\ Len(s) \in Nat /\ 8 <= Len(s) /\ Len(s) <= 10
      /\ 1 \in 1..Len(s) /\ 2 \in 1..Len(s)
      /\ s[1] = "tungetiff" /\ s[2] = "if_nametoindex"
  <2>1. CASE Len(s) = 8
    BY <1>1, <1>3, <2>1
  <2>2. CASE Len(s) = 10
    BY <1>1, <1>3, <2>2
  <2> QED BY <1>1, <2>1, <2>2
<1>6. WellScripted(o, s)
  <2>1. s \in Seq(AllCalls) /\ Len(s) >= 1
    BY <1>1, <1>5
  <2>2. ASSUME NEW k \in 1..Len(s), s[k] \in ByIndex
        PROVE  \E j \in 1..k - 1 : s[j] = "if_nametoindex"
    <3>1. k \in 1..10 /\ s[k] = NetworkCall[k]
      BY <1>1, <1>5
    <3>2. k > 2
      BY <1>4, <2>2, <3>1
    <3>3. 2 \in 1..k - 1
      BY <3>1, <3>2
    <3> QED BY <1>5, <3>3
  <2>3. \A k \in 1..Len(s) : /\ s[k] \notin {"siocsifname"} \cup FdCalls
                             /\ LockOf(o) = "write"
    BY <1>1, <1>2, <1>5
  <2> QED BY <1>5, <2>1, <2>2, <2>3 DEF WellScripted
<1> QED BY <1>6 DEF s

(* The operations on addresses, and addresses(), which takes no lock. *)
LEMMA AddressScript ==
  ASSUME NEW o, o.kind \in Setter \cup {"addresses"},
         o.kind \notin {"set_name", "set_mtu", "set_tx_queue_len", "set_broadcast",
                        "set_mac_address", "enabled", "persist", "user", "group"}
  PROVE  WellScripted(o, Script(o))
<1> USE DEF WellScripted, LockOf, Getter, AllCalls, Writes, ByIndex, SetCalls,
        GetCalls, IndexCalls, FdCalls, request, if_index_impl
<1>1. CASE o.kind = "set_network_address" BY <1>1, NetworkShape
<1>2. CASE o.kind = "add_address_v4" BY <1>2 DEF Script, add_address_v4
<1>3. CASE o.kind = "add_address_v6" BY <1>3 DEF Script, add_address_v6
<1>4. CASE o.kind = "remove_address_v4" BY <1>4 DEF Script, remove_address
<1>5. CASE o.kind = "remove_address" BY <1>5 DEF Script, remove_address
<1>6. CASE o.kind = "remove_address_v6" BY <1>6 DEF Script, remove_address_v6
<1>7. CASE o.kind = "addresses" BY <1>7 DEF Script, addresses
<1> QED BY <1>1, <1>2, <1>3, <1>4, <1>5, <1>6, <1>7 DEF Setter

(* Every operation has a well-formed script. *)
LEMMA ScriptShape ==
  ASSUME NEW o, o.kind \in Kind PROVE WellScripted(o, Script(o))
  BY GetterScript, AttributeScript, AddressScript DEF Kind, Setter

(* The operations that the properties and DeviceBuilder::config are about. *)
LEMMA ShortScripts ==
  ASSUME NEW o
  PROVE  LET s == Script(o) IN
         /\ o.kind = "mtu" => Len(s) = 2 /\ s[1] = "tungetiff" /\ s[2] = "siocgifmtu"
         /\ o.kind = "if_index" => Len(s) = 2 /\ s[1] = "tungetiff" /\ s[2] = "if_nametoindex"
         /\ o.kind = "set_mtu" => Len(s) = 2 /\ s[1] = "tungetiff" /\ s[2] = "siocsifmtu"
         /\ o.kind = "enabled" => /\ Len(s) = 3 /\ s[1] = "tungetiff"
                                  /\ s[2] = "siocgifflags" /\ s[3] = "siocsifflags"
         /\ o.kind = "add_address_v6" => /\ Len(s) = 3 /\ s[1] = "tungetiff"
                                         /\ s[2] = "if_nametoindex"
                                         /\ s[3] = "siocsifaddr_in6"
<1>1. o.kind = "mtu" => Script(o) = mtu
  BY DEF Script
<1>2. o.kind = "if_index" => Script(o) = if_index_impl
  BY DEF Script
<1>3. o.kind = "set_mtu" => Script(o) = set_mtu
  BY DEF Script
<1>4. o.kind = "enabled" => Script(o) = enabled
  BY DEF Script
<1>5. o.kind = "add_address_v6" => Script(o) = add_address_v6
  BY DEF Script
<1>6. /\ Len(mtu) = 2 /\ mtu[1] = "tungetiff" /\ mtu[2] = "siocgifmtu"
      /\ Len(set_mtu) = 2
      /\ set_mtu[1] = "tungetiff" /\ set_mtu[2] = "siocsifmtu"
  BY DEF mtu, set_mtu, request
<1>7. /\ Len(enabled) = 3 /\ enabled[1] = "tungetiff"
      /\ enabled[2] = "siocgifflags" /\ enabled[3] = "siocsifflags"
  BY DEF enabled, request
<1>8. /\ Len(add_address_v6) = 3 /\ add_address_v6[1] = "tungetiff"
      /\ add_address_v6[2] = "if_nametoindex"
      /\ add_address_v6[3] = "siocsifaddr_in6"
  BY DEF add_address_v6, if_index_impl
<1> QED BY <1>1, <1>2, <1>3, <1>4, <1>5, <1>6, <1>7, <1>8 DEF if_index_impl

(***************************************************************************)
(* The inductive invariant.                                                *)
(***************************************************************************)

Args == {o.arg : o \in Op}
        \cup UNION {{c.mtu, c.ipv4, c.enabled} \cup ToSet(c.ipv6) : c \in Config}
Dsts == {o.dst : o \in Op} \cup {c.dst : c \in Config} \cup {None}

OpOk(o) ==
  /\ o.kind \in Kind /\ o.arg \in Args /\ o.dst \in Dsts
  /\ o.kind = "set_name" => o.arg \in Name

(* What DeviceBuilder::config calls with configuration c. *)
ConfigOp(c) ==
  {o \in [kind : {"set_mtu", "set_network_address", "add_address_v6", "enabled"},
          arg : Args, dst : Dsts] :
     /\ o.kind = "set_mtu" => o.arg = c.mtu
     /\ o.kind = "set_network_address" => o.arg = c.ipv4 /\ o.dst = c.dst
     /\ o.kind = "enabled" => o.arg = c.enabled}

V4Address == [addr : Args, mask : {"class", "asked"}, dst : Dsts]
Distinct(v4) == \A k, l \in DOMAIN v4 : v4[k].addr = v4[l].addr => k = l

InterfaceOk(f) ==
  /\ DOMAIN f = {"name", "tun", "attached", "vnet", "mask", "v4", "v6", "attr"}
  /\ f.name \in Name \cup {None}
  /\ f.tun \in BOOLEAN /\ f.attached \in BOOLEAN /\ f.vnet \in BOOLEAN
  /\ f.v4 \in Seq(V4Address) /\ Distinct(f.v4)
  /\ DOMAIN f.attr = Attr

(* The kernel gives a name once, Other is not a TUN, and a TUN that is not *)
(* the device's is one that was made persistent and that nobody has open.  *)
KernelInv ==
  /\ DOMAIN ifs = Index /\ \A i \in Index : InterfaceOk(ifs[i])
  /\ \A i, j \in Index : Present(i) /\ ifs[i].name = ifs[j].name => i = j
  /\ Present(Other) /\ ~ifs[Other].tun
  /\ \A i \in Index \ {dev.own} :
       ifs[i].tun => ~ifs[i].attached /\ ifs[i].attr["persist"] = 1

DevInv ==
  /\ DOMAIN dev = {"phase", "own", "config", "vnet_hdr", "udp_gso", "warned", "adopted",
                   "plan", "by"}
  /\ dev.phase \in {"none", "opened", "attached", "config", "ready", "raw"}
  /\ dev.own = 0 <=> dev.phase \in {"none", "opened"}
  /\ dev.own # 0 => dev.own \in Index /\ Present(dev.own) /\ Own.tun /\ Own.attached
  /\ dev.phase \in {"opened", "attached"} => dev.config \in Config
  /\ dev.phase = "config" => dev.plan \in Seq(ConfigOp(dev.config))
  /\ dev.phase = "attached" => Own.vnet = dev.config.offload

(* How many calls of its operation a thread has behind it. *)
Made(t) == Len(Script(th[t].op)) - Len(th[t].todo)

ProgressInv ==
  /\ DOMAIN th = Thread
  /\ \A t \in Thread :
       /\ DOMAIN th[t] = {"op", "todo", "req", "idx", "left", "ret"}
       /\ ~Idle(t) =>
            /\ OpOk(th[t].op)
            /\ th[t].todo \in Seq(AllCalls) /\ Len(th[t].todo) >= 1 /\ Made(t) \in Nat
            /\ \A k \in 1..Len(th[t].todo) :
                 th[t].todo[k] = Script(th[t].op)[Made(t) + k]

(* op_lock, and who may use the device while it is being built. *)
LockInv ==
  /\ \A t, u \in Thread : t # u /\ ~Idle(t) /\ ~Idle(u) =>
       \/ "none" \in {LockOf(th[t].op), LockOf(th[u].op)}
       \/ LockOf(th[t].op) = "read" /\ LockOf(th[u].op) = "read"
  /\ \A t \in Thread : ~Idle(t) =>
       /\ dev.phase \in {"config", "ready"}
       /\ dev.phase = "config" => t = dev.by /\ th[t].op \in ConfigOp(dev.config)

(* An operation that holds the lock has the name and the index that are    *)
(* the interface's now.                                                    *)
Locked(t) == ~Idle(t) /\ LockOf(th[t].op) # "none"
HasIndex(t) == \E j \in 1..Made(t) : Script(th[t].op)[j] = "if_nametoindex"

NameInv ==
  \A t \in Thread : Locked(t) =>
    /\ Made(t) > 0 => th[t].req = Own.name
    /\ HasIndex(t) => th[t].idx = dev.own

(* How far set_network_address has got with the IPv4 addresses, which no   *)
(* other thread changes.                                                   *)
NetworkInv ==
  \A t \in Thread : ~Idle(t) /\ th[t].op.kind = "set_network_address" =>
    /\ Made(t) = 3 => th[t].left = AddrsV4(Own)
    /\ Made(t) \in {4, 5} => Own.v4 = <<>>
    /\ Made(t) \in {6, 7} => Own.v4 = <<V4(th[t].op.arg)>>
    /\ Made(t) \in {8, 9} => Own.v4 = <<[V4(th[t].op.arg) EXCEPT !.mask = "asked"]>>

(* Whatever the builder was told is in force, or config has yet to call    *)
(* the operation for it, or is in the middle of it.                        *)
Pending(kind, arg) ==
  \/ \E k \in DOMAIN dev.plan : dev.plan[k].kind = kind /\ dev.plan[k].arg = arg
  \/ \E t \in Thread : ~Idle(t) /\ th[t].op.kind = kind /\ th[t].op.arg = arg

ConfigInv ==
  LET c == dev.config IN
  /\ dev.phase \in {"attached", "config"} => (c.name # None => Own.name = c.name)
  /\ dev.phase = "config" =>
       /\ c.mtu # None => Own.attr["mtu"] = c.mtu \/ Pending("set_mtu", c.mtu)
       /\ c.ipv4 # None =>
            \/ Own.v4 = <<[addr |-> c.ipv4, mask |-> "asked", dst |-> c.dst]>>
            \/ Pending("set_network_address", c.ipv4)
       /\ \A k \in DOMAIN c.ipv6 :
            c.ipv6[k] \in Own.v6 \/ Pending("add_address_v6", c.ipv6[k])
       /\ c.enabled # None => Own.attr["up"] = c.enabled \/ Pending("enabled", c.enabled)

IInv == /\ KernelInv /\ DevInv /\ ProgressInv /\ LockInv /\ NameInv
        /\ OffloadAgrees /\ NetworkInv /\ ConfigInv

-----------------------------------------------------------------------------
(* Addresses. *)

(* The first address goes, a new one comes behind the others. *)
LEMMA Rotate ==
  ASSUME NEW s \in Seq(V4Address), Distinct(s), s # <<>>, NEW e \in V4Address,
         \A k \in 2..Len(s) : s[k].addr # e.addr
  PROVE  Append(Tail(s), e) \in Seq(V4Address) /\ Distinct(Append(Tail(s), e))
<1> DEFINE r == Append(Tail(s), e)
<1>1. /\ r \in Seq(V4Address) /\ Len(r) = Len(s) /\ r[Len(s)] = e
      /\ \A k \in 1..Len(s) - 1 : r[k] = s[k + 1]
  OBVIOUS
<1> HIDE DEF r
<1>2. ASSUME NEW k \in 1..Len(s), NEW l \in 1..Len(s), r[k].addr = r[l].addr PROVE k = l
  <2>1. CASE k = Len(s) /\ l # Len(s)
    BY <1>1, <1>2, <2>1
  <2>2. CASE l = Len(s) /\ k # Len(s)
    BY <1>1, <1>2, <2>2
  <2>3. CASE k # Len(s) /\ l # Len(s)
    <3>1. r[k] = s[k + 1] /\ r[l] = s[l + 1] /\ k + 1 \in DOMAIN s /\ l + 1 \in DOMAIN s
      BY <1>1, <2>3
    <3> QED BY <1>2, <3>1 DEF Distinct
  <2> QED BY <2>1, <2>2, <2>3
<1>3. DOMAIN r = 1..Len(s)
  BY <1>1
<1> QED BY <1>1, <1>2, <1>3 DEF Distinct, r

(* A new address comes behind all the others. *)
LEMMA AppendDistinct ==
  ASSUME NEW s \in Seq(V4Address), Distinct(s), NEW e \in V4Address,
         \A k \in DOMAIN s : s[k].addr # e.addr
  PROVE  Append(s, e) \in Seq(V4Address) /\ Distinct(Append(s, e))
<1> DEFINE r == Append(s, e)
<1>1. /\ r \in Seq(V4Address) /\ DOMAIN r = 1..Len(s) + 1 /\ r[Len(s) + 1] = e
      /\ \A k \in 1..Len(s) : r[k] = s[k]
  OBVIOUS
<1> HIDE DEF r
<1>2. Distinct(r)
  BY <1>1 DEF Distinct
<1> QED BY <1>1, <1>2 DEF r

(* One address of the list is deleted. *)
LEMMA RemoveAddress ==
  ASSUME NEW s \in Seq(V4Address), Distinct(s), NEW i \in DOMAIN s
  PROVE  /\ RemoveAt(s, i) \in Seq(V4Address) /\ Distinct(RemoveAt(s, i))
         /\ {RemoveAt(s, i)[k].addr : k \in DOMAIN RemoveAt(s, i)}
              = {s[k].addr : k \in DOMAIN s} \ {s[i].addr}
<1> DEFINE a == SubSeq(s, 1, i - 1)
           b == SubSeq(s, i + 1, Len(s))
           r == a \o b
<1>1. a \in Seq(V4Address) /\ Len(a) = i - 1 /\ \A k \in 1..i - 1 : a[k] = s[k]
  OBVIOUS
<1>2. b \in Seq(V4Address) /\ Len(b) = Len(s) - i /\ \A k \in 1..Len(s) - i : b[k] = s[k + i]
  OBVIOUS
<1>3. RemoveAt(s, i) = r
  BY DEF RemoveAt
<1>4. /\ r \in Seq(V4Address) /\ Len(r) = Len(a) + Len(b)
      /\ \A k \in 1..Len(a) : r[k] = a[k]
      /\ \A k \in 1..Len(b) : r[Len(a) + k] = b[k]
  <2> HIDE DEF a, b
  <2>1. a \in Seq(V4Address) /\ b \in Seq(V4Address)
    BY <1>1, <1>2
  <2> QED BY <2>1, Concat
<1> HIDE DEF a, b, r
<1>5. DOMAIN r = 1..Len(s) - 1
  BY <1>1, <1>2, <1>4
<1>6. ASSUME NEW k \in 1..Len(s) - 1
      PROVE  r[k] = IF k < i THEN s[k] ELSE s[k + 1]
  <2>1. CASE k < i
    BY <1>1, <1>4, <2>1
  <2>2. CASE ~(k < i)
    <3>1. /\ k - (i - 1) \in 1..Len(s) - i /\ (i - 1) + (k - (i - 1)) = k
          /\ (k - (i - 1)) + i = k + 1
      BY <2>2
    <3>2. r[(i - 1) + (k - (i - 1))] = b[k - (i - 1)]
      BY <1>1, <1>2, <1>4, <3>1
    <3>3. b[k - (i - 1)] = s[(k - (i - 1)) + i]
      BY <1>2, <3>1
    <3> QED BY <2>2, <3>1, <3>2, <3>3
  <2> QED BY <2>1, <2>2
<1>7. Distinct(r)
  <2> SUFFICES ASSUME NEW k \in 1..Len(s) - 1, NEW l \in 1..Len(s) - 1, r[k].addr = r[l].addr
               PROVE  k = l
    BY <1>5 DEF Distinct
  <2> DEFINE at(x) == IF x < i THEN x ELSE x + 1
  <2>1. at(k) \in DOMAIN s /\ at(l) \in DOMAIN s /\ r[k] = s[at(k)] /\ r[l] = s[at(l)]
    BY <1>6
  <2>2. at(k) = at(l)
    BY <2>1 DEF Distinct
  <2> QED BY <2>2
<1>8. ASSUME NEW k \in DOMAIN r PROVE \E l \in DOMAIN s : l # i /\ s[l].addr = r[k].addr
  <2>1. CASE k < i
    BY <1>5, <1>6, <2>1
  <2>2. CASE ~(k < i)
    <3>1. k + 1 \in DOMAIN s /\ k + 1 # i /\ r[k] = s[k + 1]
      BY <1>5, <1>6, <2>2
    <3> QED BY <3>1
  <2> QED BY <2>1, <2>2
<1>9. ASSUME NEW l \in DOMAIN s, l # i PROVE \E k \in DOMAIN r : s[l].addr = r[k].addr
  <2>1. CASE l < i
    BY <1>5, <1>6, <2>1
  <2>2. CASE ~(l < i)
    <3>1. l - 1 \in DOMAIN r /\ r[l - 1] = s[(l - 1) + 1] /\ (l - 1) + 1 = l
      BY <1>5, <1>6, <1>9, <2>2
    <3> QED BY <3>1
  <2> QED BY <2>1, <2>2
<1>10. {r[k].addr : k \in DOMAIN r} = {s[k].addr : k \in DOMAIN s} \ {s[i].addr}
  BY <1>8, <1>9 DEF Distinct
<1> QED BY <1>3, <1>4, <1>7, <1>10

(* What a call that succeeds leaves alone, and that its interface is still *)
(* well formed.                                                            *)
LEMMA WrittenOk ==
  ASSUME NEW f, InterfaceOk(f), NEW o, OpOk(o),
         NEW c \in SetCalls \cup IndexCalls \cup FdCalls,
         c = "siocsifname" => o.kind = "set_name", ~Refused(f, c, o)
  PROVE  LET g == Written(f, c, o) IN
         /\ InterfaceOk(g)
         /\ g.tun = f.tun /\ g.attached = f.attached /\ g.vnet = f.vnet /\ g.mask = f.mask
         /\ c = "siocsifname" => g.name = o.arg /\ o.arg \in Name
         /\ c # "siocsifname" => g.name = f.name
<1> DEFINE g == Written(f, c, o)
<1>0. V4(o.arg) \in V4Address /\ V4(o.arg).addr = o.arg
  BY DEF OpOk, V4Address, V4, Dsts
<1>1. CASE c = "siocsifname"
  <2>1. g = [f EXCEPT !.name = o.arg]
    BY <1>1 DEF Written
  <2> QED BY <1>1, <2>1 DEF InterfaceOk, OpOk
<1>2. CASE c = "siocsifaddr"
  <2>1. g = [f EXCEPT !.v4 = Append(Rest(f.v4), V4(o.arg))]
    BY <1>2 DEF Written
  <2>2. CASE f.v4 = <<>>
    <3>1. Append(Rest(f.v4), V4(o.arg)) = <<V4(o.arg)>>
      BY <2>2 DEF Rest
    <3>2. <<V4(o.arg)>> \in Seq(V4Address) /\ Distinct(<<V4(o.arg)>>)
      BY <1>0 DEF Distinct
    <3> QED BY <1>2, <2>1, <3>1, <3>2 DEF InterfaceOk
  <2>3. CASE f.v4 # <<>>
    <3>1. \A k \in 2..Len(f.v4) : f.v4[k].addr # o.arg
      BY <1>2 DEF Refused
    <3>2. /\ Append(Tail(f.v4), V4(o.arg)) \in Seq(V4Address)
          /\ Distinct(Append(Tail(f.v4), V4(o.arg)))
      BY <1>0, <2>3, <3>1, Rotate DEF InterfaceOk
    <3>3. g = [f EXCEPT !.v4 = Append(Tail(f.v4), V4(o.arg))]
      BY <2>1, <2>3 DEF Rest
    <3> QED BY <1>2, <3>2, <3>3 DEF InterfaceOk
  <2> QED BY <2>2, <2>3
<1>3. CASE c \in {"siocsifnetmask", "siocsifdstaddr"}
  <2> DEFINE e == IF c = "siocsifnetmask" THEN [Head(f.v4) EXCEPT !.mask = "asked"]
                                          ELSE [Head(f.v4) EXCEPT !.dst = o.dst]
  <2>1. f.v4 # <<>> /\ f.v4 \in Seq(V4Address) /\ Distinct(f.v4)
    BY <1>3 DEF Refused, InterfaceOk
  <2>2. Head(f.v4) \in V4Address /\ Head(f.v4) = f.v4[1]
    BY <2>1
  <2>3. e \in V4Address /\ e.addr = f.v4[1].addr
    BY <2>2 DEF V4Address, OpOk
  <2>4. \A k \in 2..Len(f.v4) : f.v4[k].addr # e.addr
    BY <2>1, <2>3 DEF Distinct
  <2>5. g = [f EXCEPT !.v4 = Append(Tail(f.v4), e)]
    BY <1>3 DEF Written
  <2> HIDE DEF e
  <2>6. Append(Tail(f.v4), e) \in Seq(V4Address) /\ Distinct(Append(Tail(f.v4), e))
    BY <2>1, <2>3, <2>4, Rotate
  <2> QED BY <1>3, <2>5, <2>6 DEF InterfaceOk
<1>4. CASE c = "add_address"
  <2> DEFINE e == [V4(o.arg) EXCEPT !.mask = "asked"]
  <2>1. g = [f EXCEPT !.v4 = Append(f.v4, e)]
    BY <1>4 DEF Written
  <2>2. e \in V4Address /\ e.addr = o.arg
    BY <1>0 DEF V4Address, V4
  <2>3. \A k \in DOMAIN f.v4 : f.v4[k].addr # e.addr
    BY <1>4, <2>2 DEF Refused, AddrsV4
  <2> HIDE DEF e
  <2>4. Append(f.v4, e) \in Seq(V4Address) /\ Distinct(Append(f.v4, e))
    BY <2>2, <2>3, AppendDistinct DEF InterfaceOk
  <2> QED BY <1>4, <2>1, <2>4 DEF InterfaceOk
<1>5. CASE c \in {"siocsifaddr_in6", "siocdifaddr_in6"}
  <2>1. \E v6 : g = [f EXCEPT !.v6 = v6]
    BY <1>5 DEF Written
  <2> QED BY <1>5, <2>1 DEF InterfaceOk
<1>6. CASE c \notin {"siocsifname", "siocsifaddr", "siocsifnetmask", "siocsifdstaddr",
                     "add_address", "siocsifaddr_in6", "siocdifaddr_in6"}
  <2>1. g = [f EXCEPT !.attr[AttrOf[c]] = o.arg]
    BY <1>6 DEF Written
  <2> QED BY <1>6, <2>1 DEF InterfaceOk
<1> QED BY <1>1, <1>2, <1>3, <1>4, <1>5, <1>6

(* What the calls of DeviceBuilder::config write. *)
LEMMA WrittenConfig ==
  ASSUME NEW f, InterfaceOk(f), NEW o
  PROVE  /\ LET g == Written(f, "siocsifmtu", o) IN
            /\ g.attr["mtu"] = o.arg /\ g.attr["up"] = f.attr["up"]
            /\ g.v4 = f.v4 /\ g.v6 = f.v6
         /\ LET g == Written(f, "siocsifflags", o) IN
            /\ g.attr["up"] = o.arg /\ g.attr["mtu"] = f.attr["mtu"]
            /\ g.v4 = f.v4 /\ g.v6 = f.v6
         /\ LET g == Written(f, "siocsifaddr_in6", o) IN
            g.v6 = f.v6 \cup {o.arg} /\ g.v4 = f.v4 /\ g.attr = f.attr
         /\ \A c \in {"siocsifaddr", "siocsifnetmask", "siocsifdstaddr"} :
              Written(f, c, o).v6 = f.v6 /\ Written(f, c, o).attr = f.attr
<1>1. Written(f, "siocsifmtu", o) = [f EXCEPT !.attr["mtu"] = o.arg]
  BY DEF Written, AttrOf
<1>2. Written(f, "siocsifflags", o) = [f EXCEPT !.attr["up"] = o.arg]
  BY DEF Written, AttrOf
<1>3. Written(f, "siocsifaddr_in6", o) = [f EXCEPT !.v6 = @ \cup {o.arg}]
  BY DEF Written
<1>4. ASSUME NEW c \in {"siocsifaddr", "siocsifnetmask", "siocsifdstaddr"}
      PROVE  Written(f, c, o).v6 = f.v6 /\ Written(f, c, o).attr = f.attr
  <2>1. \E v4 : Written(f, c, o) = [f EXCEPT !.v4 = v4]
    BY DEF Written
  <2> QED BY <2>1 DEF InterfaceOk
<1> QED BY <1>1, <1>2, <1>3, <1>4 DEF InterfaceOk, Attr

(* What the calls of set_network_address make of the list of addresses. *)
LEMMA WrittenNetwork ==
  ASSUME NEW f, InterfaceOk(f), NEW o
  PROVE  /\ f.v4 = <<>> => Written(f, "siocsifaddr", o).v4 = <<V4(o.arg)>>
         /\ \A e : f.v4 = <<e>> =>
              Written(f, "siocsifnetmask", o).v4 = <<[e EXCEPT !.mask = "asked"]>>
         /\ \A e : f.v4 = <<e>> =>
              Written(f, "siocsifdstaddr", o).v4 = <<[e EXCEPT !.dst = o.dst]>>
<1>1. /\ Written(f, "siocsifaddr", o).v4 = Append(Rest(f.v4), V4(o.arg))
      /\ Written(f, "siocsifnetmask", o).v4
           = Append(Tail(f.v4), [Head(f.v4) EXCEPT !.mask = "asked"])
      /\ Written(f, "siocsifdstaddr", o).v4
           = Append(Tail(f.v4), [Head(f.v4) EXCEPT !.dst = o.dst])
  BY DEF Written, InterfaceOk
<1>2. \A x : Append(<<>>, x) = <<x>>
  OBVIOUS
<1>3. \A e : Tail(<<e>>) = <<>> /\ Head(<<e>>) = e
  OBVIOUS
<1> QED BY <1>1, <1>2, <1>3 DEF Rest

-----------------------------------------------------------------------------
(* Threads. *)

ThreadFields == {"op", "todo", "req", "idx", "left", "ret"}

(* The steps a thread can make: only it moves, and it returns, goes on to  *)
(* the next call, or makes the same one again.                             *)
Alone(t) == DOMAIN th' = Thread /\ \A u \in Thread \ {t} : th'[u] = th[u]
Leaves(t) == Alone(t) /\ \E r : th'[t] = IdleThread(r)
Stays(t) == /\ Alone(t) /\ ~Idle(t) /\ DOMAIN th'[t] = ThreadFields
            /\ th'[t].op = th[t].op /\ th'[t].todo = th[t].todo
GoesOn(t) == /\ Alone(t) /\ ~Idle(t) /\ DOMAIN th'[t] = ThreadFields
             /\ Len(th[t].todo) > 1
             /\ th'[t].op = th[t].op /\ th'[t].todo = Tail(th[t].todo)

(* A thread that returns is idle. *)
LEMMA LeavesIdle ==
  ASSUME NEW t \in Thread, Leaves(t)
  PROVE  Alone(t) /\ Idle(t)' /\ ~Stays(t) /\ ~GoesOn(t) /\ DOMAIN th'[t] = ThreadFields
<1>1. Alone(t) /\ th'[t].op = NoOp /\ DOMAIN th'[t] = ThreadFields
  BY DEF Leaves, IdleThread, ThreadFields
<1> QED BY <1>1 DEF Idle, Stays, GoesOn

(* The sequence of length 0. *)
LEMMA EmptyIfNoLength ==
  ASSUME NEW S, NEW s \in Seq(S), Len(s) = 0 PROVE s = <<>>
  OBVIOUS

(* A list of no elements. *)
LEMMA EmptyDomain ==
  ASSUME NEW S, NEW s \in Seq(S), DOMAIN s = {} PROVE s = <<>>
<1> DEFINE n == Len(s)
<1>1. n \in Nat /\ DOMAIN s = 1..n
  OBVIOUS
<1> HIDE DEF n
<1>2. n = 0
  <2>1. 1..n = {}
    BY <1>1
  <2>2. n >= 1 => 1 \in 1..n
    BY <1>1
  <2> QED BY <1>1, <2>1, <2>2
<1> QED BY <1>2, EmptyIfNoLength DEF n

(* Counting the calls that are left. *)
LEMMA Countdown ==
  ASSUME NEW a \in Nat, NEW b \in Nat, NEW c \in Nat, a = b - c
  PROVE  (a = 1 => c + 1 = b) /\ (a > 1 => c + 1 < b)
  OBVIOUS

(* What is left when the first call has been made. *)
LEMMA TailOf ==
  ASSUME NEW S, NEW s \in Seq(S), Len(s) >= 1
  PROVE  /\ Tail(s) \in Seq(S) /\ Len(Tail(s)) = Len(s) - 1
         /\ \A k \in 1..Len(s) - 1 : Tail(s)[k] = s[k + 1]
         /\ Tail(s) = <<>> <=> Len(s) = 1
         /\ Tail(s) # s
<1>0. Len(s) \in Nat
  OBVIOUS
<1>1. /\ Tail(s) \in Seq(S) /\ Len(Tail(s)) = Len(s) - 1
      /\ \A k \in 1..Len(s) - 1 : Tail(s)[k] = s[k + 1]
  OBVIOUS
<1> DEFINE m == Len(Tail(s))
           n == Len(s)
<1>10. n \in Nat /\ m = n - 1
  BY <1>0, <1>1
<1>2. ASSUME Len(s) = 1 PROVE Tail(s) = <<>>
  <2>1. Tail(s) \in Seq(S) /\ Len(Tail(s)) = 0
    BY <1>1, <1>2
  <2> QED BY <2>1, EmptyIfNoLength
<1>3. ASSUME Tail(s) = <<>> PROVE Len(s) = 1
  <2>1. Len(<<>>) = 0
    OBVIOUS
  <2>2. Len(Tail(s)) = 0
    BY <1>3, <2>1
  <2> HIDE DEF m, n
  <2>3. m = 0 => n = 1
    BY <1>10
  <2> QED BY <2>2, <2>3 DEF m, n
<1>4. Len(Tail(s)) # Len(s)
  <2> HIDE DEF m, n
  <2>1. m # n
    BY <1>10
  <2> QED BY <2>1 DEF m, n
<1>5. Tail(s) # s
  BY <1>4
<1> QED BY <1>1, <1>2, <1>3, <1>5

(* What the current call of an operation can be. *)
LEMMA CurrentCall ==
  ASSUME ProgressInv, NEW t \in Thread, ~Idle(t)
  PROVE  LET s == Script(th[t].op)
             c == Head(th[t].todo)
         IN  /\ OpOk(th[t].op)
             /\ Made(t) \in Nat /\ Len(s) \in Nat /\ Made(t) + 1 \in 1..Len(s)
             /\ Len(th[t].todo) \in Nat /\ Len(th[t].todo) = Len(s) - Made(t)
             /\ c = s[Made(t) + 1] /\ c \in AllCalls
             /\ Made(t) = 0 => c \in {"tungetiff"} \cup FdCalls
             /\ c \in ByIndex => HasIndex(t)
             /\ c \in FdCalls => Made(t) + 1 = Len(s)
             /\ c = "siocsifname" => Made(t) + 1 = Len(s) /\ th[t].op.kind = "set_name"
             /\ c \in Writes => LockOf(th[t].op) = "write"
<1> DEFINE s == Script(th[t].op)
           m == Made(t)
           c == Head(th[t].todo)
<1>1. OpOk(th[t].op) /\ WellScripted(th[t].op, s)
  BY ScriptShape DEF ProgressInv, OpOk
<1>2. /\ th[t].todo \in Seq(AllCalls) /\ Len(th[t].todo) >= 1 /\ m \in Nat
      /\ \A k \in 1..Len(th[t].todo) : th[t].todo[k] = s[m + k]
  BY DEF ProgressInv
<1>3. Len(s) \in Nat /\ m = Len(s) - Len(th[t].todo)
  BY <1>1 DEF Made, WellScripted
<1>4. m + 1 \in 1..Len(s)
  BY <1>2, <1>3
<1>5. c = th[t].todo[1] /\ c = s[m + 1] /\ c \in AllCalls
  BY <1>2
<1>6. m = 0 => c \in {"tungetiff"} \cup FdCalls
  BY <1>1, <1>5 DEF WellScripted
<1>7. c \in ByIndex => HasIndex(t)
  <2>1. ASSUME c \in ByIndex PROVE HasIndex(t)
    <3> HIDE DEF s, m, c
    <3>1. PICK j \in 1..(m + 1) - 1 : s[j] = "if_nametoindex"
      BY <1>1, <1>4, <1>5, <2>1 DEF WellScripted
    <3>2. (m + 1) - 1 = m
      BY <1>2
    <3> QED BY <3>1, <3>2 DEF HasIndex, s, m
  <2> QED BY <2>1
<1>8. c = "siocsifname" => m + 1 = Len(s) /\ th[t].op.kind = "set_name"
  BY <1>1, <1>4, <1>5 DEF WellScripted
<1>9. c \in Writes => LockOf(th[t].op) = "write"
  BY <1>1, <1>4, <1>5 DEF WellScripted
<1>10. Len(th[t].todo) = Len(s) - m /\ Len(th[t].todo) \in Nat
  BY <1>2, <1>3
<1>11. c \in FdCalls => m + 1 = Len(s)
  <2>1. c \in FdCalls => Len(s) = 1
    BY <1>1, <1>4, <1>5 DEF WellScripted
  <2> DEFINE n == Len(s)
  <2>2. n \in Nat /\ m \in Nat /\ m + 1 \in 1..n
    BY <1>2, <1>3, <1>4
  <2> HIDE DEF m, n
  <2>3. n = 1 => m + 1 = n
    BY <2>2
  <2> QED BY <2>1, <2>3 DEF n
<1> HIDE DEF s, m, c
<1> QED BY <1>1, <1>2, <1>3, <1>4, <1>5, <1>6, <1>7, <1>8, <1>9, <1>10, <1>11 DEF s, m, c

(* Advance: on to the next call, with what n records, or back to the       *)
(* caller with x.                                                          *)
LEMMA AdvanceEffect ==
  ASSUME ProgressInv, NEW t \in Thread, ~Idle(t), NEW n, NEW x, Advance(t, n, x),
         DOMAIN n = ThreadFields, n.op = th[t].op, n.todo = th[t].todo
  PROVE  \/ /\ Leaves(t) /\ Made(t) + 1 = Len(Script(th[t].op))
            /\ th'[t] = IdleThread([x EXCEPT !.ok = TRUE])
         \/ /\ GoesOn(t) /\ Made(t) + 1 < Len(Script(th[t].op))
            /\ th'[t] = [n EXCEPT !.todo = Tail(th[t].todo)]
<1>1. /\ th[t].todo \in Seq(AllCalls) /\ Len(th[t].todo) \in Nat /\ Len(th[t].todo) >= 1
      /\ Made(t) \in Nat /\ Len(th[t].todo) = Len(Script(th[t].op)) - Made(t)
      /\ Len(Script(th[t].op)) \in Nat
  BY CurrentCall DEF ProgressInv
<1>2. Tail(th[t].todo) = <<>> <=> Len(th[t].todo) = 1
  BY <1>1, TailOf
<1>3. DOMAIN th = Thread /\ DOMAIN th[t] = ThreadFields
  BY DEF ProgressInv, ThreadFields
<1>4. CASE Len(th[t].todo) = 1
  <2>1. th' = [th EXCEPT ![t] = IdleThread([x EXCEPT !.ok = TRUE])]
    BY <1>2, <1>4 DEF Advance
  <2>2. Made(t) + 1 = Len(Script(th[t].op))
    BY <1>1, <1>4, Countdown
  <2> QED BY <1>3, <2>1, <2>2 DEF Leaves, Alone
<1>5. CASE Len(th[t].todo) # 1
  <2>1. th' = [th EXCEPT ![t] = [n EXCEPT !.todo = Tail(th[t].todo)]]
    BY <1>2, <1>5 DEF Advance
  <2>2. Len(th[t].todo) > 1 /\ Made(t) + 1 < Len(Script(th[t].op))
    <3>1. Len(th[t].todo) > 1
      BY <1>1, <1>5
    <3> QED BY <1>1, <3>1, Countdown
  <2>3. Alone(t) /\ th'[t] = [n EXCEPT !.todo = Tail(th[t].todo)]
    BY <1>3, <2>1 DEF Alone
  <2>4. GoesOn(t)
    BY <2>2, <2>3 DEF GoesOn, ThreadFields
  <2> QED BY <2>2, <2>3, <2>4
<1> QED BY <1>4, <1>5

(* Each of the three moves keeps a thread's place in its script; one more  *)
(* call is behind it when it goes on.                                      *)
LEMMA ProgressKept ==
  ASSUME ProgressInv, NEW t \in Thread, Leaves(t) \/ Stays(t) \/ GoesOn(t)
  PROVE  /\ ProgressInv'
         /\ Stays(t) => Made(t)' = Made(t)
         /\ GoesOn(t) => Made(t)' = Made(t) + 1 /\ Made(t)' \in 1..Len(Script(th[t].op)) - 1
<1>0. Alone(t) /\ DOMAIN th'[t] = ThreadFields
  BY DEF Leaves, Stays, GoesOn, IdleThread, ThreadFields
<1>1. ASSUME NEW u \in Thread, u # t
      PROVE  /\ DOMAIN th'[u] = ThreadFields
             /\ ~Idle(u)' =>
                  /\ OpOk(th'[u].op)
                  /\ th'[u].todo \in Seq(AllCalls) /\ Len(th'[u].todo) >= 1 /\ Made(u)' \in Nat
                  /\ \A k \in 1..Len(th'[u].todo) :
                       th'[u].todo[k] = Script(th'[u].op)[Made(u)' + k]
  <2>1. th'[u] = th[u] /\ Made(u)' = Made(u) /\ (Idle(u)' <=> Idle(u))
    BY <1>0, <1>1 DEF Alone, Made, Idle
  <2> QED BY <2>1 DEF ProgressInv, ThreadFields
<1>2. CASE Leaves(t)
  <2>1. Idle(t)'
    BY <1>2, LeavesIdle
  <2>2. ~Stays(t) /\ ~GoesOn(t)
    BY <1>2, LeavesIdle
  <2> QED BY <1>0, <1>1, <2>1, <2>2 DEF ProgressInv, ThreadFields, Alone
<1>3. CASE Stays(t)
  <2>1. Made(t)' = Made(t) /\ ~Idle(t) /\ th'[t].op = th[t].op /\ th'[t].todo = th[t].todo
    BY <1>3 DEF Stays, Made
  <2>2. ~GoesOn(t)
    <3>1. th[t].todo \in Seq(AllCalls)
      BY <2>1 DEF ProgressInv
    <3>2. ASSUME Len(th[t].todo) > 1 PROVE Tail(th[t].todo) # th[t].todo
      <4>1. Len(th[t].todo) \in Nat /\ Len(th[t].todo) >= 1
        BY <3>1, <3>2
      <4> QED BY <3>1, <4>1, TailOf
    <3> QED BY <2>1, <3>2 DEF GoesOn
  <2> QED BY <1>0, <1>1, <2>1, <2>2 DEF ProgressInv, ThreadFields, Alone
<1>4. CASE GoesOn(t)
  <2> DEFINE q == th[t].todo
  <2>1. /\ ~Idle(t) /\ th'[t].op = th[t].op /\ th'[t].todo = Tail(q) /\ Len(q) > 1
        /\ q \in Seq(AllCalls) /\ Made(t) \in Nat /\ Len(q) \in Nat
        /\ Len(Script(th[t].op)) \in Nat /\ Len(q) = Len(Script(th[t].op)) - Made(t)
        /\ \A k \in 1..Len(q) : q[k] = Script(th[t].op)[Made(t) + k]
        /\ OpOk(th[t].op)
    BY <1>4, CurrentCall DEF GoesOn, ProgressInv
  <2>2. /\ Tail(q) \in Seq(AllCalls) /\ Len(Tail(q)) = Len(q) - 1
        /\ \A k \in 1..Len(q) - 1 : Tail(q)[k] = q[k + 1]
    BY <2>1
  <2>3. Made(t)' = Len(Script(th[t].op)) - (Len(q) - 1)
    BY <2>1, <2>2 DEF Made
  <2> HIDE DEF q
  <2>4. Made(t)' = Made(t) + 1 /\ Made(t)' \in 1..Len(Script(th[t].op)) - 1
    BY <2>1, <2>3
  <2>5. \A k \in 1..Len(q) - 1 : Tail(q)[k] = Script(th[t].op)[Made(t)' + k]
    <3>1. ASSUME NEW k \in 1..Len(q) - 1 PROVE Tail(q)[k] = Script(th[t].op)[Made(t)' + k]
      <4>1. k + 1 \in 1..Len(q) /\ Made(t) + (k + 1) = Made(t)' + k
        BY <2>1, <2>4
      <4> QED BY <2>1, <2>2, <4>1
    <3> QED BY <3>1
  <2>6. ~Stays(t)
    <3>1. Tail(q) # q
      BY <2>1, TailOf
    <3> QED BY <2>1, <3>1 DEF Stays, q
  <2>7. /\ DOMAIN th'[t] = ThreadFields /\ OpOk(th'[t].op)
        /\ th'[t].todo \in Seq(AllCalls) /\ Len(th'[t].todo) >= 1 /\ Made(t)' \in Nat
        /\ \A k \in 1..Len(th'[t].todo) :
             th'[t].todo[k] = Script(th'[t].op)[Made(t)' + k]
    <3>1. Len(q) - 1 >= 1 /\ Made(t)' \in Nat
      BY <2>1, <2>4
    <3>2. th'[t].todo = Tail(q) /\ th'[t].op = th[t].op
      BY <2>1 DEF q
    <3> QED BY <1>0, <2>1, <2>2, <2>5, <3>1, <3>2
  <2>8. DOMAIN th' = Thread
    BY <1>0 DEF Alone
  <2>9. ProgressInv'
    BY <1>1, <2>7, <2>8 DEF ProgressInv, ThreadFields
  <2> QED BY <2>4, <2>6, <2>9
<1> QED BY <1>2, <1>3, <1>4

(* A thread that goes on does not stay. *)
LEMMA MovesOnce ==
  ASSUME ProgressInv, NEW t \in Thread PROVE ~(Stays(t) /\ GoesOn(t))
<1>1. GoesOn(t) => Made(t)' = Made(t) + 1 /\ Made(t) \in Nat
  BY ProgressKept, CurrentCall DEF GoesOn
<1>2. Stays(t) => Made(t)' = Made(t)
  BY ProgressKept
<1> QED BY <1>1, <1>2

(* Nothing but the thread has changed, so the lock is held as before.      *)
LEMMA LockKept ==
  ASSUME LockInv, NEW t \in Thread, Leaves(t) \/ Stays(t) \/ GoesOn(t), dev' = dev
  PROVE  LockInv'
<1>1. ASSUME NEW u \in Thread PROVE ~Idle(u)' => ~Idle(u) /\ th'[u].op = th[u].op
  <2>1. CASE u # t
    BY <2>1 DEF Leaves, Stays, GoesOn, Alone, Idle
  <2>2. CASE u = t
    BY <2>2, LeavesIdle DEF Stays, GoesOn, Idle
  <2> QED BY <2>1, <2>2
<1> QED BY <1>1 DEF LockInv

(* Only the device's interface has its name. *)
LEMMA OwnNamed ==
  ASSUME KernelInv, DevInv, dev.own # 0
  PROVE  dev.own \in Index /\ Named(Own.name) = {dev.own}
  BY DEF KernelInv, DevInv, Named, Own, Present

(* A thread that is in an operation uses a device that owns an interface.  *)
LEMMA BusyOwns ==
  ASSUME DevInv, LockInv, NEW t \in Thread, ~Idle(t) PROVE dev.own # 0 /\ dev.own \in Index
  BY DEF DevInv, LockInv

(* A call other than if_nametoindex leaves the name and the index right.   *)
LEMMA NameAfter ==
  ASSUME ProgressInv, NameInv, NEW t \in Thread, GoesOn(t),
         Head(th[t].todo) \notin FdCalls \cup {"if_nametoindex"},
         th'[t].idx = th[t].idx,
         th'[t].req = IF Head(th[t].todo) = "tungetiff" THEN Own.name ELSE th[t].req,
         Locked(t)
  PROVE  th'[t].req = Own.name /\ (HasIndex(t)' => th'[t].idx = dev.own)
<1> DEFINE s == Script(th[t].op)
           m == Made(t)
           c == Head(th[t].todo)
<1>1. m \in Nat /\ c = s[m + 1] /\ (m = 0 => c \in {"tungetiff"} \cup FdCalls)
  BY CurrentCall DEF Locked
<1>2. Made(t)' = m + 1 /\ th'[t].op = th[t].op
  BY ProgressKept DEF GoesOn
<1>3. th'[t].req = Own.name
  <2>1. CASE c = "tungetiff"
    BY <2>1
  <2>2. CASE c # "tungetiff"
    BY <1>1, <2>2 DEF NameInv
  <2> QED BY <2>1, <2>2
<1>4. ASSUME HasIndex(t)' PROVE HasIndex(t)
  <2>1. PICK j \in 1..m + 1 : s[j] = "if_nametoindex"
    BY <1>2, <1>4 DEF HasIndex
  <2>2. j # m + 1
    BY <1>1, <2>1
  <2> HIDE DEF m
  <2>3. j \in 1..m
    BY <1>1, <2>1, <2>2
  <2> QED BY <2>1, <2>3 DEF HasIndex, m
<1> QED BY <1>3, <1>4 DEF NameInv

(* The calls that only ask. *)
Asks(t) == \/ TunGetIff(t) \/ IfNameToIndex(t) \/ GetByName(t) \/ ListAddresses(t)
           \/ GetIfAddrs(t) \/ LookUpV6(t)

(* A call that only asks changes nothing but the thread; if the operation  *)
(* holds the lock and goes on, its name and index are the interface's.     *)
LEMMA AskingStep ==
  ASSUME IInv, NEW t \in Thread, Asks(t)
  PROVE  /\ ~Idle(t) /\ UNCHANGED <<ifs, dev, builds, calls>>
         /\ Leaves(t) \/ GoesOn(t)
         /\ GoesOn(t) /\ Locked(t) =>
              th'[t].req = Own.name /\ (HasIndex(t)' => th'[t].idx = dev.own)
<1> USE DEF IInv
<1>0. DOMAIN th[t] = ThreadFields
  BY DEF ProgressInv, ThreadFields
<1>1. CASE TunGetIff(t)
  <2> DEFINE n == [th[t] EXCEPT !.req = Own.name]
  <2>1. ~Idle(t) /\ Head(th[t].todo) = "tungetiff" /\ Advance(t, n, NoRet)
    BY <1>1 DEF TunGetIff, At
  <2>2. DOMAIN n = ThreadFields /\ n.op = th[t].op /\ n.todo = th[t].todo
    BY <1>0 DEF ThreadFields
  <2>3. Leaves(t) \/ (GoesOn(t) /\ th'[t] = [n EXCEPT !.todo = Tail(th[t].todo)])
    BY <2>1, <2>2, AdvanceEffect
  <2>4. th'[t] = [n EXCEPT !.todo = Tail(th[t].todo)] =>
           th'[t].req = Own.name /\ th'[t].idx = th[t].idx
    BY <1>0 DEF ThreadFields
  <2>5. ASSUME GoesOn(t), Locked(t)
        PROVE  th'[t].req = Own.name /\ (HasIndex(t)' => th'[t].idx = dev.own)
    <3>1. th'[t].req = Own.name /\ th'[t].idx = th[t].idx
      <4>1. ~Leaves(t)
        BY <2>5, LeavesIdle
      <4> QED BY <2>3, <2>4, <4>1
    <3> QED BY <2>1, <2>5, <3>1, NameAfter DEF FdCalls
  <2> QED BY <1>1, <2>1, <2>3, <2>5 DEF TunGetIff
<1>2. CASE IfNameToIndex(t)
  <2> DEFINE i == IF Named(th[t].req) = {} THEN 0 ELSE CHOOSE k \in Named(th[t].req) : TRUE
             n == [th[t] EXCEPT !.idx = i]
             x == [NoRet EXCEPT !.val = i]
  <2>1. ~Idle(t) /\ Head(th[t].todo) = "if_nametoindex" /\ Advance(t, n, x)
    BY <1>2 DEF IfNameToIndex, At
  <2> HIDE DEF i
  <2>2. DOMAIN n = ThreadFields /\ n.op = th[t].op /\ n.todo = th[t].todo
    BY <1>0 DEF ThreadFields
  <2>3. Leaves(t) \/ (GoesOn(t) /\ th'[t] = [n EXCEPT !.todo = Tail(th[t].todo)])
    BY <2>1, <2>2, AdvanceEffect
  <2>4. th'[t] = [n EXCEPT !.todo = Tail(th[t].todo)] =>
           th'[t].req = th[t].req /\ th'[t].idx = i
    BY <1>0 DEF ThreadFields
  <2>5. ASSUME GoesOn(t), Locked(t) PROVE th'[t].req = Own.name /\ th'[t].idx = dev.own
    <3>1. ~Leaves(t)
      BY <2>5, LeavesIdle
    <3>2. Made(t) > 0
      BY <2>1, CurrentCall DEF FdCalls
    <3>3. th[t].req = Own.name
      BY <2>5, <3>2 DEF NameInv
    <3>4. i = dev.own
      BY <2>1, <3>3, OwnNamed, BusyOwns DEF i
    <3> QED BY <2>3, <2>4, <3>1, <3>3, <3>4
  <2> QED BY <1>2, <2>1, <2>3, <2>5 DEF IfNameToIndex
<1>3. ASSUME NEW c \in GetCalls \cup {"list_all", "list_matching", "getifaddrs", "getifaddrs_v6"},
             At(t, c), NEW n, NEW x, Advance(t, n, x),
             DOMAIN n = ThreadFields, n.op = th[t].op, n.todo = th[t].todo,
             n.req = th[t].req, n.idx = th[t].idx
      PROVE  /\ ~Idle(t) /\ (Leaves(t) \/ GoesOn(t))
             /\ GoesOn(t) /\ Locked(t) =>
                  th'[t].req = Own.name /\ (HasIndex(t)' => th'[t].idx = dev.own)
  <2>1. ~Idle(t) /\ Head(th[t].todo) = c
    BY <1>3 DEF At
  <2>2. Leaves(t) \/ (GoesOn(t) /\ th'[t] = [n EXCEPT !.todo = Tail(th[t].todo)])
    BY <1>3, <2>1, AdvanceEffect
  <2>3. th'[t] = [n EXCEPT !.todo = Tail(th[t].todo)] =>
           th'[t].req = th[t].req /\ th'[t].idx = th[t].idx
    BY <1>3 DEF ThreadFields
  <2>4. c \notin FdCalls \cup {"if_nametoindex", "tungetiff"}
    BY <1>3 DEF FdCalls, GetCalls
  <2>5. ASSUME GoesOn(t), Locked(t)
        PROVE  th'[t].req = Own.name /\ (HasIndex(t)' => th'[t].idx = dev.own)
    <3>1. ~Leaves(t)
      BY <2>5, LeavesIdle
    <3> QED BY <2>1, <2>2, <2>3, <2>4, <2>5, <3>1, NameAfter
  <2> QED BY <2>1, <2>2, <2>5
<1>4. CASE GetByName(t)
  <2>0. PICK c \in GetCalls : \E x : At(t, c) /\ Advance(t, th[t], x)
    BY <1>4 DEF GetByName
  <2>1. PICK x : At(t, c) /\ Advance(t, th[t], x)
    BY <2>0
  <2> QED BY <1>0, <1>3, <1>4, <2>1 DEF GetByName
<1>5. CASE ListAddresses(t)
  <2>0. PICK c \in {"list_all", "list_matching"} :
          \E l : At(t, c) /\ Advance(t, [th[t] EXCEPT !.left = l], NoRet)
    BY <1>5 DEF ListAddresses
  <2>1. PICK l : At(t, c) /\ Advance(t, [th[t] EXCEPT !.left = l], NoRet)
    BY <2>0
  <2> DEFINE n == [th[t] EXCEPT !.left = l]
  <2>2. /\ DOMAIN n = ThreadFields /\ n.op = th[t].op /\ n.todo = th[t].todo
        /\ n.req = th[t].req /\ n.idx = th[t].idx
    BY <1>0 DEF ThreadFields
  <2> HIDE DEF n
  <2>3. Advance(t, n, NoRet)
    BY <2>1 DEF n
  <2> QED BY <1>3, <1>5, <2>1, <2>2, <2>3 DEF ListAddresses
<1>6. CASE GetIfAddrs(t)
  <2>1. PICK x : At(t, "getifaddrs") /\ Advance(t, th[t], x)
    BY <1>6 DEF GetIfAddrs
  <2> QED BY <1>0, <1>3, <1>6, <2>1 DEF GetIfAddrs
<1>7. CASE LookUpV6(t)
  <2>1. CASE th[t].op.arg \in AddrsNamed(th[t].req)
    <3>1. At(t, "getifaddrs_v6") /\ Advance(t, th[t], NoRet)
      BY <1>7, <2>1 DEF LookUpV6
    <3> QED BY <1>0, <1>3, <1>7, <3>1 DEF LookUpV6
  <2>2. CASE th[t].op.arg \notin AddrsNamed(th[t].req)
    <3>1. ~Idle(t) /\ \E r : th' = [th EXCEPT ![t] = IdleThread(r)]
      BY <1>7, <2>2 DEF LookUpV6, At
    <3>2. Leaves(t)
      BY <3>1 DEF Leaves, Alone, ProgressInv
    <3>3. ~GoesOn(t)
      BY <3>2, LeavesIdle
    <3> QED BY <1>7, <3>1, <3>2, <3>3 DEF LookUpV6
  <2> QED BY <2>1, <2>2
<1> QED BY <1>1, <1>2, <1>4, <1>5, <1>6, <1>7 DEF Asks

(* The calls that change an attribute, an address or the name, on the      *)
(* device's own interface and under the write side of the lock.            *)
Writing(t) == SetByName(t) \/ SetByIndex(t) \/ SetByFd(t)

(* A call that writes goes to the device's own interface, by whichever of  *)
(* the name, the index and the descriptor it finds it.                     *)
LEMMA WritingStep ==
  ASSUME IInv, NEW t \in Thread, Writing(t)
  PROVE  LET c == Head(th[t].todo)
             o == th[t].op
         IN  /\ ~Idle(t) /\ LockOf(o) = "write" /\ dev.own \in Index
             /\ c \in SetCalls \cup IndexCalls \cup FdCalls
             /\ c = "siocsifname" => o.kind = "set_name" /\ Leaves(t)
             /\ ~Refused(Own, c, o)
             /\ ifs' = [ifs EXCEPT ![dev.own] = Written(Own, c, o)]
             /\ UNCHANGED <<dev, builds, calls>>
             /\ Leaves(t) \/ GoesOn(t)
             /\ GoesOn(t) => th'[t].req = Own.name /\ (HasIndex(t)' => th'[t].idx = dev.own)
<1> USE DEF IInv
<1> DEFINE c == Head(th[t].todo)
           o == th[t].op
<1>0. DOMAIN th[t] = ThreadFields
  BY DEF ProgressInv, ThreadFields
<1>1. ~Idle(t) /\ c \in SetCalls \cup IndexCalls \cup FdCalls
  BY DEF Writing, SetByName, SetByIndex, SetByFd, At
<1>2. LockOf(o) = "write" /\ Locked(t)
  BY <1>1, CurrentCall DEF Writes, Locked
<1>3. dev.own \in Index /\ dev.own # 0
  BY <1>1, BusyOwns
<1>4. Apply(t, dev.own)
  <2>1. CASE SetByName(t)
    <3>1. c \in SetCalls /\ \E i \in Named(th[t].req) : Apply(t, i)
      BY <2>1 DEF SetByName, At
    <3>2. Made(t) > 0
      BY <1>1, <3>1, CurrentCall DEF SetCalls, FdCalls
    <3>3. Named(th[t].req) = {dev.own}
      BY <1>2, <1>3, <3>2, OwnNamed DEF NameInv
    <3> QED BY <3>1, <3>3
  <2>2. CASE SetByIndex(t)
    <3>1. c \in IndexCalls /\ Apply(t, th[t].idx)
      BY <2>2 DEF SetByIndex, At
    <3>2. th[t].idx = dev.own
      BY <1>1, <1>2, <3>1, CurrentCall DEF NameInv, ByIndex
    <3> QED BY <3>1, <3>2
  <2>3. CASE SetByFd(t)
    BY <2>3 DEF SetByFd
  <2> QED BY <2>1, <2>2, <2>3 DEF Writing
<1>5. /\ ~Refused(Own, c, o) /\ ifs' = [ifs EXCEPT ![dev.own] = Written(Own, c, o)]
      /\ UNCHANGED <<dev, builds, calls>> /\ Advance(t, th[t], NoRet)
  BY <1>4 DEF Apply, Own
<1>6. \/ Leaves(t) /\ Made(t) + 1 = Len(Script(o))
      \/ /\ GoesOn(t) /\ Made(t) + 1 < Len(Script(o))
         /\ th'[t] = [th[t] EXCEPT !.todo = Tail(th[t].todo)]
  BY <1>0, <1>1, <1>5, AdvanceEffect
<1>7. Made(t) \in Nat /\ Len(Script(o)) \in Nat
  BY <1>1, CurrentCall
<1>8. c \in {"siocsifname"} \cup FdCalls => Made(t) + 1 = Len(Script(o))
  BY <1>1, CurrentCall
<1>9. c = "siocsifname" => o.kind = "set_name" /\ Leaves(t)
  BY <1>1, <1>6, <1>7, <1>8, CurrentCall
<1>10. ASSUME GoesOn(t) PROVE th'[t].req = Own.name /\ (HasIndex(t)' => th'[t].idx = dev.own)
  <2>1. ~Leaves(t)
    BY <1>10, LeavesIdle
  <2>2. th'[t].req = th[t].req /\ th'[t].idx = th[t].idx
    BY <1>0, <1>6, <2>1 DEF ThreadFields
  <2>3. c \notin FdCalls \cup {"if_nametoindex", "tungetiff"}
    BY <1>1, <1>6, <1>7, <1>8, <2>1 DEF SetCalls, IndexCalls, FdCalls
  <2> QED BY <1>2, <1>10, <2>2, <2>3, NameAfter
<1> HIDE DEF c, o
<1> QED BY <1>1, <1>2, <1>3, <1>5, <1>6, <1>9, <1>10 DEF c, o

(* Removing the addresses that were listed, one after the other. *)
LEMMA RemovingStep ==
  ASSUME IInv, NEW t \in Thread, RemoveEach(t)
  PROVE  /\ ~Idle(t) /\ LockOf(th[t].op) = "write" /\ dev.own \in Index
         /\ UNCHANGED <<dev, builds, calls>>
         /\ \/ /\ th[t].left = {} /\ ifs' = ifs /\ (Leaves(t) \/ GoesOn(t))
               /\ GoesOn(t) => th'[t].req = Own.name
                               /\ (HasIndex(t)' => th'[t].idx = dev.own)
            \/ \E k \in DOMAIN Own.v4 :
                 /\ ifs' = [ifs EXCEPT ![dev.own] = [@ EXCEPT !.v4 = RemoveAt(Own.v4, k)]]
                 /\ Stays(t) /\ th'[t].left = th[t].left \ {Own.v4[k].addr}
                 /\ th'[t].req = th[t].req /\ th'[t].idx = th[t].idx
<1> USE DEF IInv
<1>0. DOMAIN th[t] = ThreadFields /\ DOMAIN th = Thread
  BY DEF ProgressInv, ThreadFields
<1>1. ~Idle(t) /\ Head(th[t].todo) = "remove_each" /\ UNCHANGED <<dev, builds, calls>>
  BY DEF RemoveEach, At
<1>2. LockOf(th[t].op) = "write" /\ Locked(t)
  BY <1>1, CurrentCall DEF Writes, Locked
<1>3. dev.own \in Index
  BY <1>1, BusyOwns
<1>4. th[t].idx = dev.own
  BY <1>1, <1>2, CurrentCall DEF NameInv, ByIndex
<1>5. CASE th[t].left = {}
  <2>1. ifs' = ifs /\ Advance(t, th[t], NoRet)
    BY <1>5 DEF RemoveEach
  <2>2. \/ Leaves(t)
        \/ GoesOn(t) /\ th'[t] = [th[t] EXCEPT !.todo = Tail(th[t].todo)]
    BY <1>0, <1>1, <2>1, AdvanceEffect
  <2>3. ASSUME GoesOn(t) PROVE th'[t].req = Own.name /\ (HasIndex(t)' => th'[t].idx = dev.own)
    <3>1. ~Leaves(t)
      BY <2>3, LeavesIdle
    <3>2. th'[t].req = th[t].req /\ th'[t].idx = th[t].idx
      BY <1>0, <2>2, <3>1 DEF ThreadFields
    <3> QED BY <1>1, <1>2, <2>3, <3>2, NameAfter DEF FdCalls
  <2> QED BY <1>1, <1>2, <1>3, <1>5, <2>1, <2>2, <2>3
<1>6. CASE th[t].left # {}
  <2>1. PICK k \in DOMAIN Own.v4 :
          /\ ifs' = [ifs EXCEPT ![dev.own].v4 = RemoveAt(Own.v4, k)]
          /\ th' = [th EXCEPT ![t].left = @ \ {Own.v4[k].addr}]
    BY <1>4, <1>6 DEF RemoveEach, Own
  <2>2. /\ Alone(t) /\ th'[t] = [th[t] EXCEPT !.left = @ \ {Own.v4[k].addr}]
    BY <1>0, <2>1 DEF Alone
  <2>3. /\ Stays(t) /\ th'[t].left = th[t].left \ {Own.v4[k].addr}
        /\ th'[t].req = th[t].req /\ th'[t].idx = th[t].idx
    BY <1>0, <1>1, <2>2 DEF Stays, ThreadFields
  <2> QED BY <1>1, <1>2, <1>3, <2>1, <2>3
<1> QED BY <1>5, <1>6

(* The other threads are where they were. *)
LEMMA OthersKept ==
  ASSUME NEW t \in Thread, Alone(t), NEW u \in Thread, u # t
  PROVE  /\ th'[u] = th[u] /\ (Idle(u)' <=> Idle(u)) /\ (Locked(u)' <=> Locked(u))
         /\ Made(u)' = Made(u) /\ (HasIndex(u)' <=> HasIndex(u))
<1>1. th'[u] = th[u]
  BY DEF Alone
<1> QED BY <1>1 DEF Idle, Locked, Made, HasIndex

(* A change of the device's interface, the rest of the kernel as before. *)
LEMMA OwnChanged ==
  ASSUME KernelInv, DevInv, OffloadAgrees, dev.own \in Index, NEW g, InterfaceOk(g),
         g.tun = Own.tun, g.attached = Own.attached, g.vnet = Own.vnet, g.mask = Own.mask,
         g.name = Own.name \/ (g.name \in Name /\ Named(g.name) = {}),
         ifs' = [ifs EXCEPT ![dev.own] = g], dev' = dev
  PROVE  KernelInv' /\ DevInv' /\ OffloadAgrees' /\ Own' = g
<1>0. dev.own # 0 /\ Other \in Index
  BY SizesAssumption DEF Index, Other
<1>1. /\ DOMAIN ifs = Index /\ DOMAIN ifs' = Index /\ ifs'[dev.own] = g /\ Own' = g
      /\ \A i \in Index \ {dev.own} : ifs'[i] = ifs[i]
  BY DEF KernelInv, Own
<1>2. Present(dev.own) /\ Own.tun /\ Own.attached /\ dev.own # Other
  BY <1>0, <1>1 DEF DevInv, KernelInv, Own
<1>3. g.name # None
  BY <1>2, OpsAssumption DEF Present, Own
<1>4. \A i \in Index \ {dev.own} : ifs[i].name # g.name
  BY <1>2, <1>3 DEF KernelInv, Named, Present, Own
<1>5. KernelInv'
  <2>1. \A i \in Index : InterfaceOk(ifs'[i])
    BY <1>1 DEF KernelInv
  <2>2. \A i, j \in Index : ifs'[i].name # None /\ ifs'[i].name = ifs'[j].name => i = j
    BY <1>1, <1>4 DEF KernelInv, Present
  <2>3. ifs'[Other].name # None /\ ~ifs'[Other].tun
    BY <1>0, <1>1, <1>2 DEF KernelInv, Present
  <2>4. \A i \in Index \ {dev.own} :
          ifs'[i].tun => ~ifs'[i].attached /\ ifs'[i].attr["persist"] = 1
    BY <1>1 DEF KernelInv
  <2> QED BY <1>1, <2>1, <2>2, <2>3, <2>4 DEF KernelInv, Present, InterfaceOk
<1>6. DevInv'
  BY <1>1, <1>2, <1>3 DEF DevInv, Present, Own
<1>7. OffloadAgrees'
  <2>1. Own'.vnet = Own.vnet /\ Own'.mask = Own.mask
    BY <1>1
  <2> QED BY <2>1 DEF OffloadAgrees
<1> QED BY <1>1, <1>5, <1>6, <1>7

(* The names that threads under the lock have been told stay right: a      *)
(* rename is the last call of an operation that nobody else runs beside.   *)
LEMMA NameKept ==
  ASSUME LockInv, ProgressInv, NameInv, NEW t \in Thread, dev' = dev,
         Leaves(t) \/ Stays(t) \/ GoesOn(t),
         Own'.name = Own.name \/ (Leaves(t) /\ ~Idle(t) /\ LockOf(th[t].op) = "write"),
         Stays(t) => th'[t].req = th[t].req /\ th'[t].idx = th[t].idx,
         GoesOn(t) /\ Locked(t) =>
           th'[t].req = Own.name /\ (HasIndex(t)' => th'[t].idx = dev.own)
  PROVE  NameInv'
<1>1. Alone(t)
  BY LeavesIdle DEF Stays, GoesOn
<1>2. ASSUME NEW u \in Thread, u # t, Locked(u)'
      PROVE  /\ Made(u)' > 0 => th'[u].req = Own'.name
             /\ HasIndex(u)' => th'[u].idx = dev'.own
  <2>1. Locked(u) /\ th'[u] = th[u] /\ Made(u)' = Made(u) /\ (HasIndex(u)' <=> HasIndex(u))
    BY <1>1, <1>2, OthersKept
  <2>2. Own'.name = Own.name
    BY <1>2, <2>1 DEF LockInv, Locked
  <2> QED BY <2>1, <2>2 DEF NameInv
<1>3. ASSUME Locked(t)'
      PROVE  /\ Made(t)' > 0 => th'[t].req = Own'.name
             /\ HasIndex(t)' => th'[t].idx = dev'.own
  <2>1. ~Leaves(t) /\ Own'.name = Own.name
    BY <1>3, LeavesIdle DEF Locked
  <2>2. Locked(t)
    BY <1>3, <2>1 DEF Locked, Stays, GoesOn, Idle
  <2>3. CASE Stays(t)
    <3>1. Made(t)' = Made(t) /\ th'[t].op = th[t].op
      BY <2>3, ProgressKept DEF Stays
    <3>2. HasIndex(t)' => HasIndex(t)
      BY <3>1 DEF HasIndex
    <3> QED BY <2>1, <2>2, <2>3, <3>1, <3>2 DEF NameInv
  <2> QED BY <2>1, <2>2, <2>3
<1> QED BY <1>2, <1>3 DEF NameInv

(* A call, whatever it is, that succeeds. *)
Calling(t) == Asks(t) \/ Writing(t) \/ RemoveEach(t)

(* It moves one thread and leaves the device alone. *)
LEMMA CallingMoves ==
  ASSUME IInv, NEW t \in Thread, Calling(t)
  PROVE  /\ ~Idle(t) /\ dev' = dev /\ dev.own \in Index
         /\ Leaves(t) \/ Stays(t) \/ GoesOn(t)
<1>1. ~Idle(t) /\ dev' = dev /\ (Leaves(t) \/ Stays(t) \/ GoesOn(t))
  BY AskingStep, WritingStep, RemovingStep DEF Calling
<1> QED BY <1>1, BusyOwns DEF IInv

(* It keeps the kernel's table in order, and the name that the operations  *)
(* under the lock have asked for.                                          *)
LEMMA CallingKernel ==
  ASSUME IInv, NEW t \in Thread, Calling(t)
  PROVE  KernelInv' /\ DevInv' /\ OffloadAgrees' /\ NameInv'
<1> USE DEF IInv
<1>0. dev.own \in Index /\ DOMAIN ifs = Index
  BY CallingMoves DEF KernelInv
<1>1. CASE Asks(t)
  <2>1. /\ dev' = dev /\ ifs' = ifs /\ (Leaves(t) \/ GoesOn(t))
        /\ GoesOn(t) /\ Locked(t) =>
              th'[t].req = Own.name /\ (HasIndex(t)' => th'[t].idx = dev.own)
    BY <1>1, AskingStep
  <2>2. KernelInv' /\ DevInv' /\ OffloadAgrees' /\ Own' = Own
    BY <2>1 DEF KernelInv, DevInv, OffloadAgrees, Own, Present
  <2>3. ~Stays(t)
    BY <2>1, LeavesIdle, MovesOnce
  <2> QED BY <2>1, <2>2, <2>3, NameKept
<1>2. CASE Writing(t)
  <2> DEFINE c == Head(th[t].todo)
             o == th[t].op
             g == Written(Own, c, o)
  <2>1. /\ ~Idle(t) /\ LockOf(o) = "write" /\ dev' = dev
        /\ c \in SetCalls \cup IndexCalls \cup FdCalls
        /\ c = "siocsifname" => o.kind = "set_name" /\ Leaves(t)
        /\ ~Refused(Own, c, o) /\ ifs' = [ifs EXCEPT ![dev.own] = g]
        /\ Leaves(t) \/ GoesOn(t)
        /\ GoesOn(t) => th'[t].req = Own.name /\ (HasIndex(t)' => th'[t].idx = dev.own)
    BY <1>2, WritingStep
  <2>2. InterfaceOk(Own) /\ OpOk(o)
    BY <1>0, <2>1, CurrentCall DEF KernelInv, Own
  <2> HIDE DEF c, o, g
  <2>3. /\ InterfaceOk(g) /\ g.tun = Own.tun /\ g.attached = Own.attached
        /\ g.vnet = Own.vnet /\ g.mask = Own.mask
        /\ c = "siocsifname" => g.name = o.arg /\ o.arg \in Name
        /\ c # "siocsifname" => g.name = Own.name
    BY <2>1, <2>2, WrittenOk DEF g
  <2>4. c = "siocsifname" => Named(o.arg) = {}
    BY <2>1 DEF Refused
  <2>5. KernelInv' /\ DevInv' /\ OffloadAgrees' /\ Own' = g
    BY <1>0, <2>1, <2>3, <2>4, OwnChanged
  <2>6. Own'.name = Own.name \/ (Leaves(t) /\ ~Idle(t) /\ LockOf(th[t].op) = "write")
    BY <2>1, <2>3, <2>5 DEF o
  <2>7. ~Stays(t)
    BY <2>1, LeavesIdle, MovesOnce
  <2> QED BY <2>1, <2>5, <2>6, <2>7, NameKept
<1>3. CASE RemoveEach(t)
  <2>1. CASE ifs' = ifs /\ (Leaves(t) \/ GoesOn(t))
             /\ (GoesOn(t) => th'[t].req = Own.name /\ (HasIndex(t)' => th'[t].idx = dev.own))
    <3>1. dev' = dev
      BY <1>3, RemovingStep
    <3>2. KernelInv' /\ DevInv' /\ OffloadAgrees' /\ Own' = Own
      BY <2>1, <3>1 DEF KernelInv, DevInv, OffloadAgrees, Own, Present
    <3>3. ~Stays(t)
      BY <2>1, LeavesIdle, MovesOnce
    <3> QED BY <2>1, <3>1, <3>2, <3>3, NameKept
  <2>2. ASSUME NEW k \in DOMAIN Own.v4, Stays(t),
               ifs' = [ifs EXCEPT ![dev.own] = [@ EXCEPT !.v4 = RemoveAt(Own.v4, k)]],
               th'[t].req = th[t].req, th'[t].idx = th[t].idx
        PROVE  KernelInv' /\ DevInv' /\ OffloadAgrees' /\ NameInv'
    <3> DEFINE g == [Own EXCEPT !.v4 = RemoveAt(Own.v4, k)]
    <3>1. dev' = dev
      BY <1>3, RemovingStep
    <3>2. InterfaceOk(Own)
      BY <1>0 DEF KernelInv, Own
    <3>3. RemoveAt(Own.v4, k) \in Seq(V4Address) /\ Distinct(RemoveAt(Own.v4, k))
      BY <3>2, RemoveAddress DEF InterfaceOk
    <3>4. /\ InterfaceOk(g) /\ g.tun = Own.tun /\ g.attached = Own.attached
          /\ g.vnet = Own.vnet /\ g.mask = Own.mask /\ g.name = Own.name
      BY <3>2, <3>3 DEF InterfaceOk
    <3>5. ifs' = [ifs EXCEPT ![dev.own] = g]
      BY <2>2 DEF Own
    <3> HIDE DEF g
    <3>6. KernelInv' /\ DevInv' /\ OffloadAgrees' /\ Own' = g
      BY <1>0, <3>1, <3>4, <3>5, OwnChanged
    <3>7. ~GoesOn(t)
      BY <2>2, MovesOnce
    <3> QED BY <2>2, <3>1, <3>4, <3>6, <3>7, NameKept
  <2> QED BY <1>3, <2>1, <2>2, RemovingStep
<1> QED BY <1>1, <1>2, <1>3 DEF Calling

(* An operation that returns behind a call returns behind its last one;    *)
(* only remove_address may have nothing more to do.                        *)
LEMMA ReturnsAtEnd ==
  ASSUME IInv, NEW t \in Thread, Calling(t), Leaves(t), Head(th[t].todo) # "getifaddrs_v6"
  PROVE  /\ Made(t) + 1 = Len(Script(th[t].op))
         /\ \E n, x : Advance(t, n, x) /\ th'[t] = IdleThread([x EXCEPT !.ok = TRUE])
<1> USE DEF IInv
<1>0. DOMAIN th[t] = ThreadFields /\ ~Idle(t) /\ ~Stays(t)
  BY CallingMoves, LeavesIdle DEF ProgressInv, ThreadFields
<1>1. ASSUME NEW n, NEW x, Advance(t, n, x),
             DOMAIN n = ThreadFields, n.op = th[t].op, n.todo = th[t].todo
      PROVE  /\ Made(t) + 1 = Len(Script(th[t].op))
             /\ \E m, y : Advance(t, m, y) /\ th'[t] = IdleThread([y EXCEPT !.ok = TRUE])
  BY <1>0, <1>1, AdvanceEffect, LeavesIdle
<1>2. CASE TunGetIff(t)
  <2> DEFINE n == [th[t] EXCEPT !.req = Own.name]
  <2>1. Advance(t, n, NoRet)
    BY <1>2 DEF TunGetIff
  <2>2. DOMAIN n = ThreadFields /\ n.op = th[t].op /\ n.todo = th[t].todo
    BY <1>0 DEF ThreadFields
  <2> QED BY <1>1, <2>1, <2>2
<1>3. CASE IfNameToIndex(t)
  <2>1. PICK i, x : Advance(t, [th[t] EXCEPT !.idx = i], x)
    BY <1>3 DEF IfNameToIndex
  <2> DEFINE n == [th[t] EXCEPT !.idx = i]
  <2>2. DOMAIN n = ThreadFields /\ n.op = th[t].op /\ n.todo = th[t].todo
    BY <1>0 DEF ThreadFields
  <2> QED BY <1>1, <2>1, <2>2
<1>4. CASE GetByName(t)
  <2>1. PICK x : Advance(t, th[t], x)
    BY <1>4 DEF GetByName
  <2> QED BY <1>0, <1>1, <2>1
<1>5. CASE ListAddresses(t)
  <2>1. PICK l : Advance(t, [th[t] EXCEPT !.left = l], NoRet)
    BY <1>5 DEF ListAddresses
  <2> DEFINE n == [th[t] EXCEPT !.left = l]
  <2>2. DOMAIN n = ThreadFields /\ n.op = th[t].op /\ n.todo = th[t].todo
    BY <1>0 DEF ThreadFields
  <2> QED BY <1>1, <2>1, <2>2
<1>6. CASE GetIfAddrs(t)
  <2>1. PICK x : Advance(t, th[t], x)
    BY <1>6 DEF GetIfAddrs
  <2> QED BY <1>0, <1>1, <2>1
<1>7. CASE LookUpV6(t)
  BY <1>7 DEF LookUpV6, At
<1>8. CASE Writing(t)
  <2>1. Advance(t, th[t], NoRet)
    BY <1>8 DEF Writing, SetByName, SetByIndex, SetByFd, Apply
  <2> QED BY <1>0, <1>1, <2>1
<1>9. CASE RemoveEach(t)
  <2>1. CASE th[t].left = {}
    <3>1. Advance(t, th[t], NoRet)
      BY <1>9, <2>1 DEF RemoveEach
    <3> QED BY <1>0, <1>1, <3>1
  <2>2. CASE th[t].left # {}
    <3>1. PICK y : th' = [th EXCEPT ![t].left = y]
      BY <1>9, <2>2 DEF RemoveEach
    <3>2. th'[t].op = th[t].op
      BY <1>0, <3>1 DEF ThreadFields, ProgressInv
    <3> QED BY <1>0, <3>2, LeavesIdle DEF Idle
  <2> QED BY <2>1, <2>2
<1> QED BY <1>2, <1>3, <1>4, <1>5, <1>6, <1>7, <1>8, <1>9 DEF Calling, Asks

(***************************************************************************)
(* set_network_address.                                                    *)
(***************************************************************************)

Replacing(t) == ~Idle(t) /\ th[t].op.kind = "set_network_address"

(* Which call it makes, by how many it has made. *)
LEMMA ReplacingCall ==
  ASSUME ProgressInv, NEW t \in Thread, Replacing(t)
  PROVE  /\ LockOf(th[t].op) = "write" /\ Locked(t)
         /\ Made(t) \in 0..9 /\ Head(th[t].todo) = NetworkCall[Made(t) + 1]
         /\ Len(Script(th[t].op)) = NetworkLen(th[t].op)
<1> DEFINE s == Script(th[t].op)
           n == NetworkLen(th[t].op)
           m == Made(t)
<1>1. /\ ~Idle(t) /\ m \in Nat /\ Len(s) \in Nat /\ m + 1 \in 1..Len(s)
      /\ Head(th[t].todo) = s[m + 1]
  BY CurrentCall DEF Replacing
<1>2. Len(s) = n /\ \A k \in 1..n : s[k] = NetworkCall[k]
  BY NetworkScript DEF Replacing
<1>3. n \in Nat /\ n <= 10
  BY DEF NetworkLen
<1>4. LockOf(th[t].op) = "write"
  BY DEF Replacing, LockOf, Getter
<1> HIDE DEF s, n, m
<1>5. m \in 0..9 /\ Head(th[t].todo) = NetworkCall[m + 1]
  BY <1>1, <1>2, <1>3
<1> QED BY <1>1, <1>2, <1>4, <1>5 DEF m, s, n, Locked

(* remove_all_address_v4 goes through the addresses it has listed. *)
LEMMA ListedAll ==
  ASSUME ProgressInv, NEW t \in Thread, ListAddresses(t), GoesOn(t),
         Head(th[t].todo) = "list_all"
  PROVE  th'[t].left = AddrsV4(ifs[th[t].idx])
<1>1. ~Idle(t) /\ Advance(t, [th[t] EXCEPT !.left = List(t, TRUE)], NoRet)
  BY DEF ListAddresses, At
<1> DEFINE n == [th[t] EXCEPT !.left = List(t, TRUE)]
<1>2. DOMAIN n = ThreadFields /\ n.op = th[t].op /\ n.todo = th[t].todo
  BY DEF ProgressInv, ThreadFields
<1>3. th'[t] = [n EXCEPT !.todo = Tail(th[t].todo)]
  BY <1>1, <1>2, AdvanceEffect, LeavesIdle
<1>4. th'[t].left = List(t, TRUE)
  BY <1>3 DEF ProgressInv, ThreadFields
<1> QED BY <1>4 DEF List

(* The same, with what NetworkInv says of the calls that write. *)
LEMMA ReplacingAt ==
  ASSUME IInv, NEW t \in Thread, Replacing(t)
  PROVE  LET m == Made(t)
             c == Head(th[t].todo)
             o == th[t].op
         IN  /\ m \in 0..9
             /\ m + 1 = Len(Script(o)) => m = (IF o.dst = None THEN 7 ELSE 9)
             /\ m + 1 < Len(Script(o)) => m # 9 /\ (m = 7 => o.dst # None)
             /\ c \in SetCalls \cup IndexCalls \cup FdCalls => m \in {5, 7, 9}
             /\ c = "remove_each" => m = 3
             /\ m = 2 => c = "list_all"
             /\ m = 3 => th[t].left = AddrsV4(Own)
             /\ m = 4 => Own.v4 = <<>>
             /\ m = 5 => c = "siocsifaddr" /\ Own.v4 = <<>>
             /\ m = 6 => Own.v4 = <<V4(o.arg)>>
             /\ m = 7 => c = "siocsifnetmask" /\ Own.v4 = <<V4(o.arg)>>
             /\ m = 8 => Own.v4 = <<[V4(o.arg) EXCEPT !.mask = "asked"]>>
             /\ m = 9 => /\ c = "siocsifdstaddr"
                         /\ Own.v4 = <<[V4(o.arg) EXCEPT !.mask = "asked"]>>
             /\ m \in {0, 4, 6, 8} => c = "tungetiff"
             /\ m = 1 => c = "if_nametoindex"
             /\ c # "getifaddrs_v6"
<1> DEFINE m == Made(t)
           c == Head(th[t].todo)
           o == th[t].op
           n == Len(Script(o))
<1>1. m \in 0..9 /\ c = NetworkCall[m + 1] /\ n = IF o.dst = None THEN 8 ELSE 10
  BY ReplacingCall DEF IInv, NetworkLen
<1>2. /\ m = 3 => th[t].left = AddrsV4(Own)
      /\ m \in {4, 5} => Own.v4 = <<>>
      /\ m \in {6, 7} => Own.v4 = <<V4(o.arg)>>
      /\ m \in {8, 9} => Own.v4 = <<[V4(o.arg) EXCEPT !.mask = "asked"]>>
  BY DEF IInv, NetworkInv, Replacing
<1> HIDE DEF m, c, o, n
<1>3. /\ m + 1 = n => m = (IF o.dst = None THEN 7 ELSE 9)
      /\ m + 1 < n => m # 9 /\ (m = 7 => o.dst # None)
  BY <1>1
<1>4. /\ c \in SetCalls \cup IndexCalls \cup FdCalls => m \in {5, 7, 9}
      /\ c = "remove_each" => m = 3
      /\ c # "getifaddrs_v6"
  BY <1>1 DEF NetworkCall, SetCalls, IndexCalls, FdCalls
<1>5. /\ m = 2 => c = "list_all"
      /\ m = 5 => c = "siocsifaddr"
      /\ m = 7 => c = "siocsifnetmask"
      /\ m = 9 => c = "siocsifdstaddr"
      /\ m \in {0, 4, 6, 8} => c = "tungetiff"
      /\ m = 1 => c = "if_nametoindex"
  BY <1>1 DEF NetworkCall
<1>6. /\ m = 4 => Own.v4 = <<>>
      /\ m = 5 => Own.v4 = <<>>
      /\ m = 6 => Own.v4 = <<V4(o.arg)>>
      /\ m = 7 => Own.v4 = <<V4(o.arg)>>
      /\ m = 8 => Own.v4 = <<[V4(o.arg) EXCEPT !.mask = "asked"]>>
      /\ m = 9 => Own.v4 = <<[V4(o.arg) EXCEPT !.mask = "asked"]>>
  BY <1>2
<1> QED BY <1>1, <1>2, <1>3, <1>4, <1>5, <1>6 DEF m, c, o, n

(* The calls of set_network_address one by one.  When it returns behind    *)
(* the last one, the interface has the address it was given and no other.  *)
LEMMA ReplacingStep ==
  ASSUME IInv, NEW t \in Thread, Replacing(t), Calling(t)
  PROVE  /\ ~Leaves(t) =>
              /\ Made(t)' = 3 => th'[t].left = AddrsV4(Own')
              /\ Made(t)' \in {4, 5} => Own'.v4 = <<>>
              /\ Made(t)' \in {6, 7} => Own'.v4 = <<V4(th[t].op.arg)>>
              /\ Made(t)' \in {8, 9} =>
                   Own'.v4 = <<[V4(th[t].op.arg) EXCEPT !.mask = "asked"]>>
         /\ Leaves(t) => Own'.v4 = <<TheAddress(th[t].op)>>
<1> DEFINE o == th[t].op
           m == Made(t)
           c == Head(th[t].todo)
<1>0. /\ m \in 0..9 /\ c = NetworkCall[m + 1] /\ Locked(t)
      /\ Len(Script(o)) = IF o.dst = None THEN 8 ELSE 10
  BY ReplacingCall DEF IInv, NetworkLen
<1>1. /\ dev.own \in Index /\ DOMAIN ifs = Index /\ dev' = dev /\ InterfaceOk(Own)
      /\ Leaves(t) \/ Stays(t) \/ GoesOn(t)
  BY CallingMoves DEF IInv, KernelInv, Own
<1>2. Leaves(t) => m + 1 = Len(Script(o))
  <2>1. c # "getifaddrs_v6"
    BY <1>0 DEF NetworkCall
  <2> QED BY <2>1, ReturnsAtEnd
<1>3. GoesOn(t) => Made(t)' = m + 1 /\ ~Stays(t) /\ ~Leaves(t) /\ m + 1 < Len(Script(o))
  <2>1. GoesOn(t) => Made(t)' = m + 1 /\ Made(t)' \in 1..Len(Script(o)) - 1
    BY ProgressKept DEF IInv
  <2>2. GoesOn(t) => m + 1 < Len(Script(o))
    BY <1>0, <2>1
  <2> QED BY <2>1, <2>2, LeavesIdle, MovesOnce DEF IInv
<1>4. CASE Asks(t)
  <2>1. Own' = Own /\ (Leaves(t) \/ GoesOn(t))
    BY <1>4, AskingStep DEF Own
  <2>2. c \notin {"remove_each", "siocsifaddr", "siocsifnetmask", "siocsifdstaddr"}
    BY <1>4 DEF Asks, TunGetIff, IfNameToIndex, GetByName, ListAddresses, GetIfAddrs,
             LookUpV6, At, GetCalls
  <2>3. m \in {0, 1, 2, 4, 6, 8}
    BY <1>0, <2>2 DEF NetworkCall
  <2>4. GoesOn(t) /\ Made(t)' = m + 1 /\ ~Leaves(t)
    BY <1>0, <1>2, <1>3, <2>1, <2>3
  <2>5. m = 2 => th'[t].left = AddrsV4(Own')
    <3>1. CASE m = 2
      <4>1. c = "list_all"
        BY <1>0, <3>1 DEF NetworkCall
      <4>2. ListAddresses(t) /\ th[t].idx = dev.own
        <5>1. HasIndex(t)
          BY <4>1, CurrentCall DEF IInv, ByIndex, Replacing
        <5>2. ListAddresses(t)
          BY <1>4, <4>1 DEF Asks, TunGetIff, IfNameToIndex, GetByName, GetIfAddrs,
                       LookUpV6, At, GetCalls
        <5> QED BY <1>0, <5>1, <5>2 DEF IInv, NameInv
      <4>3. th'[t].left = AddrsV4(ifs[th[t].idx])
        BY <2>4, <4>1, <4>2, ListedAll DEF IInv
      <4> QED BY <2>1, <4>2, <4>3 DEF Own
    <3> QED BY <3>1
  <2> HIDE DEF m, c
  <2>6. /\ Made(t)' = 3 => m = 2
        /\ Made(t)' \in {4, 5} => m = 4
        /\ Made(t)' \in {6, 7} => m = 6
        /\ Made(t)' \in {8, 9} => m = 8
    BY <2>3, <2>4
  <2> QED BY <2>1, <2>4, <2>5, <2>6 DEF IInv, NetworkInv, Replacing, m
<1>7. /\ Leaves(t) => m = (IF o.dst = None THEN 7 ELSE 9)
      /\ ~Leaves(t) /\ GoesOn(t) => m # 9
  BY <1>2, <1>3, ReplacingAt
<1>5. CASE Writing(t)
  <2>1. /\ c \in SetCalls \cup IndexCalls \cup FdCalls
        /\ ifs' = [ifs EXCEPT ![dev.own] = Written(Own, c, o)]
        /\ Leaves(t) \/ GoesOn(t)
    BY <1>5, WritingStep
  <2>2. Own' = Written(Own, c, o)
    BY <1>1, <2>1 DEF Own
  <2>3. m \in {5, 7, 9}
    BY <2>1, ReplacingAt
  <2>4. CASE m = 5
    <3>1. c = "siocsifaddr" /\ Own.v4 = <<>>
      BY <2>4, ReplacingAt
    <3> HIDE DEF m, c, o
    <3>2. Own'.v4 = <<V4(o.arg)>>
      BY <1>1, <2>2, <3>1, WrittenNetwork
    <3>3. ~Leaves(t) /\ Made(t)' = 6
      BY <1>7, <1>3, <2>1, <2>4
    <3> QED BY <3>2, <3>3 DEF o
  <2>5. CASE m = 7
    <3> DEFINE e == V4(o.arg)
    <3>1. c = "siocsifnetmask" /\ Own.v4 = <<e>>
      BY <2>5, ReplacingAt
    <3>2. Own'.v4 = <<[e EXCEPT !.mask = "asked"]>>
      <4> HIDE DEF e, m, c, o
      <4> QED BY <1>1, <2>2, <3>1, WrittenNetwork
    <3>3. CASE Leaves(t)
      <4>1. o.dst = None
        <5> HIDE DEF m, c, o
        <5> QED BY <1>7, <2>5, <3>3
      <4>2. [e EXCEPT !.mask = "asked"] = TheAddress(o)
        BY <4>1 DEF V4, TheAddress
      <4> QED BY <3>2, <3>3, <4>2
    <3>4. CASE ~Leaves(t)
      <4>1. Made(t)' = 8
        <5> HIDE DEF m, c, o
        <5> QED BY <1>3, <2>1, <2>5, <3>4
      <4> QED BY <3>2, <3>4, <4>1
    <3> QED BY <3>3, <3>4
  <2>6. CASE m = 9
    <3> DEFINE e == [V4(o.arg) EXCEPT !.mask = "asked"]
    <3>1. c = "siocsifdstaddr" /\ Own.v4 = <<e>>
      BY <2>6, ReplacingAt
    <3>2. Own'.v4 = <<[e EXCEPT !.dst = o.dst]>>
      <4> HIDE DEF e, m, c, o
      <4>1. Written(Own, "siocsifdstaddr", o).v4 = <<[e EXCEPT !.dst = o.dst]>>
        <5>1. \A d : Own.v4 = <<d>> =>
                Written(Own, "siocsifdstaddr", o).v4 = <<[d EXCEPT !.dst = o.dst]>>
          BY <1>1, WrittenNetwork
        <5> QED BY <3>1, <5>1
      <4> QED BY <2>2, <3>1, <4>1
    <3>3. Leaves(t)
      <4> HIDE DEF m, c, o
      <4> QED BY <1>7, <2>1, <2>6
    <3>4. [e EXCEPT !.dst = o.dst] = TheAddress(o)
      <4>1. e = [addr |-> o.arg, mask |-> "asked", dst |-> None]
        BY DEF V4
      <4> HIDE DEF e, o
      <4> QED BY <4>1 DEF TheAddress
    <3> QED BY <3>2, <3>3, <3>4
  <2> QED BY <2>3, <2>4, <2>5, <2>6
<1>6. CASE RemoveEach(t)
  <2>1. c = "remove_each"
    BY <1>6 DEF RemoveEach, At
  <2>2. m = 3 /\ th[t].left = AddrsV4(Own)
    BY <2>1, ReplacingAt
  <2>3. ~Leaves(t)
    <3> HIDE DEF m, c, o
    <3> QED BY <1>7, <2>2
  <2>4. ASSUME th[t].left = {}, ifs' = ifs, GoesOn(t)
        PROVE  Made(t)' = 4 /\ Own'.v4 = <<>>
    <3>1. DOMAIN Own.v4 = {} /\ Own.v4 \in Seq(V4Address)
      <4>1. ASSUME NEW k \in DOMAIN Own.v4 PROVE Own.v4[k].addr \in AddrsV4(Own)
        BY DEF AddrsV4
      <4>2. Own.v4 \in Seq(V4Address)
        BY <1>1 DEF InterfaceOk
      <4> QED BY <2>2, <2>4, <4>1, <4>2
    <3>2. Own.v4 = <<>>
      BY <3>1, EmptyDomain
    <3>3. Own' = Own
      BY <1>1, <2>4 DEF Own
    <3>4. Made(t)' = 4
      <4> HIDE DEF m, c, o
      <4> QED BY <1>3, <2>2, <2>4
    <3> QED BY <3>2, <3>3, <3>4
  <2>5. ASSUME NEW k \in DOMAIN Own.v4, Stays(t),
               ifs' = [ifs EXCEPT ![dev.own] = [@ EXCEPT !.v4 = RemoveAt(Own.v4, k)]],
               th'[t].left = th[t].left \ {Own.v4[k].addr}
        PROVE  Made(t)' = 3 /\ th'[t].left = AddrsV4(Own')
    <3>1. Own' = [Own EXCEPT !.v4 = RemoveAt(Own.v4, k)]
      BY <1>1, <2>5 DEF Own
    <3>2. Own'.v4 = RemoveAt(Own.v4, k)
      BY <1>1, <3>1 DEF InterfaceOk
    <3>3. AddrsV4(Own') = AddrsV4(Own) \ {Own.v4[k].addr}
      <4> DEFINE v == Own.v4
                 r == RemoveAt(v, k)
      <4>1. v \in Seq(V4Address) /\ Distinct(v) /\ k \in DOMAIN v
        BY <1>1 DEF InterfaceOk
      <4>2. AddrsV4(Own') = {r[j].addr : j \in DOMAIN r}
        BY <3>2 DEF AddrsV4
      <4>3. AddrsV4(Own) = {v[j].addr : j \in DOMAIN v}
        BY DEF AddrsV4
      <4> HIDE DEF v
      <4>4. {r[j].addr : j \in DOMAIN r} = {v[j].addr : j \in DOMAIN v} \ {v[k].addr}
        BY <4>1, RemoveAddress
      <4> QED BY <4>2, <4>3, <4>4 DEF v
    <3>4. Made(t)' = 3
      BY <2>2, <2>5, ProgressKept DEF IInv
    <3> QED BY <2>2, <2>5, <3>3, <3>4
  <2>6. \/ Made(t)' = 4 /\ Own'.v4 = <<>>
        \/ Made(t)' = 3 /\ th'[t].left = AddrsV4(Own')
    BY <1>6, <2>3, <2>4, <2>5, RemovingStep
  <2> QED BY <2>3, <2>6
<1> QED BY <1>4, <1>5, <1>6 DEF Calling

(* No other operation changes the addresses meanwhile: it would hold       *)
(* op_lock as well.                                                        *)
LEMMA CallingNetwork ==
  ASSUME IInv, NEW t \in Thread, Calling(t) PROVE NetworkInv'
<1> USE DEF IInv
<1>1. ~Idle(t) /\ dev' = dev /\ (Leaves(t) \/ Stays(t) \/ GoesOn(t)) /\ Alone(t)
  BY CallingMoves DEF Leaves, Stays, GoesOn
<1> SUFFICES ASSUME NEW u \in Thread, Replacing(u)'
             PROVE  /\ Made(u)' = 3 => th'[u].left = AddrsV4(Own')
                    /\ Made(u)' \in {4, 5} => Own'.v4 = <<>>
                    /\ Made(u)' \in {6, 7} => Own'.v4 = <<V4(th'[u].op.arg)>>
                    /\ Made(u)' \in {8, 9} =>
                         Own'.v4 = <<[V4(th'[u].op.arg) EXCEPT !.mask = "asked"]>>
  BY DEF NetworkInv, Replacing
<1>2. CASE u = t
  <2>1. ~Leaves(t)
    BY <1>2, LeavesIdle DEF Replacing
  <2>2. th'[t].op = th[t].op /\ Replacing(t)
    BY <1>1, <1>2, <2>1 DEF Stays, GoesOn, Replacing
  <2> QED BY <1>2, <2>1, <2>2, ReplacingStep
<1>3. CASE u # t
  <2>1. th'[u] = th[u] /\ Replacing(u) /\ Made(u)' = Made(u)
    BY <1>1, <1>3, OthersKept DEF Replacing
  <2>2. LockOf(th[t].op) = "none"
    BY <1>1, <1>3, <2>1, ReplacingCall DEF LockInv, Replacing
  <2>3. Asks(t)
    BY <2>2, WritingStep, RemovingStep DEF Calling
  <2>4. Own' = Own
    BY <2>3, AskingStep DEF Own
  <2> QED BY <2>1, <2>4 DEF NetworkInv, Replacing
<1> QED BY <1>2, <1>3

(***************************************************************************)
(* DeviceBuilder::config.                                                  *)
(***************************************************************************)

(* The calls that only ask write nothing. *)
LEMMA AskingCall ==
  ASSUME NEW t \in Thread, Asks(t)
  PROVE  Head(th[t].todo) \notin SetCalls \cup IndexCalls \cup FdCalls \cup {"remove_each"}
  BY DEF Asks, TunGetIff, IfNameToIndex, GetByName, ListAddresses, GetIfAddrs, LookUpV6, At,
         GetCalls, SetCalls, IndexCalls, FdCalls

(* Which calls its other operations, and two getters, make, and which one  *)
(* is the last.                                                            *)
LEMMA ConfigCall ==
  ASSUME ProgressInv, NEW t \in Thread, ~Idle(t)
  PROVE  LET o == th[t].op
             c == Head(th[t].todo)
             last == Made(t) + 1 = Len(Script(o))
         IN  /\ o.kind = "set_mtu" =>
                  c \in {"tungetiff", "siocsifmtu"} /\ (last => c = "siocsifmtu")
             /\ o.kind = "enabled" =>
                  /\ c \in {"tungetiff", "siocgifflags", "siocsifflags"}
                  /\ last => c = "siocsifflags"
             /\ o.kind = "add_address_v6" =>
                  /\ c \in {"tungetiff", "if_nametoindex", "siocsifaddr_in6"}
                  /\ last => c = "siocsifaddr_in6"
             /\ o.kind = "mtu" =>
                  c \in {"tungetiff", "siocgifmtu"} /\ (last => c = "siocgifmtu")
             /\ o.kind = "if_index" =>
                  c \in {"tungetiff", "if_nametoindex"} /\ (last => c = "if_nametoindex")
<1> DEFINE o == th[t].op
           c == Head(th[t].todo)
           s == Script(o)
           m == Made(t)
           n == Len(s)
<1>1. m \in Nat /\ n \in Nat /\ m + 1 \in 1..n /\ c = s[m + 1]
  BY CurrentCall
<1>2. /\ o.kind = "set_mtu" => n = 2 /\ s[1] = "tungetiff" /\ s[2] = "siocsifmtu"
      /\ o.kind = "enabled" => /\ n = 3 /\ s[1] = "tungetiff"
                               /\ s[2] = "siocgifflags" /\ s[3] = "siocsifflags"
      /\ o.kind = "add_address_v6" => /\ n = 3 /\ s[1] = "tungetiff"
                                      /\ s[2] = "if_nametoindex"
                                      /\ s[3] = "siocsifaddr_in6"
      /\ o.kind = "mtu" => n = 2 /\ s[1] = "tungetiff" /\ s[2] = "siocgifmtu"
      /\ o.kind = "if_index" => n = 2 /\ s[1] = "tungetiff" /\ s[2] = "if_nametoindex"
  BY ShortScripts
<1> HIDE DEF m, n, s, c, o
<1>3. /\ n = 2 => m + 1 \in {1, 2}
      /\ n = 3 => m + 1 \in {1, 2, 3}
  BY <1>1
<1> QED BY <1>1, <1>2, <1>3 DEF m, n, s, c, o

(* What a call of config does to the interface: it writes the value the    *)
(* builder was told, and has written it when the operation returns.        *)
LEMMA ConfigEffect ==
  ASSUME IInv, NEW t \in Thread, Calling(t), dev.phase = "config"
  PROVE  LET o == th[t].op IN
         /\ Own'.name = Own.name /\ Own.v6 \subseteq Own'.v6
         /\ \/ Own'.attr["mtu"] = Own.attr["mtu"]
            \/ o.kind = "set_mtu" /\ Own'.attr["mtu"] = o.arg
         /\ \/ Own'.attr["up"] = Own.attr["up"]
            \/ o.kind = "enabled" /\ Own'.attr["up"] = o.arg
         /\ Own'.v4 = Own.v4 \/ o.kind = "set_network_address"
         /\ Leaves(t) =>
              /\ o.kind = "set_mtu" => Own'.attr["mtu"] = o.arg
              /\ o.kind = "enabled" => Own'.attr["up"] = o.arg
              /\ o.kind = "add_address_v6" => o.arg \in Own'.v6
              /\ o.kind = "set_network_address" => Own'.v4 = <<TheAddress(o)>>
<1> DEFINE o == th[t].op
           c == Head(th[t].todo)
<1> USE DEF IInv
<1>1. /\ ~Idle(t) /\ dev' = dev /\ dev.own \in Index /\ InterfaceOk(Own) /\ DOMAIN ifs = Index
  BY CallingMoves DEF KernelInv, Own
<1>2. o.kind \in {"set_mtu", "set_network_address", "add_address_v6", "enabled"} /\ OpOk(o)
  BY <1>1, CurrentCall DEF LockInv, ConfigOp
<1>3. c # "getifaddrs_v6"
  BY <1>1, <1>2, ConfigCall, ReplacingAt DEF Replacing
<1>4. Leaves(t) =>
        /\ o.kind = "set_mtu" => c = "siocsifmtu"
        /\ o.kind = "enabled" => c = "siocsifflags"
        /\ o.kind = "add_address_v6" => c = "siocsifaddr_in6"
  BY <1>1, <1>3, ReturnsAtEnd, ConfigCall
<1>5. Leaves(t) /\ o.kind = "set_network_address" => Own'.v4 = <<TheAddress(o)>>
  BY <1>1, ReplacingStep DEF Replacing
<1>6. CASE Asks(t)
  <2>1. Own' = Own
    BY <1>6, AskingStep DEF Own
  <2>2. c \notin SetCalls \cup IndexCalls \cup FdCalls
    BY <1>6, AskingCall
  <2>3. c \notin {"siocsifmtu", "siocsifflags", "siocsifaddr_in6"}
    BY <2>2 DEF SetCalls, IndexCalls
  <2> QED BY <1>4, <1>5, <2>1, <2>3
<1>7. CASE Writing(t)
  <2>1. /\ c \in SetCalls \cup IndexCalls \cup FdCalls /\ ~Refused(Own, c, o)
        /\ ifs' = [ifs EXCEPT ![dev.own] = Written(Own, c, o)]
        /\ c = "siocsifname" => o.kind = "set_name"
    BY <1>7, WritingStep
  <2>2. Own' = Written(Own, c, o)
    BY <1>1, <2>1 DEF Own
  <2>3. Own'.name = Own.name
    <3>1. c # "siocsifname"
      BY <1>2, <2>1
    <3> HIDE DEF c, o
    <3> QED BY <1>1, <1>2, <2>1, <2>2, <3>1, WrittenOk
  <2>4. CASE o.kind = "set_mtu"
    <3>1. c = "siocsifmtu"
      BY <1>1, <2>1, <2>4, ConfigCall DEF SetCalls, IndexCalls, FdCalls
    <3> HIDE DEF c, o
    <3>2. /\ Own'.attr["mtu"] = o.arg /\ Own'.attr["up"] = Own.attr["up"]
          /\ Own'.v4 = Own.v4 /\ Own'.v6 = Own.v6
      BY <1>1, <2>2, <3>1, WrittenConfig
    <3> QED BY <2>3, <2>4, <3>2 DEF o
  <2>5. CASE o.kind = "enabled"
    <3>1. c = "siocsifflags"
      BY <1>1, <2>1, <2>5, ConfigCall DEF SetCalls, IndexCalls, FdCalls
    <3> HIDE DEF c, o
    <3>2. /\ Own'.attr["up"] = o.arg /\ Own'.attr["mtu"] = Own.attr["mtu"]
          /\ Own'.v4 = Own.v4 /\ Own'.v6 = Own.v6
      BY <1>1, <2>2, <3>1, WrittenConfig
    <3> QED BY <2>3, <2>5, <3>2 DEF o
  <2>6. CASE o.kind = "add_address_v6"
    <3>1. c = "siocsifaddr_in6"
      BY <1>1, <2>1, <2>6, ConfigCall DEF SetCalls, IndexCalls, FdCalls
    <3> HIDE DEF c, o
    <3>2. Own'.v6 = Own.v6 \cup {o.arg} /\ Own'.v4 = Own.v4 /\ Own'.attr = Own.attr
      BY <1>1, <2>2, <3>1, WrittenConfig
    <3> QED BY <2>3, <2>6, <3>2 DEF o
  <2>7. CASE o.kind = "set_network_address"
    <3>1. c \in {"siocsifaddr", "siocsifnetmask", "siocsifdstaddr"}
      <4>1. Made(t) \in {5, 7, 9}
        BY <1>1, <2>1, <2>7, ReplacingAt DEF Replacing
      <4>2. /\ Made(t) = 5 => c = "siocsifaddr"
            /\ Made(t) = 7 => c = "siocsifnetmask"
            /\ Made(t) = 9 => c = "siocsifdstaddr"
        BY <1>1, <2>7, ReplacingAt DEF Replacing
      <4> HIDE DEF c, o
      <4> QED BY <4>1, <4>2
    <3>2. Own'.v6 = Own.v6 /\ Own'.attr = Own.attr
      <4> HIDE DEF c, o
      <4> QED BY <1>1, <2>2, <3>1, WrittenConfig
    <3> QED BY <1>5, <2>3, <2>7, <3>2
  <2> QED BY <1>2, <2>4, <2>5, <2>6, <2>7
<1>8. CASE RemoveEach(t)
  <2>1. c = "remove_each"
    BY <1>8 DEF RemoveEach, At
  <2>2. o.kind = "set_network_address"
    BY <1>1, <1>2, <2>1, ConfigCall
  <2>3. Own'.name = Own.name /\ Own'.v6 = Own.v6 /\ Own'.attr = Own.attr
    <3>1. CASE ifs' = ifs
      BY <1>1, <3>1 DEF Own
    <3>2. ASSUME NEW k, ifs' = [ifs EXCEPT ![dev.own] = [@ EXCEPT !.v4 = RemoveAt(Own.v4, k)]]
          PROVE  Own'.name = Own.name /\ Own'.v6 = Own.v6 /\ Own'.attr = Own.attr
      <4>1. Own' = [Own EXCEPT !.v4 = RemoveAt(Own.v4, k)]
        BY <1>1, <3>2 DEF Own
      <4> QED BY <1>1, <4>1 DEF InterfaceOk
    <3> QED BY <1>8, <3>1, <3>2, RemovingStep
  <2> QED BY <1>5, <2>2, <2>3
<1> QED BY <1>6, <1>7, <1>8 DEF Calling

(* A value that was pending still is, unless its operation has returned.   *)
LEMMA StillPending ==
  ASSUME IInv, NEW t \in Thread, Calling(t), NEW kind, NEW arg, Pending(kind, arg)
  PROVE  Pending(kind, arg)' \/ (Leaves(t) /\ th[t].op.kind = kind /\ th[t].op.arg = arg)
<1>1. dev' = dev /\ (Leaves(t) \/ Stays(t) \/ GoesOn(t)) /\ Alone(t)
  BY CallingMoves DEF Leaves, Stays, GoesOn
<1>2. CASE \E k \in DOMAIN dev.plan : dev.plan[k].kind = kind /\ dev.plan[k].arg = arg
  BY <1>1, <1>2 DEF Pending
<1>3. ASSUME NEW u \in Thread, ~Idle(u), th[u].op.kind = kind, th[u].op.arg = arg
      PROVE  Pending(kind, arg)' \/ (Leaves(t) /\ th[t].op.kind = kind /\ th[t].op.arg = arg)
  <2>1. CASE u # t
    <3>1. th'[u] = th[u] /\ ~Idle(u)'
      BY <1>1, <1>3, <2>1, OthersKept
    <3> QED BY <1>3, <3>1 DEF Pending
  <2>2. CASE u = t /\ ~Leaves(t)
    <3>1. th'[t].op = th[t].op /\ ~Idle(t)'
      BY <1>1, <2>2 DEF Stays, GoesOn, Idle
    <3> QED BY <1>3, <2>2, <3>1 DEF Pending
  <2> QED BY <1>3, <2>1, <2>2
<1> QED BY <1>2, <1>3 DEF Pending

(* Whatever is in force or pending stays so: an operation of config that   *)
(* returns has written the value it was called for.                        *)
LEMMA CallingConfig ==
  ASSUME IInv, NEW t \in Thread, Calling(t) PROVE ConfigInv'
<1> DEFINE o == th[t].op
<1> USE DEF IInv
<1>0. PICK c : c = dev.config
  OBVIOUS
<1>1. ~Idle(t) /\ dev' = dev /\ dev.phase \in {"config", "ready"} /\ dev'.config = c
  BY <1>0, CallingMoves DEF LockInv
<1>2. CASE dev.phase = "ready"
  BY <1>1, <1>2 DEF ConfigInv
<1>3. CASE dev.phase = "config"
  <2>1. o \in ConfigOp(c)
    BY <1>0, <1>1, <1>3 DEF LockInv
  <2>2. /\ o.kind = "set_mtu" => o.arg = c.mtu
        /\ o.kind = "set_network_address" => o.arg = c.ipv4 /\ o.dst = c.dst
        /\ o.kind = "enabled" => o.arg = c.enabled
    BY <2>1 DEF ConfigOp
  <2>3. /\ Own'.name = Own.name /\ Own.v6 \subseteq Own'.v6
        /\ Own'.attr["mtu"] # Own.attr["mtu"] => Own'.attr["mtu"] = c.mtu
        /\ Own'.attr["up"] # Own.attr["up"] => Own'.attr["up"] = c.enabled
        /\ Own'.v4 = Own.v4 \/ o.kind = "set_network_address"
        /\ Leaves(t) =>
             /\ o.kind = "set_mtu" => Own'.attr["mtu"] = o.arg
             /\ o.kind = "enabled" => Own'.attr["up"] = o.arg
             /\ o.kind = "add_address_v6" => o.arg \in Own'.v6
             /\ o.kind = "set_network_address" => Own'.v4 = <<TheAddress(o)>>
    BY <1>3, <2>2, ConfigEffect
  <2>4. \A kind, arg : Pending(kind, arg) =>
          Pending(kind, arg)' \/ (Leaves(t) /\ o.kind = kind /\ o.arg = arg)
    BY StillPending
  <2> HIDE DEF o
  <2>5. c.name # None => Own'.name = c.name
    BY <1>0, <1>3, <2>3 DEF ConfigInv
  <2>6. c.mtu # None => Own'.attr["mtu"] = c.mtu \/ Pending("set_mtu", c.mtu)'
    <3>1. c.mtu # None => Own.attr["mtu"] = c.mtu \/ Pending("set_mtu", c.mtu)
      BY <1>0, <1>3 DEF ConfigInv
    <3> QED BY <2>3, <2>4, <3>1
  <2>7. c.enabled # None => Own'.attr["up"] = c.enabled \/ Pending("enabled", c.enabled)'
    <3>1. c.enabled # None => Own.attr["up"] = c.enabled \/ Pending("enabled", c.enabled)
      BY <1>0, <1>3 DEF ConfigInv
    <3> QED BY <2>3, <2>4, <3>1
  <2>8. ASSUME NEW k \in DOMAIN c.ipv6
        PROVE  c.ipv6[k] \in Own'.v6 \/ Pending("add_address_v6", c.ipv6[k])'
    <3>1. c.ipv6[k] \in Own.v6 \/ Pending("add_address_v6", c.ipv6[k])
      BY <1>0, <1>3 DEF ConfigInv
    <3> QED BY <2>3, <2>4, <3>1
  <2>9. c.ipv4 # None =>
          \/ Own'.v4 = <<[addr |-> c.ipv4, mask |-> "asked", dst |-> c.dst]>>
          \/ Pending("set_network_address", c.ipv4)'
    <3>1. CASE o.kind = "set_network_address"
      <4>1. TheAddress(o) = [addr |-> c.ipv4, mask |-> "asked", dst |-> c.dst]
        BY <2>2, <3>1 DEF TheAddress
      <4>2. Pending("set_network_address", c.ipv4)
        BY <1>1, <2>2, <3>1 DEF Pending, o
      <4> QED BY <2>3, <2>4, <3>1, <4>1, <4>2
    <3>2. CASE o.kind # "set_network_address"
      <4>1. c.ipv4 # None =>
              \/ Own.v4 = <<[addr |-> c.ipv4, mask |-> "asked", dst |-> c.dst]>>
              \/ Pending("set_network_address", c.ipv4)
        BY <1>0, <1>3 DEF ConfigInv
      <4> QED BY <2>3, <2>4, <3>2, <4>1
    <3> QED BY <3>1, <3>2
  <2> QED BY <1>1, <1>3, <2>5, <2>6, <2>7, <2>8, <2>9 DEF ConfigInv
<1> QED BY <1>1, <1>2, <1>3

(* Every call that succeeds. *)
LEMMA CallingKeeps ==
  ASSUME IInv, NEW t \in Thread, Calling(t) PROVE IInv'
<1>1. KernelInv' /\ DevInv' /\ OffloadAgrees' /\ NameInv' /\ NetworkInv' /\ ConfigInv'
  BY CallingKernel, CallingNetwork, CallingConfig
<1>2. ProgressInv' /\ LockInv'
  BY CallingMoves, ProgressKept, LockKept DEF IInv
<1> QED BY <1>1, <1>2 DEF IInv

(***************************************************************************)
(* The other steps.  Most are taken when no operation is in progress.      *)
(***************************************************************************)

AllIdle == \A t \in Thread : Idle(t)

(* With no operation in progress what is said of operations is vacuous.    *)
LEMMA IdleInvs ==
  ASSUME AllIdle', DOMAIN th' = Thread, \A t \in Thread : DOMAIN th'[t] = ThreadFields
  PROVE  ProgressInv' /\ LockInv' /\ NameInv' /\ NetworkInv'
  BY DEF AllIdle, ProgressInv, LockInv, NameInv, NetworkInv, Locked, ThreadFields

(* While the device is built only the thread that builds it can be busy.   *)
LEMMA BuilderAlone ==
  ASSUME LockInv
  PROVE  /\ dev.phase \notin {"config", "ready"} => AllIdle
         /\ dev.phase = "config" => \A u \in Thread : u = dev.by \/ Idle(u)
  BY DEF LockInv, AllIdle

(* Closing the descriptor, whatever is in progress, with every thread out  *)
(* of its operation behind it: the device's interface is deleted or stays  *)
(* as a persistent one that nobody has open.                               *)
LEMMA CloseKeeps ==
  ASSUME IInv, Close, AllIdle', DOMAIN th' = Thread, \A t \in Thread : DOMAIN th'[t] = ThreadFields
  PROVE  IInv'
<1> USE DEF IInv
<1>1. ProgressInv' /\ LockInv' /\ NameInv' /\ NetworkInv'
  BY IdleInvs
<1>2. dev' = NoDev /\ ifs' = IF dev.own = 0 THEN ifs ELSE Closed
  BY DEF Close
<1>3. DevInv'
  <2>1. dev'.phase = "none" /\ dev'.own = 0
    BY <1>2 DEF NoDev
  <2>2. DOMAIN dev' = {"phase", "own", "config", "vnet_hdr", "udp_gso", "warned", "adopted",
                       "plan", "by"}
    BY <1>2 DEF NoDev
  <2> QED BY <2>1, <2>2 DEF DevInv
<1>4. OffloadAgrees' /\ ConfigInv'
  BY <1>2 DEF OffloadAgrees, ConfigInv, NoDev
<1>5. KernelInv'
  <2>1. dev'.own = 0 /\ 0 \notin Index
    BY <1>2 DEF NoDev, Index
  <2>2. CASE dev.own = 0
    BY <1>2, <2>1, <2>2 DEF KernelInv, Present
  <2>3. CASE dev.own # 0
    <3> DEFINE i == dev.own
               f == ifs[i]
    <3>1. i \in Index /\ f.tun /\ i # Other /\ InterfaceOk(f) /\ DOMAIN ifs = Index
      BY <2>3 DEF DevInv, KernelInv, Own
    <3>2. PICK g : /\ ifs' = [ifs EXCEPT ![i] = g] /\ InterfaceOk(g)
                   /\ g.name \in {None, f.name}
                   /\ g.tun => ~g.attached /\ g.attr["persist"] = 1
      <4>1. CASE f.attr["persist"] = 1
        <5> DEFINE g == [f EXCEPT !.attached = FALSE]
        <5>1. ifs' = [ifs EXCEPT ![i] = g]
          BY <1>2, <2>3, <4>1 DEF Closed
        <5>2. InterfaceOk(g) /\ g.name = f.name /\ ~g.attached /\ g.attr = f.attr
          BY <3>1 DEF InterfaceOk
        <5> HIDE DEF g
        <5> QED BY <4>1, <5>1, <5>2
      <4>2. CASE f.attr["persist"] # 1
        <5>1. ifs' = [ifs EXCEPT ![i] = Absent]
          BY <1>2, <2>3, <4>2 DEF Closed
        <5>2. InterfaceOk(Absent) /\ Absent.name = None /\ ~Absent.tun
          <6>1. <<>> \in Seq(V4Address) /\ Distinct(<<>>)
            BY DEF Distinct
          <6> QED BY <6>1 DEF InterfaceOk, Absent
        <5> QED BY <5>1, <5>2
      <4> QED BY <4>1, <4>2
    <3> HIDE DEF i, f
    <3>3. \A j \in Index \ {i} : ifs'[j] = ifs[j]
      BY <3>1, <3>2
    <3>4. ifs'[i] = g /\ DOMAIN ifs' = Index
      BY <3>1, <3>2
    <3>5. \A j \in Index : Present(j)' => Present(j) /\ ifs'[j].name = ifs[j].name
      BY <3>2, <3>3, <3>4 DEF Present, f
    <3>6. \A j \in Index : InterfaceOk(ifs'[j])
      BY <3>2, <3>3, <3>4 DEF KernelInv
    <3>7. Present(Other)' /\ ~ifs'[Other].tun
      <4>1. Other \in Index
        BY SizesAssumption DEF Other, Index
      <4> QED BY <3>1, <3>3, <4>1 DEF KernelInv, Present
    <3>8. \A j, k \in Index : Present(j)' /\ ifs'[j].name = ifs'[k].name => j = k
      BY <3>5 DEF KernelInv, Present
    <3>9. \A j \in Index : ifs'[j].tun => ~ifs'[j].attached /\ ifs'[j].attr["persist"] = 1
      BY <3>2, <3>3, <3>4 DEF KernelInv, i
    <3> QED BY <3>4, <3>6, <3>7, <3>8, <3>9 DEF KernelInv
  <2> QED BY <2>2, <2>3
<1> QED BY <1>1, <1>3, <1>4, <1>5

(* An error in build_async or from_fd. *)
LEMMA BuildFailsKeeps ==
  ASSUME IInv, NEW t \in Thread, BuildFails(t), \A u \in Thread \ {t} : Idle(u)
  PROVE  IInv'
<1>1. DOMAIN th = Thread /\ \A u \in Thread : DOMAIN th[u] = ThreadFields
  BY DEF IInv, ProgressInv, ThreadFields
<1>2. th' = [th EXCEPT ![t] = IdleThread(NoRet)] /\ Close
  BY DEF BuildFails
<1>3. IdleThread(NoRet).op = NoOp /\ DOMAIN IdleThread(NoRet) = ThreadFields
  BY DEF IdleThread, ThreadFields
<1>4. AllIdle' /\ DOMAIN th' = Thread /\ \A u \in Thread : DOMAIN th'[u] = ThreadFields
  BY <1>1, <1>2, <1>3 DEF AllIdle, Idle
<1> QED BY <1>2, <1>4, CloseKeeps

(* The ends of the device. *)
LEMMA EndKeeps ==
  ASSUME IInv, Drop \/ CallerCloses \/ Crash PROVE IInv'
<1>1. DOMAIN th = Thread /\ \A u \in Thread : DOMAIN th[u] = ThreadFields
  BY DEF IInv, ProgressInv, ThreadFields
<1>2. CASE Drop \/ CallerCloses
  <2>1. AllIdle /\ th' = th /\ Close
    BY <1>2, BuilderAlone DEF Drop, CallerCloses, AllIdle, IInv
  <2>2. AllIdle'
    BY <2>1 DEF AllIdle, Idle
  <2> QED BY <1>1, <2>1, <2>2, CloseKeeps
<1>3. CASE Crash
  <2>1. Close /\ th' = [t \in Thread |-> IdleThread(NoRet)]
    BY <1>3 DEF Crash
  <2>2. IdleThread(NoRet).op = NoOp /\ DOMAIN IdleThread(NoRet) = ThreadFields
    BY DEF IdleThread, ThreadFields
  <2>3. AllIdle' /\ DOMAIN th' = Thread /\ \A u \in Thread : DOMAIN th'[u] = ThreadFields
    BY <2>1, <2>2 DEF AllIdle, Idle
  <2> QED BY <2>1, <2>3, CloseKeeps
<1> QED BY <1>2, <1>3

(* Steps that leave the idle threads as they are. *)
LEMMA IdleThreads ==
  ASSUME ProgressInv, AllIdle, th' = th
  PROVE  ProgressInv' /\ LockInv' /\ NameInv' /\ NetworkInv'
<1>1. AllIdle' /\ DOMAIN th' = Thread /\ \A t \in Thread : DOMAIN th'[t] = ThreadFields
  BY DEF ProgressInv, ThreadFields, AllIdle, Idle
<1> QED BY <1>1, IdleInvs

(* new: open the TUN control device. *)
LEMMA OpenKeeps ==
  ASSUME IInv, NEW t \in Thread, NEW c \in Config, Open(t, c) PROVE IInv'
<1> USE DEF IInv
<1>1. dev = NoDev /\ th' = th /\ ifs' = ifs
      /\ dev' = [NoDev EXCEPT !.phase = "opened", !.config = c, !.by = t]
  BY DEF Open
<1>2. /\ dev.phase = "none" /\ dev.own = 0
      /\ dev'.phase = "opened" /\ dev'.own = 0 /\ dev'.config = c
  BY <1>1 DEF NoDev
<1>3. AllIdle
  BY <1>2, BuilderAlone
<1>4. ProgressInv' /\ LockInv' /\ NameInv' /\ NetworkInv'
  BY <1>1, <1>3, IdleThreads
<1>5. KernelInv' /\ OffloadAgrees' /\ ConfigInv'
  BY <1>1, <1>2 DEF KernelInv, Present, OffloadAgrees, ConfigInv
<1>6. DevInv'
  <2>1. DOMAIN dev' = {"phase", "own", "config", "vnet_hdr", "udp_gso", "warned", "adopted",
                       "plan", "by"}
    BY <1>1 DEF NoDev
  <2> QED BY <1>2, <2>1 DEF DevInv
<1> QED BY <1>4, <1>5, <1>6

(* new: TUNSETIFF creates an interface or attaches to one.                 *)
LEMMA TunSetIffKeeps ==
  ASSUME IInv, NEW t \in Thread, TunSetIff(t) PROVE IInv'
<1> USE DEF IInv
<1>1. PICK i \in Index, n \in Name :
        /\ \/ Attachable(i, dev.config) /\ n = ifs[i].name
           \/ Creatable(i, n, dev.config)
        /\ ifs' = [ifs EXCEPT ![i] = [@ EXCEPT !.name = n, !.tun = TRUE, !.attached = TRUE,
                                               !.vnet = dev.config.offload]]
        /\ dev' = [dev EXCEPT !.phase = "attached", !.own = i]
  BY DEF TunSetIff
<1> DEFINE g == [ifs[i] EXCEPT !.name = n, !.tun = TRUE, !.attached = TRUE,
                               !.vnet = dev.config.offload]
<1>2. /\ dev.phase = "opened" /\ dev.own = 0 /\ th' = th /\ dev.config \in Config
      /\ DOMAIN ifs = Index /\ InterfaceOk(ifs[i])
  BY DEF TunSetIff, DevInv, KernelInv
<1>3. AllIdle
  BY <1>2, BuilderAlone
<1>4. ProgressInv' /\ LockInv' /\ NameInv' /\ NetworkInv'
  BY <1>2, <1>3, IdleThreads
<1>5. /\ dev'.phase = "attached" /\ dev'.own = i /\ dev'.config = dev.config
      /\ DOMAIN dev' = DOMAIN dev
  BY <1>1 DEF DevInv
<1>6. /\ InterfaceOk(g) /\ g.name = n /\ g.tun /\ g.attached
      /\ g.vnet = dev.config.offload
  <2>1. dev.config.offload \in BOOLEAN
    BY <1>2, OpsAssumption
  <2> QED BY <1>2, <2>1 DEF InterfaceOk
<1>7. ifs' = [ifs EXCEPT ![i] = g]
  BY <1>1
<1> HIDE DEF g
<1>8. ifs'[i] = g /\ DOMAIN ifs' = Index /\ \A j \in Index \ {i} : ifs'[j] = ifs[j]
  BY <1>2, <1>7
<1>9. n # None /\ i # 0
  BY OpsAssumption DEF Index
<1>10. DevInv'
  <2>1. Own' = g /\ Present(dev.own)'
    BY <1>5, <1>6, <1>8, <1>9 DEF Own, Present
  <2>2. DOMAIN dev' = {"phase", "own", "config", "vnet_hdr", "udp_gso", "warned", "adopted",
                       "plan", "by"}
    BY <1>5 DEF DevInv
  <2> QED BY <1>2, <1>5, <1>6, <1>9, <2>1, <2>2 DEF DevInv
<1>11. OffloadAgrees'
  BY <1>5 DEF OffloadAgrees
<1>12. ConfigInv'
  <2>1. dev.config.name # None => n = dev.config.name
    BY <1>1 DEF Attachable, Creatable
  <2> QED BY <1>5, <1>6, <1>8, <2>1 DEF ConfigInv, Own
<1>13. KernelInv'
  <2>1. i # Other /\ Other \in Index
    <3>1. Other \in Index
      BY SizesAssumption DEF Other, Index
    <3> QED BY <1>1, <3>1 DEF KernelInv, Attachable, Creatable
  <2>2. \A j \in Index \ {i} : Present(j) => ifs[j].name # n
    <3>1. CASE Attachable(i, dev.config) /\ n = ifs[i].name
      BY <1>9, <3>1 DEF KernelInv, Present
    <3>2. CASE Creatable(i, n, dev.config)
      BY <3>2 DEF Creatable, Named
    <3> QED BY <1>1, <3>1, <3>2
  <2>3. \A j, k \in Index : Present(j)' /\ ifs'[j].name = ifs'[k].name => j = k
    <3> SUFFICES ASSUME NEW j \in Index, NEW k \in Index,
                        Present(j)', ifs'[j].name = ifs'[k].name
                 PROVE  j = k
      OBVIOUS
    <3>1. CASE j # i /\ k # i
      BY <1>8, <3>1 DEF KernelInv, Present
    <3>2. CASE j = i /\ k # i
      BY <1>6, <1>8, <1>9, <2>2, <3>2 DEF Present
    <3>3. CASE j # i /\ k = i
      BY <1>6, <1>8, <1>9, <2>2, <3>3 DEF Present
    <3> QED BY <3>1, <3>2, <3>3
  <2>4. \A j \in Index : InterfaceOk(ifs'[j])
    BY <1>6, <1>8 DEF KernelInv
  <2>5. Present(Other)' /\ ~ifs'[Other].tun
    BY <1>8, <2>1 DEF KernelInv, Present
  <2>6. \A j \in Index \ {i} :
          ifs'[j].tun => ~ifs'[j].attached /\ ifs'[j].attr["persist"] = 1
    <3>1. 0 \notin Index
      BY DEF Index
    <3> QED BY <1>2, <1>8, <3>1 DEF KernelInv
  <2> QED BY <1>5, <1>8, <2>3, <2>4, <2>5, <2>6 DEF KernelInv
<1> QED BY <1>4, <1>10, <1>11, <1>12, <1>13

(* build_async has its device, and the caller or the next builder takes it. *)
LEMMA HandsOverKeeps ==
  ASSUME IInv, NEW t, NewDev(t) \/ IntoRawFd \/ FromFd(t) PROVE IInv'
<1> USE DEF IInv
<1>1. /\ ifs' = ifs /\ th' = th /\ dev'.own = dev.own
      /\ DOMAIN dev' = {"phase", "own", "config", "vnet_hdr", "udp_gso", "warned", "adopted",
                        "plan", "by"}
      /\ dev.phase \in {"config", "ready", "raw"}
  <2>0. DOMAIN NoDev = DOMAIN dev
    BY DEF DevInv, NoDev
  <2>1. CASE NewDev(t)
    BY <2>1 DEF NewDev, DevInv
  <2>2. CASE IntoRawFd
    <3>1. dev' = [NoDev EXCEPT !.phase = "raw", !.own = dev.own] /\ "own" \in DOMAIN NoDev
      BY <2>0, <2>2 DEF IntoRawFd, DevInv
    <3> QED BY <2>0, <2>2, <3>1 DEF IntoRawFd, DevInv
  <2>3. CASE FromFd(t)
    <3>1. /\ dev' = [NoDev EXCEPT !.phase = "config", !.own = dev.own, !.config = NoConfig,
                                  !.adopted = TRUE, !.by = t]
          /\ "own" \in DOMAIN NoDev
      BY <2>0, <2>3 DEF FromFd, DevInv
    <3> QED BY <2>0, <2>3, <3>1 DEF FromFd, DevInv
  <2> QED BY <2>1, <2>2, <2>3
<1>2. AllIdle
  <2>1. CASE NewDev(t)
    BY <2>1, BuilderAlone DEF NewDev, AllIdle
  <2>2. CASE IntoRawFd
    BY <2>2 DEF IntoRawFd, AllIdle
  <2>3. CASE FromFd(t)
    BY <2>3, BuilderAlone DEF FromFd
  <2> QED BY <2>1, <2>2, <2>3
<1>3. ProgressInv' /\ LockInv' /\ NameInv' /\ NetworkInv'
  BY <1>1, <1>2, IdleThreads
<1>4. KernelInv' /\ Own' = Own
  BY <1>1 DEF KernelInv, Present, Own
<1>5. dev.own # 0 /\ dev.own \in Index /\ Present(dev.own)' /\ Own.tun /\ Own.attached
  BY <1>1 DEF DevInv, Present
<1>6. CASE NewDev(t)
  <2>1. /\ dev.phase = "config" /\ dev'.phase = "ready"
        /\ dev'.vnet_hdr = dev.vnet_hdr /\ dev'.udp_gso = dev.udp_gso
        /\ dev'.warned = dev.warned /\ dev'.adopted = dev.adopted
    BY <1>6 DEF NewDev, DevInv
  <2>2. DevInv' /\ ConfigInv'
    BY <1>1, <1>4, <1>5, <2>1 DEF DevInv, ConfigInv
  <2>3. OffloadAgrees'
    BY <1>4, <2>1 DEF OffloadAgrees
  <2> QED BY <1>3, <1>4, <2>2, <2>3
<1>7. CASE IntoRawFd
  <2>1. dev'.phase = "raw"
    BY <1>7 DEF IntoRawFd, NoDev
  <2>2. DevInv' /\ ConfigInv' /\ OffloadAgrees'
    BY <1>1, <1>4, <1>5, <2>1 DEF DevInv, ConfigInv, OffloadAgrees
  <2> QED BY <1>3, <1>4, <2>2
<1>8. CASE FromFd(t)
  <2>1. /\ dev'.phase = "config" /\ dev'.plan = <<>> /\ dev'.config = NoConfig
        /\ dev'.adopted /\ dev'.vnet_hdr = FALSE /\ dev'.udp_gso = FALSE
    BY <1>8 DEF FromFd, NoDev
  <2>2. DevInv'
    <3>1. <<>> \in Seq(ConfigOp(NoConfig))
      OBVIOUS
    <3> QED BY <1>1, <1>4, <1>5, <2>1, <3>1 DEF DevInv
  <2>3. ConfigInv'
    <3>1. /\ NoConfig.name = None /\ NoConfig.mtu = None /\ NoConfig.ipv4 = None
          /\ NoConfig.enabled = None /\ DOMAIN NoConfig.ipv6 = {}
      BY DEF NoConfig
    <3> QED BY <2>1, <3>1 DEF ConfigInv
  <2>4. OffloadAgrees'
    BY <2>1 DEF OffloadAgrees
  <2> QED BY <1>3, <1>4, <2>2, <2>3, <2>4
<1> QED BY <1>6, <1>7, <1>8

Has(s, x) == \E k \in DOMAIN s : s[k] = x

(* A concatenation has what its parts have. *)
LEMMA HasConcat ==
  ASSUME NEW S, NEW a \in Seq(S), NEW b \in Seq(S)
  PROVE  /\ a \o b \in Seq(S)
         /\ \A x : Has(a, x) \/ Has(b, x) => Has(a \o b, x)
<1> DEFINE ab == a \o b
           m == Len(a)
           n == Len(b)
<1>1. /\ ab \in Seq(S) /\ Len(ab) = m + n
      /\ \A k \in 1..m : ab[k] = a[k]
      /\ \A k \in 1..n : ab[m + k] = b[k]
  BY Concat
<1>2. /\ m \in Nat /\ n \in Nat /\ DOMAIN a = 1..m /\ DOMAIN b = 1..n
      /\ DOMAIN ab = 1..Len(ab)
  BY <1>1
<1> HIDE DEF ab, m, n
<1>3. ASSUME NEW k \in DOMAIN a PROVE k \in DOMAIN ab /\ ab[k] = a[k]
  BY <1>1, <1>2
<1>4. ASSUME NEW k \in DOMAIN b PROVE m + k \in DOMAIN ab /\ ab[m + k] = b[k]
  BY <1>1, <1>2
<1> QED BY <1>1, <1>3, <1>4 DEF Has, ab

(* The plan of DeviceBuilder::config: one operation for each value set.    *)
LEMMA PlanShape ==
  ASSUME NEW c \in Config
  PROVE  /\ Plan(c) \in Seq(ConfigOp(c))
         /\ c.mtu # None => Has(Plan(c), [NoOp EXCEPT !.kind = "set_mtu", !.arg = c.mtu])
         /\ c.ipv4 # None =>
              Has(Plan(c), [NoOp EXCEPT !.kind = "set_network_address", !.arg = c.ipv4,
                                        !.dst = c.dst])
         /\ \A k \in DOMAIN c.ipv6 :
              Has(Plan(c), [NoOp EXCEPT !.kind = "add_address_v6", !.arg = c.ipv6[k]])
         /\ c.enabled # None =>
              Has(Plan(c), [NoOp EXCEPT !.kind = "enabled", !.arg = c.enabled])
<1> DEFINE S == ConfigOp(c)
           om == [NoOp EXCEPT !.kind = "set_mtu", !.arg = c.mtu]
           on == [NoOp EXCEPT !.kind = "set_network_address", !.arg = c.ipv4, !.dst = c.dst]
           o6(k) == [NoOp EXCEPT !.kind = "add_address_v6", !.arg = c.ipv6[k]]
           oe == [NoOp EXCEPT !.kind = "enabled", !.arg = c.enabled]
           pm == IF c.mtu = None THEN <<>> ELSE <<om>>
           pn == IF c.ipv4 = None THEN <<>> ELSE <<on>>
           p6 == [k \in DOMAIN c.ipv6 |-> o6(k)]
           pe == IF c.enabled = None THEN <<>> ELSE <<oe>>
<1>1. Plan(c) = ((pm \o pn) \o p6) \o pe
  BY DEF Plan
<1>2. /\ c.mtu \in Args /\ c.ipv4 \in Args /\ c.enabled \in Args
      /\ c.dst \in Dsts /\ None \in Dsts
      /\ \A k \in DOMAIN c.ipv6 : c.ipv6[k] \in Args
  BY DEF Args, Dsts, ToSet
<1>3. om \in S
  <2>1. om \in [kind : {"set_mtu", "set_network_address", "add_address_v6", "enabled"},
               arg : Args, dst : Dsts]
    BY <1>2 DEF NoOp
  <2>2. om.kind = "set_mtu"
    BY DEF NoOp
  <2> QED BY <2>1, <2>2 DEF ConfigOp, NoOp
<1>4. on \in S
  <2>1. on \in [kind : {"set_mtu", "set_network_address", "add_address_v6", "enabled"},
               arg : Args, dst : Dsts]
    BY <1>2 DEF NoOp
  <2>2. on.kind = "set_network_address"
    BY DEF NoOp
  <2> QED BY <2>1, <2>2 DEF ConfigOp, NoOp
<1>5. ASSUME NEW k \in DOMAIN c.ipv6 PROVE o6(k) \in S
  <2>1. o6(k) \in [kind : {"set_mtu", "set_network_address", "add_address_v6", "enabled"},
               arg : Args, dst : Dsts]
    BY <1>2 DEF NoOp
  <2>2. o6(k).kind = "add_address_v6"
    BY DEF NoOp
  <2> QED BY <2>1, <2>2 DEF ConfigOp, NoOp
<1>6. oe \in S
  <2>1. oe \in [kind : {"set_mtu", "set_network_address", "add_address_v6", "enabled"},
               arg : Args, dst : Dsts]
    BY <1>2 DEF NoOp
  <2>2. oe.kind = "enabled"
    BY DEF NoOp
  <2> QED BY <2>1, <2>2 DEF ConfigOp, NoOp
<1> HIDE DEF S, om, on, o6, oe
<1>7. \A x \in S : <<x>> \in Seq(S) /\ Has(<<x>>, x)
  BY DEF Has
<1>8. /\ pm \in Seq(S) /\ (c.mtu # None => Has(pm, om))
      /\ pn \in Seq(S) /\ (c.ipv4 # None => Has(pn, on))
      /\ pe \in Seq(S) /\ (c.enabled # None => Has(pe, oe))
  BY <1>3, <1>4, <1>6, <1>7
<1>9. p6 \in Seq(S) /\ \A k \in DOMAIN c.ipv6 : Has(p6, o6(k))
  <2>1. DOMAIN c.ipv6 = 1..Len(c.ipv6) /\ Len(c.ipv6) \in Nat
    BY OpsAssumption
  <2>2. p6 \in Seq(S)
    BY <1>5, <2>1
  <2>3. \A k \in DOMAIN c.ipv6 : k \in DOMAIN p6 /\ p6[k] = o6(k)
    OBVIOUS
  <2> QED BY <2>2, <2>3 DEF Has
<1> HIDE DEF pm, pn, p6, pe
<1>10. /\ pm \o pn \in Seq(S)
       /\ \A x : Has(pm, x) \/ Has(pn, x) => Has(pm \o pn, x)
  BY <1>8, HasConcat
<1> DEFINE q == pm \o pn
<1> HIDE DEF q
<1>11. /\ q \o p6 \in Seq(S)
       /\ \A x : Has(q, x) \/ Has(p6, x) => Has(q \o p6, x)
  <2>1. q \in Seq(S)
    BY <1>10 DEF q
  <2> QED BY <1>9, <2>1, HasConcat
<1> DEFINE r == q \o p6
<1> HIDE DEF r
<1>12. /\ r \o pe \in Seq(S)
       /\ \A x : Has(r, x) \/ Has(pe, x) => Has(r \o pe, x)
  <2>1. r \in Seq(S)
    BY <1>11 DEF r
  <2> QED BY <1>8, <2>1, HasConcat
<1>13. Plan(c) = r \o pe
  BY <1>1 DEF q, r
<1>14. /\ \A x : Has(q, x) \/ Has(p6, x) => Has(r, x)
       /\ \A x : Has(pm, x) \/ Has(pn, x) => Has(q, x)
  BY <1>10, <1>11 DEF q, r
<1>15. /\ Plan(c) \in Seq(S)
       /\ c.mtu # None => Has(Plan(c), om)
       /\ c.ipv4 # None => Has(Plan(c), on)
       /\ \A k \in DOMAIN c.ipv6 : Has(Plan(c), o6(k))
       /\ c.enabled # None => Has(Plan(c), oe)
  BY <1>8, <1>9, <1>12, <1>13, <1>14
<1> QED BY <1>15 DEF S, om, on, o6, oe

(* new: tunsetoffload, and the plan for config. *)
LEMMA TunSetOffloadKeeps ==
  ASSUME IInv, NEW t \in Thread, TunSetOffload(t) PROVE IInv'
<1> USE DEF IInv
<1>0. PICK c : c = dev.config
  OBVIOUS
<1>1. PICK first \in BOOLEAN, second \in BOOLEAN :
        /\ ifs' = [ifs EXCEPT ![dev.own].mask = OffloadMask(@, c.offload, first, second)]
        /\ dev' = [dev EXCEPT !.phase = "config", !.vnet_hdr = c.offload /\ first,
                              !.udp_gso = c.offload /\ first /\ second,
                              !.warned = ~first, !.plan = Plan(c)]
  BY <1>0 DEF TunSetOffload
<1> DEFINE g == [Own EXCEPT !.mask = OffloadMask(Own.mask, c.offload, first, second)]
<1>2. /\ dev.phase = "attached" /\ th' = th /\ c \in Config /\ c.offload \in BOOLEAN
      /\ dev.own \in Index /\ DOMAIN ifs = Index /\ InterfaceOk(Own) /\ Own.vnet = c.offload
      /\ Present(dev.own) /\ Own.tun /\ Own.attached
  BY <1>0, OpsAssumption DEF TunSetOffload, DevInv, KernelInv, Own
<1>3. AllIdle
  BY <1>2, BuilderAlone
<1>4. ProgressInv' /\ LockInv' /\ NameInv' /\ NetworkInv'
  BY <1>2, <1>3, IdleThreads
<1>5. /\ dev'.phase = "config" /\ dev'.vnet_hdr = (c.offload /\ first)
      /\ dev'.udp_gso = (c.offload /\ first /\ second) /\ dev'.warned = ~first
      /\ dev'.plan = Plan(c) /\ dev'.own = dev.own /\ dev'.config = c
      /\ dev'.adopted = dev.adopted /\ DOMAIN dev' = DOMAIN dev
  BY <1>0, <1>1 DEF DevInv
<1>6. /\ InterfaceOk(g) /\ g.name = Own.name /\ g.tun = Own.tun /\ g.attached = Own.attached
      /\ g.vnet = Own.vnet /\ g.mask = OffloadMask(Own.mask, c.offload, first, second)
  BY <1>2 DEF InterfaceOk
<1>7. ifs' = [ifs EXCEPT ![dev.own] = g]
  BY <1>1 DEF Own
<1> HIDE DEF g
<1>8. /\ DOMAIN ifs' = Index /\ ifs'[dev.own] = g /\ Own' = g
      /\ \A j \in Index \ {dev.own} : ifs'[j] = ifs[j]
  BY <1>2, <1>5, <1>7 DEF Own
<1>9. KernelInv'
  <2>1. \A j \in Index : ifs'[j].name = ifs[j].name /\ ifs'[j].tun = ifs[j].tun
                          /\ InterfaceOk(ifs'[j])
    BY <1>6, <1>8 DEF KernelInv, Own
  <2>2. Other \in Index
    BY SizesAssumption DEF Other, Index
  <2> QED BY <1>5, <1>8, <2>1, <2>2 DEF KernelInv, Present
<1>10. DevInv'
  <2>1. Present(dev.own)'
    BY <1>2, <1>5, <1>6, <1>8 DEF Present, Own
  <2>2. Plan(c) \in Seq(ConfigOp(c))
    BY <1>2, PlanShape
  <2>3. DOMAIN dev' = {"phase", "own", "config", "vnet_hdr", "udp_gso", "warned", "adopted",
                       "plan", "by"} /\ dev.own # 0
    BY <1>2, <1>5 DEF DevInv
  <2> QED BY <1>2, <1>5, <1>6, <1>8, <2>1, <2>2, <2>3 DEF DevInv
<1>11. OffloadAgrees'
  <2> DEFINE mask == OffloadMask(Own.mask, c.offload, first, second)
             agrees == {k \in {"tcp", "udp"} : dev'.vnet_hdr /\ (k = "udp" => dev'.udp_gso)}
  <2>1. CASE c.offload /\ first /\ second
    <3>1. mask = {"tcp", "udp"} /\ agrees = {"tcp", "udp"}
      BY <1>5, <2>1 DEF OffloadMask
    <3> QED BY <1>2, <1>5, <1>6, <1>8, <2>1, <3>1 DEF OffloadAgrees
  <2>2. CASE c.offload /\ first /\ ~second
    <3>1. mask = {"tcp"} /\ agrees = {"tcp"}
      BY <1>5, <2>2 DEF OffloadMask
    <3> QED BY <1>2, <1>5, <1>6, <1>8, <2>2, <3>1 DEF OffloadAgrees
  <2>3. CASE ~c.offload /\ first
    <3>1. mask = {} /\ agrees = {}
      BY <1>5, <2>3 DEF OffloadMask
    <3> QED BY <1>2, <1>5, <1>6, <1>8, <2>3, <3>1 DEF OffloadAgrees
  <2>4. CASE ~first
    BY <1>5, <2>4 DEF OffloadAgrees
  <2> QED BY <2>1, <2>2, <2>3, <2>4
<1>12. ConfigInv'
  <2>1. c.name # None => Own'.name = c.name
    BY <1>0, <1>2, <1>6, <1>8 DEF ConfigInv
  <2>2. ASSUME NEW o, Has(Plan(c), o) PROVE Pending(o.kind, o.arg)'
    BY <1>5, <2>2 DEF Has, Pending
  <2> DEFINE om == [NoOp EXCEPT !.kind = "set_mtu", !.arg = c.mtu]
             on == [NoOp EXCEPT !.kind = "set_network_address", !.arg = c.ipv4, !.dst = c.dst]
             o6(k) == [NoOp EXCEPT !.kind = "add_address_v6", !.arg = c.ipv6[k]]
             oe == [NoOp EXCEPT !.kind = "enabled", !.arg = c.enabled]
  <2>3. /\ om.kind = "set_mtu" /\ om.arg = c.mtu
        /\ on.kind = "set_network_address" /\ on.arg = c.ipv4
        /\ oe.kind = "enabled" /\ oe.arg = c.enabled
        /\ \A k : o6(k).kind = "add_address_v6" /\ o6(k).arg = c.ipv6[k]
    BY DEF NoOp
  <2>4. /\ c.mtu # None => Has(Plan(c), om)
        /\ c.ipv4 # None => Has(Plan(c), on)
        /\ \A k \in DOMAIN c.ipv6 : Has(Plan(c), o6(k))
        /\ c.enabled # None => Has(Plan(c), oe)
    BY <1>2, PlanShape
  <2> HIDE DEF om, on, o6, oe
  <2>5. /\ c.mtu # None => Pending("set_mtu", c.mtu)'
        /\ c.ipv4 # None => Pending("set_network_address", c.ipv4)'
        /\ c.enabled # None => Pending("enabled", c.enabled)'
    BY <2>2, <2>3, <2>4
  <2>6. \A k \in DOMAIN c.ipv6 : Pending("add_address_v6", c.ipv6[k])'
    BY <2>2, <2>3, <2>4
  <2> QED BY <1>5, <2>1, <2>5, <2>6 DEF ConfigInv
<1> QED BY <1>4, <1>9, <1>10, <1>11, <1>12

(* An operation begins: the name and the index are still to be asked for.  *)
LEMMA StartKeeps ==
  ASSUME ProgressInv, NEW t \in Thread, NEW o, OpOk(o), Start(t, o)
  PROVE  /\ ProgressInv' /\ Alone(t) /\ ~Idle(t)' /\ th'[t].op = o
         /\ Made(t)' = 0
<1>1. WellScripted(o, Script(o))
  BY ScriptShape DEF OpOk
<1>2. Script(o) \in Seq(AllCalls) /\ Len(Script(o)) >= 1 /\ Len(Script(o)) \in Nat
  BY <1>1 DEF WellScripted
<1>3. DOMAIN th = Thread /\ DOMAIN IdleThread(NoRet) = ThreadFields
  BY DEF ProgressInv, IdleThread, ThreadFields
<1> DEFINE n == [IdleThread(NoRet) EXCEPT !.op = o, !.todo = Script(o)]
<1>4. n.op = o /\ n.todo = Script(o) /\ DOMAIN n = ThreadFields
  BY <1>3 DEF ThreadFields
<1>5. th' = [th EXCEPT ![t] = n]
  BY DEF Start
<1> HIDE DEF n
<1>6. DOMAIN th' = Thread /\ th'[t] = n /\ \A u \in Thread \ {t} : th'[u] = th[u]
  BY <1>3, <1>5
<1>7. Alone(t) /\ th'[t].op = o
  BY <1>4, <1>6 DEF Alone
<1>8. ~Idle(t)'
  <2>1. NoOp.kind \notin Kind
    BY DEF NoOp, Kind, Getter, Setter
  <2> QED BY <1>7, <2>1 DEF Idle, OpOk
<1>9. Made(t)' = 0
  BY <1>2, <1>4, <1>6 DEF Made
<1>10. ProgressInv'
  <2>1. /\ DOMAIN th'[t] = ThreadFields /\ OpOk(th'[t].op)
        /\ th'[t].todo \in Seq(AllCalls) /\ Len(th'[t].todo) >= 1 /\ Made(t)' \in Nat
        /\ \A k \in 1..Len(th'[t].todo) : th'[t].todo[k] = Script(th'[t].op)[Made(t)' + k]
    BY <1>2, <1>4, <1>6, <1>9
  <2>2. ASSUME NEW u \in Thread, u # t
        PROVE  /\ DOMAIN th'[u] = ThreadFields
               /\ ~Idle(u)' =>
                    /\ OpOk(th'[u].op)
                    /\ th'[u].todo \in Seq(AllCalls) /\ Len(th'[u].todo) >= 1
                    /\ Made(u)' \in Nat
                    /\ \A k \in 1..Len(th'[u].todo) :
                         th'[u].todo[k] = Script(th'[u].op)[Made(u)' + k]
    <3>1. th'[u] = th[u] /\ (Idle(u)' <=> Idle(u)) /\ Made(u)' = Made(u)
      BY <1>7, <2>2, OthersKept
    <3> QED BY <3>1 DEF ProgressInv, ThreadFields
  <2> QED BY <1>6, <2>1, <2>2 DEF ProgressInv, ThreadFields
<1> QED BY <1>7, <1>8, <1>9, <1>10

(* The others are where they were. *)
LEMMA StartNames ==
  ASSUME IInv, NEW t \in Thread, NEW o, OpOk(o), Start(t, o), ifs' = ifs, dev'.own = dev.own
  PROVE  NameInv' /\ NetworkInv' /\ KernelInv' /\ Own' = Own
<1> USE DEF IInv
<1>1. Alone(t) /\ Made(t)' = 0
  BY StartKeeps
<1>2. Own' = Own /\ KernelInv'
  BY DEF Own, KernelInv, Present
<1>3. NameInv'
  <2> SUFFICES ASSUME NEW u \in Thread, Locked(u)'
               PROVE  /\ Made(u)' > 0 => th'[u].req = Own'.name
                      /\ HasIndex(u)' => th'[u].idx = dev'.own
    BY DEF NameInv
  <2>1. CASE u = t
    <3>1. ~HasIndex(t)'
      BY <1>1 DEF HasIndex
    <3> QED BY <1>1, <2>1, <3>1
  <2>2. CASE u # t
    <3>1. th'[u] = th[u] /\ Made(u)' = Made(u) /\ (HasIndex(u)' <=> HasIndex(u)) /\ Locked(u)
      BY <1>1, <2>2, OthersKept
    <3> QED BY <1>2, <3>1 DEF NameInv
  <2> QED BY <2>1, <2>2
<1>4. NetworkInv'
  <2> SUFFICES ASSUME NEW u \in Thread, Replacing(u)'
               PROVE  /\ Made(u)' = 3 => th'[u].left = AddrsV4(Own')
                      /\ Made(u)' \in {4, 5} => Own'.v4 = <<>>
                      /\ Made(u)' \in {6, 7} => Own'.v4 = <<V4(th'[u].op.arg)>>
                      /\ Made(u)' \in {8, 9} =>
                           Own'.v4 = <<[V4(th'[u].op.arg) EXCEPT !.mask = "asked"]>>
    BY DEF NetworkInv, Replacing
  <2>1. CASE u = t
    BY <1>1, <2>1
  <2>2. CASE u # t
    <3>1. th'[u] = th[u] /\ Made(u)' = Made(u) /\ Replacing(u)
      BY <1>1, <2>2, OthersKept DEF Replacing
    <3> QED BY <1>2, <3>1 DEF NetworkInv, Replacing
  <2> QED BY <2>1, <2>2
<1> QED BY <1>2, <1>3, <1>4

(* A thread takes its side of op_lock and begins an operation.             *)
LEMMA CallKeeps ==
  ASSUME IInv, NEW t \in Thread, NEW o \in Op, Call(t, o) PROVE IInv'
<1> USE DEF IInv
<1>1. dev.phase = "ready" /\ MayLock(t, o) /\ Start(t, o) /\ ifs' = ifs /\ dev' = dev
  BY DEF Call
<1>2. OpOk(o)
  BY OpsAssumption DEF OpOk, Args, Dsts
<1>3. /\ ProgressInv' /\ Alone(t) /\ th'[t].op = o
      /\ NameInv' /\ NetworkInv' /\ KernelInv' /\ Own' = Own
  BY <1>1, <1>2, StartKeeps, StartNames
<1>4. DevInv' /\ OffloadAgrees' /\ ConfigInv'
  <2>1. DevInv'
    BY <1>1, <1>3 DEF DevInv, Present
  <2>2. OffloadAgrees'
    BY <1>1, <1>3 DEF OffloadAgrees
  <2>3. ConfigInv'
    BY <1>1 DEF ConfigInv
  <2> QED BY <2>1, <2>2, <2>3
<1>5. LockInv'
  <2>1. ASSUME NEW u \in Thread, u # t, ~Idle(u)'
        PROVE  /\ th'[u].op = th[u].op /\ ~Idle(u)
               /\ \/ "none" \in {LockOf(o), LockOf(th[u].op)}
                  \/ LockOf(o) = "read" /\ LockOf(th[u].op) = "read"
    <3>1. th'[u] = th[u] /\ ~Idle(u)
      BY <1>3, <2>1, OthersKept
    <3> QED BY <1>1, <2>1, <3>1 DEF MayLock
  <2>2. ASSUME NEW u \in Thread, NEW v \in Thread, u # v, ~Idle(u)', ~Idle(v)'
        PROVE  \/ "none" \in {LockOf(th'[u].op), LockOf(th'[v].op)}
               \/ LockOf(th'[u].op) = "read" /\ LockOf(th'[v].op) = "read"
    <3>1. CASE u = t
      BY <1>3, <2>1, <2>2, <3>1
    <3>2. CASE v = t
      BY <1>3, <2>1, <2>2, <3>2
    <3>3. CASE u # t /\ v # t
      BY <2>1, <2>2, <3>3 DEF LockInv
    <3> QED BY <3>1, <3>2, <3>3
  <2> QED BY <1>1, <2>2 DEF LockInv
<1> QED BY <1>3, <1>4, <1>5

(* DeviceBuilder::config calls the operation at the head of its plan, and  *)
(* the value it sets is now pending in the thread.                         *)
LEMMA ConfigureKeeps ==
  ASSUME IInv, NEW t \in Thread, Configure(t) PROVE IInv'
<1> USE DEF IInv
<1> DEFINE o == Head(dev.plan)
<1>0. PICK c : c = dev.config
  OBVIOUS
<1>1. /\ dev.phase = "config" /\ dev.by = t /\ Idle(t) /\ dev.plan # <<>>
      /\ Start(t, o) /\ ifs' = ifs /\ dev' = [dev EXCEPT !.plan = Tail(@)]
  BY DEF Configure
<1>2. dev.plan \in Seq(ConfigOp(c))
  BY <1>0, <1>1 DEF DevInv
<1>3. /\ o \in ConfigOp(c) /\ Tail(dev.plan) \in Seq(ConfigOp(c)) /\ o = dev.plan[1]
      /\ \A k \in DOMAIN dev.plan : k = 1 \/ (k - 1 \in DOMAIN Tail(dev.plan)
                                               /\ Tail(dev.plan)[k - 1] = dev.plan[k])
  <2> DEFINE p == dev.plan
             n == Len(p)
  <2>1. p \in Seq(ConfigOp(c)) /\ n \in Nat /\ n >= 1 /\ DOMAIN p = 1..n
    BY <1>1, <1>2, EmptyIfNoLength
  <2>2. /\ Tail(p) \in Seq(ConfigOp(c)) /\ Len(Tail(p)) = n - 1
        /\ \A k \in 1..n - 1 : Tail(p)[k] = p[k + 1]
    BY <2>1, TailOf
  <2>3. Head(p) = p[1] /\ p[1] \in ConfigOp(c) /\ DOMAIN Tail(p) = 1..n - 1
    BY <2>1, <2>2
  <2> HIDE DEF p, n
  <2>4. ASSUME NEW k \in DOMAIN p, k # 1
        PROVE  k - 1 \in DOMAIN Tail(p) /\ Tail(p)[k - 1] = p[k]
    <3>1. k - 1 \in 1..n - 1 /\ (k - 1) + 1 = k
      BY <2>1, <2>4
    <3> QED BY <2>2, <2>3, <3>1
  <2> QED BY <2>2, <2>3, <2>4 DEF p
<1> HIDE DEF o
<1>4. OpOk(o)
  BY <1>3 DEF OpOk, ConfigOp, Kind, Setter
<1>5. /\ dev'.phase = "config" /\ dev'.plan = Tail(dev.plan) /\ dev'.own = dev.own
      /\ dev'.config = c /\ dev'.by = t /\ dev'.vnet_hdr = dev.vnet_hdr
      /\ dev'.udp_gso = dev.udp_gso /\ dev'.warned = dev.warned
      /\ dev'.adopted = dev.adopted /\ DOMAIN dev' = DOMAIN dev
  BY <1>0, <1>1 DEF DevInv
<1>6. /\ ProgressInv' /\ Alone(t) /\ th'[t].op = o /\ ~Idle(t)'
      /\ NameInv' /\ NetworkInv' /\ KernelInv' /\ Own' = Own
  BY <1>1, <1>4, <1>5, StartKeeps, StartNames
<1>7. \A u \in Thread \ {t} : Idle(u) /\ Idle(u)'
  BY <1>1, <1>6, BuilderAlone, OthersKept
<1>8. LockInv'
  BY <1>3, <1>5, <1>6, <1>7 DEF LockInv
<1>9. DevInv'
  <2>1. DOMAIN dev' = {"phase", "own", "config", "vnet_hdr", "udp_gso", "warned", "adopted",
                       "plan", "by"}
    BY <1>5 DEF DevInv
  <2>2. dev.own # 0 /\ dev.own \in Index /\ Present(dev.own)' /\ Own.tun /\ Own.attached
    BY <1>1, <1>5 DEF DevInv, Present
  <2> QED BY <1>3, <1>5, <1>6, <2>1, <2>2 DEF DevInv
<1>10. OffloadAgrees'
  BY <1>1, <1>5, <1>6 DEF OffloadAgrees
<1>11. ConfigInv'
  <2>1. ASSUME NEW kind, NEW arg, Pending(kind, arg) PROVE Pending(kind, arg)'
    <3>1. PICK k \in DOMAIN dev.plan : dev.plan[k].kind = kind /\ dev.plan[k].arg = arg
      BY <1>1, <1>7, <2>1 DEF Pending
    <3>2. CASE k = 1
      BY <1>3, <1>6, <3>1, <3>2 DEF Pending
    <3>3. CASE k # 1
      BY <1>3, <1>5, <3>1, <3>3 DEF Pending
    <3> QED BY <3>2, <3>3
  <2>2. c.name # None => Own'.name = c.name
    BY <1>0, <1>1, <1>6 DEF ConfigInv
  <2>3. c.mtu # None => Own'.attr["mtu"] = c.mtu \/ Pending("set_mtu", c.mtu)'
    BY <1>0, <1>1, <1>6, <2>1 DEF ConfigInv
  <2>4. c.ipv4 # None =>
          \/ Own'.v4 = <<[addr |-> c.ipv4, mask |-> "asked", dst |-> c.dst]>>
          \/ Pending("set_network_address", c.ipv4)'
    BY <1>0, <1>1, <1>6, <2>1 DEF ConfigInv
  <2>5. \A k \in DOMAIN c.ipv6 :
          c.ipv6[k] \in Own'.v6 \/ Pending("add_address_v6", c.ipv6[k])'
    BY <1>0, <1>1, <1>6, <2>1 DEF ConfigInv
  <2>6. c.enabled # None => Own'.attr["up"] = c.enabled \/ Pending("enabled", c.enabled)'
    BY <1>0, <1>1, <1>6, <2>1 DEF ConfigInv
  <2> QED BY <1>5, <2>2, <2>3, <2>4, <2>5, <2>6 DEF ConfigInv
<1> QED BY <1>6, <1>8, <1>9, <1>10, <1>11

(* An error: the operation returns it and leaves what it did, and while    *)
(* the device is being built everything is dropped.                        *)
LEMMA FailsKeeps ==
  ASSUME IInv, NEW t \in Thread, Fails(t) \/ NewFails(t) PROVE IInv'
<1> USE DEF IInv
<1>1. CASE dev.phase # "ready"
  <2>1. BuildFails(t)
    BY <1>1 DEF Fails, NewFails
  <2>2. \A u \in Thread \ {t} : Idle(u)
    <3>1. CASE dev.phase = "config"
      <4>1. t = dev.by
        BY <3>1, BuilderAlone DEF Fails, NewFails
      <4> QED BY <3>1, <4>1, BuilderAlone
    <3>2. CASE dev.phase # "config"
      BY <1>1, <3>2, BuilderAlone DEF AllIdle
    <3> QED BY <3>1, <3>2
  <2> QED BY <2>1, <2>2, BuildFailsKeeps
<1>2. CASE dev.phase = "ready"
  <2>1. /\ ~Idle(t) /\ dev.phase = "ready" /\ ifs' = ifs /\ dev' = dev
        /\ th' = [th EXCEPT ![t] = IdleThread(NoRet)]
    BY <1>2 DEF Fails, NewFails
  <2>2. Leaves(t)
    BY <2>1 DEF Leaves, Alone, ProgressInv
  <2>3. ProgressInv' /\ LockInv'
    BY <2>1, <2>2, ProgressKept, LockKept
  <2>4. Own' = Own /\ KernelInv'
    BY <2>1 DEF Own, KernelInv, Present
  <2>5. NameInv'
    BY <2>1, <2>2, <2>4, NameKept, LeavesIdle
  <2>6. NetworkInv'
    <3> SUFFICES ASSUME NEW u \in Thread, Replacing(u)'
                 PROVE  /\ Made(u)' = 3 => th'[u].left = AddrsV4(Own')
                        /\ Made(u)' \in {4, 5} => Own'.v4 = <<>>
                        /\ Made(u)' \in {6, 7} => Own'.v4 = <<V4(th'[u].op.arg)>>
                        /\ Made(u)' \in {8, 9} =>
                             Own'.v4 = <<[V4(th'[u].op.arg) EXCEPT !.mask = "asked"]>>
      BY DEF NetworkInv, Replacing
    <3>1. u # t
      BY <2>2, LeavesIdle DEF Replacing
    <3>2. th'[u] = th[u] /\ Made(u)' = Made(u) /\ Replacing(u)
      BY <2>2, <3>1, LeavesIdle, OthersKept DEF Replacing
    <3> QED BY <2>4, <3>2 DEF NetworkInv, Replacing
  <2>7. DevInv' /\ OffloadAgrees'
    BY <2>1, <2>4 DEF DevInv, Present, OffloadAgrees
  <2>8. ConfigInv'
    BY <2>1 DEF ConfigInv
  <2> QED BY <2>3, <2>4, <2>5, <2>6, <2>7, <2>8
<1> QED BY <1>1, <1>2

(* The other program renames its interface, which is not the device's.     *)
LEMMA RenameKeeps ==
  ASSUME IInv, OtherRenames PROVE IInv'
<1> USE DEF IInv
<1>1. PICK n \in Name : Named(n) = {} /\ ifs' = [ifs EXCEPT ![Other].name = n]
  BY DEF OtherRenames
<1>2. dev' = dev /\ th' = th
  BY DEF OtherRenames
<1> DEFINE g == [ifs[Other] EXCEPT !.name = n]
<1>3. /\ Other \in Index /\ DOMAIN ifs = Index /\ InterfaceOk(ifs[Other]) /\ n # None
      /\ dev.own # Other
  <2>1. Other \in Index
    BY SizesAssumption DEF Other, Index
  <2> QED BY <2>1, OpsAssumption DEF KernelInv, DevInv, Own, Other
<1>4. InterfaceOk(g) /\ g.name = n /\ ~g.tun
  BY <1>3 DEF InterfaceOk, KernelInv
<1> HIDE DEF g
<1>5. /\ DOMAIN ifs' = Index /\ ifs'[Other] = g
      /\ \A j \in Index \ {Other} : ifs'[j] = ifs[j]
  BY <1>1, <1>3 DEF g
<1>6. dev.own # 0 => Own' = Own
  BY <1>2, <1>3, <1>5 DEF Own, DevInv
<1>7. KernelInv'
  <2>1. \A j \in Index \ {Other} : Present(j) => ifs[j].name # n
    BY <1>1 DEF Named
  <2>2. \A j, k \in Index : Present(j)' /\ ifs'[j].name = ifs'[k].name => j = k
    <3> SUFFICES ASSUME NEW j \in Index, NEW k \in Index,
                        Present(j)', ifs'[j].name = ifs'[k].name
                 PROVE  j = k
      OBVIOUS
    <3>1. CASE j # Other /\ k # Other
      BY <1>5, <3>1 DEF KernelInv, Present
    <3>2. CASE j = Other /\ k # Other
      BY <1>3, <1>4, <1>5, <2>1, <3>2 DEF Present
    <3>3. CASE j # Other /\ k = Other
      BY <1>3, <1>4, <1>5, <2>1, <3>3 DEF Present
    <3> QED BY <3>1, <3>2, <3>3
  <2>3. \A j \in Index : InterfaceOk(ifs'[j])
    BY <1>4, <1>5 DEF KernelInv
  <2>4. Present(Other)' /\ ~ifs'[Other].tun
    BY <1>3, <1>4, <1>5 DEF Present
  <2>5. \A j \in Index \ {dev.own} :
          ifs'[j].tun => ~ifs'[j].attached /\ ifs'[j].attr["persist"] = 1
    BY <1>4, <1>5 DEF KernelInv
  <2> QED BY <1>2, <1>5, <2>2, <2>3, <2>4, <2>5 DEF KernelInv
<1>8. DevInv'
  <2>1. dev.own # 0 => Present(dev.own)'
    BY <1>2, <1>3, <1>5 DEF Present, DevInv
  <2> QED BY <1>2, <1>6, <2>1 DEF DevInv
<1>9. OffloadAgrees'
  BY <1>2, <1>6 DEF OffloadAgrees, DevInv
<1>10. \A t \in Thread : /\ (Idle(t)' <=> Idle(t)) /\ Made(t)' = Made(t)
                          /\ (Locked(t)' <=> Locked(t)) /\ (HasIndex(t)' <=> HasIndex(t))
  BY <1>2 DEF Idle, Made, Locked, HasIndex
<1>11. ProgressInv' /\ LockInv'
  BY <1>2, <1>10 DEF ProgressInv, LockInv
<1>12. \A t \in Thread : ~Idle(t) => dev.own # 0
  BY BusyOwns
<1>13. NameInv' /\ NetworkInv'
  BY <1>2, <1>6, <1>10, <1>12 DEF NameInv, NetworkInv, Locked
<1>14. ConfigInv'
  <2>1. CASE dev.phase \in {"attached", "config"}
    <3>1. Own' = Own
      BY <1>6, <2>1 DEF DevInv
    <3>2. \A kind, arg : Pending(kind, arg) => Pending(kind, arg)'
      BY <1>2, <1>10 DEF Pending
    <3>3. PICK c : c = dev.config
      OBVIOUS
    <3> QED BY <1>2, <3>1, <3>2, <3>3 DEF ConfigInv
  <2>2. CASE dev.phase \notin {"attached", "config"}
    BY <1>2, <2>2 DEF ConfigInv
  <2> QED BY <2>1, <2>2
<1> QED BY <1>7, <1>8, <1>9, <1>11, <1>13, <1>14

(* Before the first device: the other program's interface, and no other.   *)
LEMMA InitIInv == Init => IInv
<1> SUFFICES ASSUME Init PROVE IInv
  OBVIOUS
<1>1. PICK n \in Name : ifs = [i \in Index |-> IF i = Other THEN [Absent EXCEPT !.name = n]
                                                      ELSE Absent]
  BY DEF Init
<1>2. dev = NoDev /\ th = [t \in Thread |-> IdleThread(NoRet)]
  BY DEF Init
<1>3. dev.phase = "none" /\ dev.own = 0
  BY <1>2 DEF NoDev
<1>4. InterfaceOk(Absent) /\ Absent.name = None /\ ~Absent.tun
  <2>1. <<>> \in Seq(V4Address) /\ Distinct(<<>>)
    BY DEF Distinct
  <2> QED BY <2>1 DEF InterfaceOk, Absent
<1>5. KernelInv
  <2> DEFINE f == [Absent EXCEPT !.name = n]
  <2>1. InterfaceOk(f) /\ f.name = n /\ ~f.tun /\ n # None
    BY <1>4, OpsAssumption DEF InterfaceOk
  <2> HIDE DEF f
  <2>2. /\ DOMAIN ifs = Index
        /\ \A i \in Index : ifs[i] = IF i = Other THEN f ELSE Absent
    BY <1>1 DEF f
  <2>3. Other \in Index
    BY SizesAssumption DEF Other, Index
  <2> QED BY <1>4, <2>1, <2>2, <2>3 DEF KernelInv, Present
<1>6. DevInv
  <2>1. DOMAIN dev = {"phase", "own", "config", "vnet_hdr", "udp_gso", "warned", "adopted",
                      "plan", "by"}
    BY <1>2 DEF NoDev
  <2> QED BY <1>3, <2>1 DEF DevInv
<1>7. OffloadAgrees /\ ConfigInv
  BY <1>3 DEF OffloadAgrees, ConfigInv
<1>8. ProgressInv /\ LockInv /\ NameInv /\ NetworkInv
  <2>1. IdleThread(NoRet).op = NoOp /\ DOMAIN IdleThread(NoRet) = ThreadFields
    BY DEF IdleThread, ThreadFields
  <2>2. AllIdle /\ DOMAIN th = Thread /\ \A t \in Thread : DOMAIN th[t] = ThreadFields
    BY <1>2, <2>1 DEF AllIdle, Idle
  <2> QED BY <2>2 DEF AllIdle, ProgressInv, LockInv, NameInv, NetworkInv, Locked, ThreadFields
<1> QED BY <1>5, <1>6, <1>7, <1>8 DEF IInv

(* One step, whichever it is. *)
LEMMA NextIInv == IInv /\ [Next]_vars => IInv'
<1> SUFFICES ASSUME IInv, [Next]_vars PROVE IInv'
  OBVIOUS
<1>1. CASE UNCHANGED vars
  <2>1. ifs' = ifs /\ dev' = dev /\ th' = th
    BY <1>1 DEF vars
  <2>2. Own' = Own /\ \A i : Present(i)' <=> Present(i)
    BY <2>1 DEF Own, Present
  <2>3. \A t : /\ (Idle(t)' <=> Idle(t)) /\ Made(t)' = Made(t)
               /\ (Locked(t)' <=> Locked(t)) /\ (HasIndex(t)' <=> HasIndex(t))
    BY <2>1 DEF Idle, Made, Locked, HasIndex
  <2>4. KernelInv' /\ DevInv' /\ OffloadAgrees'
    BY <2>1, <2>2 DEF IInv, KernelInv, DevInv, OffloadAgrees
  <2>5. ProgressInv' /\ LockInv'
    BY <2>1, <2>3 DEF IInv, ProgressInv, LockInv
  <2>6. NameInv' /\ NetworkInv'
    BY <2>1, <2>2, <2>3 DEF IInv, NameInv, NetworkInv
  <2>7. ConfigInv'
    <3>1. PICK c : c = dev.config
      OBVIOUS
    <3>2. \A kind, arg : Pending(kind, arg) => Pending(kind, arg)'
      BY <2>1, <2>3 DEF Pending
    <3> QED BY <2>1, <2>2, <3>1, <3>2 DEF IInv, ConfigInv
  <2> QED BY <2>4, <2>5, <2>6, <2>7 DEF IInv
<1>2. ASSUME NEW t \in Thread, Step(t) PROVE IInv'
  <2>1. CASE Calling(t)
    BY <2>1, CallingKeeps
  <2>2. CASE \E c \in Config : Open(t, c)
    BY <2>2, OpenKeeps
  <2>3. CASE TunSetIff(t)
    BY <2>3, TunSetIffKeeps
  <2>4. CASE TunSetOffload(t)
    BY <2>4, TunSetOffloadKeeps
  <2>5. CASE Configure(t)
    BY <2>5, ConfigureKeeps
  <2>6. CASE NewDev(t) \/ FromFd(t)
    BY <2>6, HandsOverKeeps
  <2>7. CASE Fails(t) \/ NewFails(t)
    BY <2>7, FailsKeeps
  <2>8. CASE \E o \in Op : Call(t, o)
    BY <2>8, CallKeeps
  <2> QED BY <1>2, <2>1, <2>2, <2>3, <2>4, <2>5, <2>6, <2>7, <2>8
         DEF Step, Calling, Asks, Writing
<1>3. CASE IntoRawFd
  <2>1. NewDev(None) \/ IntoRawFd \/ FromFd(None)
    BY <1>3
  <2> QED BY <2>1, HandsOverKeeps
<1>4. CASE Drop \/ CallerCloses \/ Crash
  BY <1>4, EndKeeps
<1>5. CASE OtherRenames
  BY <1>5, RenameKeeps
<1> QED BY <1>1, <1>2, <1>3, <1>4, <1>5 DEF Next

(***************************************************************************)
(* The theorems.                                                           *)
(***************************************************************************)

(* The inductive invariant holds in every state: the kernel's table, what  *)
(* the device knows of its interface, where each operation is in its       *)
(* sequence of system calls, op_lock, and what is pending in config.       *)
THEOREM Invariance == Spec => []IInv
<1>1. Init => IInv
  BY InitIInv
<1>2. IInv /\ [Next]_vars => IInv'
  BY NextIInv
<1> QED BY <1>1, <1>2, PTL DEF Spec

(* Once no device is open the only TUN interfaces left are the ones that   *)
(* were made persistent, wherever build_async or from_fd failed, and       *)
(* whether the device was dropped, handed over and closed, or the process  *)
(* crashed.                                                                *)
THEOREM NothingIsLeaked == Spec => []NothingLeaked
<1>1. IInv => NothingLeaked
  <2> SUFFICES ASSUME IInv, dev = NoDev, NEW i \in Index, ifs[i].tun
               PROVE  ~ifs[i].attached /\ ifs[i].attr["persist"] = 1
    BY DEF NothingLeaked
  <2>1. dev.own = 0 /\ 0 \notin Index
    BY DEF NoDev, Index
  <2> QED BY <2>1 DEF IInv, KernelInv
<1> QED BY <1>1, Invariance, PTL

(* The flags that the device reads frames by agree with what the kernel    *)
(* has for its interface.                                                  *)
THEOREM OffloadAlwaysAgrees == Spec => []OffloadAgrees
<1>1. IInv => OffloadAgrees
  BY DEF IInv
<1> QED BY <1>1, Invariance, PTL

(* An operation returns Ok only by its own last system call: no other      *)
(* thread's step, error or crash returns it.                               *)
LEMMA ReturnsByCalling ==
  ASSUME IInv, Next, NEW t \in Thread, NEW k \in Kind, Returns(t, k)
  PROVE  Calling(t) /\ Leaves(t) /\ ~Idle(t) /\ th[t].op.kind = k
<1> USE DEF IInv
<1>1. th[t].op.kind = k /\ th'[t].op = NoOp /\ th'[t].ret.ok
  BY DEF Returns
<1>2. NoOp.kind \notin Kind /\ DOMAIN th = Thread
  BY DEF NoOp, Kind, Getter, Setter, ProgressInv
<1>3. ~Idle(t) /\ th'[t] # th[t] /\ th[t].op # NoOp
  BY <1>1, <1>2 DEF Idle
<1>4. IdleThread(NoRet).ret.ok = FALSE
  BY DEF IdleThread, NoRet
<1>5. ASSUME NEW u \in Thread, Step(u) PROVE Calling(t) /\ Leaves(t)
  <2>1. CASE Calling(u)
    <3>1. Leaves(u) \/ Stays(u) \/ GoesOn(u)
      BY <2>1, CallingMoves
    <3>2. u = t
      BY <1>3, <3>1 DEF Leaves, Stays, GoesOn, Alone
    <3> QED BY <1>1, <1>3, <2>1, <3>1, <3>2 DEF Stays, GoesOn
  <2>2. CASE \/ \E c \in Config : Open(u, c)
             \/ TunSetIff(u) \/ TunSetOffload(u) \/ NewDev(u) \/ FromFd(u)
    BY <1>3, <2>2 DEF Open, TunSetIff, TunSetOffload, NewDev, FromFd
  <2>3. ASSUME NEW o, OpOk(o), Start(u, o) PROVE FALSE
    <3>1. Alone(u) /\ ~Idle(u)'
      BY <2>3, StartKeeps
    <3> QED BY <1>1, <1>3, <3>1 DEF Alone, Idle
  <2>4. CASE Configure(u)
    <3>1. dev.plan \in Seq(ConfigOp(dev.config)) /\ dev.plan # <<>>
      BY <2>4 DEF Configure, DevInv
    <3>2. Head(dev.plan) \in ConfigOp(dev.config)
      BY <3>1
    <3>3. OpOk(Head(dev.plan))
      BY <3>2 DEF OpOk, ConfigOp, Kind, Setter
    <3> QED BY <2>3, <2>4, <3>3 DEF Configure
  <2>5. CASE \E o \in Op : Call(u, o)
    <3>1. PICK o \in Op : Call(u, o)
      BY <2>5
    <3>2. OpOk(o)
      BY OpsAssumption DEF OpOk, Args, Dsts
    <3> QED BY <2>3, <3>1, <3>2 DEF Call
  <2>6. CASE Fails(u) \/ NewFails(u)
    <3>1. th' = [th EXCEPT ![u] = IdleThread(NoRet)]
      BY <2>6 DEF Fails, NewFails, BuildFails
    <3> QED BY <1>1, <1>2, <1>3, <1>4, <3>1
  <2> QED BY <1>5, <2>1, <2>2, <2>4, <2>5, <2>6 DEF Step, Calling, Asks, Writing
<1>6. CASE Drop \/ IntoRawFd \/ CallerCloses \/ OtherRenames
  BY <1>3, <1>6 DEF Drop, IntoRawFd, CallerCloses, OtherRenames
<1>7. CASE Crash
  <2>1. th'[t] = IdleThread(NoRet)
    BY <1>7 DEF Crash
  <2> QED BY <1>1, <1>4, <2>1
<1> QED BY <1>1, <1>3, <1>5, <1>6, <1>7 DEF Next

(* set_network_address that returns Ok has left the address it was given,  *)
(* with netmask and destination, as the interface's only IPv4 address.     *)
THEOREM NetworkAddressIsExact == Spec => NetworkAddressExact
<1>1. ASSUME IInv, [Next]_vars
      PROVE  [\A t \in Thread : Returns(t, "set_network_address") =>
                ifs'[dev.own].v4 = <<TheAddress(th[t].op)>>]_vars
  <2> SUFFICES ASSUME Next, NEW t \in Thread, Returns(t, "set_network_address")
               PROVE  ifs'[dev.own].v4 = <<TheAddress(th[t].op)>>
    BY <1>1
  <2>1. Calling(t) /\ Leaves(t) /\ Replacing(t)
    BY <1>1, ReturnsByCalling DEF Kind, Setter, Replacing
  <2>2. dev' = dev
    BY <1>1, <2>1, CallingMoves
  <2>3. Own'.v4 = <<TheAddress(th[t].op)>>
    BY <1>1, <2>1, ReplacingStep
  <2> QED BY <2>2, <2>3 DEF Own
<1> QED BY <1>1, Invariance, PTL DEF Spec, NetworkAddressExact

(* The system calls of an operation touch the device's interface only.     *)
LEMMA CallingOwnOnly ==
  ASSUME IInv, NEW t \in Thread, Calling(t), NEW i \in Index, i # dev.own
  PROVE  ifs'[i] = ifs[i]
<1>1. DOMAIN ifs = Index /\ dev.own \in Index
  BY CallingMoves DEF IInv, KernelInv
<1>2. ASSUME NEW g, ifs' = [ifs EXCEPT ![dev.own] = g] PROVE ifs'[i] = ifs[i]
  BY <1>1, <1>2
<1>3. CASE ifs' = ifs
  BY <1>3
<1>4. ifs' = ifs \/ \E g : ifs' = [ifs EXCEPT ![dev.own] = g]
  <2>1. CASE Asks(t)
    BY <2>1, AskingStep
  <2>2. CASE Writing(t)
    BY <2>2, WritingStep
  <2>3. CASE RemoveEach(t)
    BY <2>3, RemovingStep
  <2> QED BY <2>1, <2>2, <2>3 DEF Calling
<1> QED BY <1>2, <1>3, <1>4

(* What mtu() and if_index() return: the name they asked for is still the  *)
(* name of the device's interface, and of no other.                        *)
LEMMA ReadsOwn ==
  ASSUME IInv, Next, NEW t \in Thread
  PROVE  /\ Returns(t, "mtu") => th'[t].ret.val = Own.attr["mtu"]
         /\ Returns(t, "if_index") => th'[t].ret.val = dev.own
<1> USE DEF IInv
<1> DEFINE c == Head(th[t].todo)
<1>1. ASSUME NEW k \in {"mtu", "if_index"}, Returns(t, k)
      PROVE  /\ Calling(t) /\ Leaves(t) /\ ~Idle(t) /\ th[t].op.kind = k
             /\ c = IF k = "mtu" THEN "siocgifmtu" ELSE "if_nametoindex"
             /\ Named(th[t].req) = {dev.own}
             /\ \A n, x : Advance(t, n, x) => th'[t].ret = [x EXCEPT !.ok = TRUE]
  <2>1. Calling(t) /\ Leaves(t) /\ ~Idle(t) /\ th[t].op.kind = k
    BY <1>1, ReturnsByCalling DEF Kind, Getter
  <2>2. c # "getifaddrs_v6"
    BY <2>1, ConfigCall
  <2>3. Made(t) + 1 = Len(Script(th[t].op))
    BY <2>1, <2>2, ReturnsAtEnd
  <2>4. c = IF k = "mtu" THEN "siocgifmtu" ELSE "if_nametoindex"
    BY <2>1, <2>3, ConfigCall
  <2>5. Made(t) > 0 /\ Made(t) \in Nat
    BY <2>1, <2>4, CurrentCall DEF FdCalls
  <2>6. Locked(t)
    BY <2>1 DEF Locked, LockOf, Getter
  <2>7. Named(th[t].req) = {dev.own}
    BY <2>1, <2>5, <2>6, OwnNamed, BusyOwns DEF NameInv
  <2>8. ASSUME NEW n, NEW x, Advance(t, n, x) PROVE th'[t].ret = [x EXCEPT !.ok = TRUE]
    <3>1. Tail(th[t].todo) = <<>>
      <4>1. th[t].todo \in Seq(AllCalls) /\ Len(th[t].todo) \in Nat /\ Len(th[t].todo) >= 1
            /\ Len(th[t].todo) = Len(Script(th[t].op)) - Made(t)
            /\ Len(Script(th[t].op)) \in Nat
        BY <2>1, CurrentCall DEF ProgressInv
      <4>2. Len(th[t].todo) = 1
        <5> DEFINE l == Len(th[t].todo)
                   s == Len(Script(th[t].op))
                   m == Made(t)
        <5>1. l \in Nat /\ s \in Nat /\ m \in Nat /\ l = s - m /\ m + 1 = s
          BY <2>3, <2>5, <4>1
        <5> HIDE DEF l, s, m
        <5>2. l = 1
          BY <5>1
        <5> QED BY <5>2 DEF l
      <4> QED BY <4>1, <4>2, TailOf
    <3>2. th'[t] = IdleThread([x EXCEPT !.ok = TRUE])
      BY <2>8, <3>1 DEF Advance, ProgressInv
    <3> QED BY <3>2 DEF IdleThread
  <2> QED BY <2>1, <2>4, <2>7, <2>8
<1> HIDE DEF c
<1>2. ASSUME Returns(t, "mtu") PROVE th'[t].ret.val = Own.attr["mtu"]
  <2>1. GetByName(t)
    <3>1. c = "siocgifmtu" /\ Calling(t)
      BY <1>1, <1>2
    <3> QED BY <3>1 DEF c, Calling, Asks, Writing, TunGetIff, IfNameToIndex, ListAddresses,
                GetIfAddrs, LookUpV6, SetByName, SetByIndex, SetByFd, RemoveEach, At,
                SetCalls, IndexCalls, FdCalls
  <2>2. PICK i \in Named(th[t].req) :
          Advance(t, th[t], [NoRet EXCEPT !.val = ifs[i].attr[AttrOf["siocgifmtu"]]])
    BY <1>1, <1>2, <2>1 DEF GetByName, At, c
  <2>3. i = dev.own /\ AttrOf["siocgifmtu"] = "mtu"
    BY <1>1, <1>2, <2>2 DEF AttrOf
  <2>4. Advance(t, th[t], [NoRet EXCEPT !.val = Own.attr["mtu"]])
    BY <2>2, <2>3 DEF Own
  <2>5. th'[t].ret = [[NoRet EXCEPT !.val = Own.attr["mtu"]] EXCEPT !.ok = TRUE]
    BY <1>1, <1>2, <2>4
  <2> QED BY <2>5 DEF NoRet
<1>3. ASSUME Returns(t, "if_index") PROVE th'[t].ret.val = dev.own
  <2>1. IfNameToIndex(t)
    <3>1. c = "if_nametoindex" /\ Calling(t)
      BY <1>1, <1>3
    <3> QED BY <3>1 DEF c, Calling, Asks, Writing, TunGetIff, GetByName, ListAddresses,
                GetIfAddrs, LookUpV6, SetByName, SetByIndex, SetByFd, RemoveEach, At,
                SetCalls, IndexCalls, FdCalls, GetCalls
  <2>2. Advance(t, [th[t] EXCEPT !.idx = dev.own], [NoRet EXCEPT !.val = dev.own])
    <3>1. Named(th[t].req) = {dev.own}
      BY <1>1, <1>3
    <3>2. (CHOOSE k \in {dev.own} : TRUE) = dev.own
      OBVIOUS
    <3> QED BY <2>1, <3>1, <3>2 DEF IfNameToIndex
  <2>3. th'[t].ret = [[NoRet EXCEPT !.val = dev.own] EXCEPT !.ok = TRUE]
    BY <1>1, <1>3, <2>2
  <2> QED BY <2>3 DEF NoRet
<1> QED BY <1>2, <1>3

(* However the system calls of an operation fall between a set_name and    *)
(* another program's renames, an operation changes and reads the device's  *)
(* own interface only.                                                     *)
THEOREM OwnInterfaceIsOnly == Spec => OwnInterfaceOnly
<1>1. ASSUME IInv, [Next]_vars
      PROVE  [/\ \A i \in Index \ {dev.own, dev'.own} :
                   ifs'[i] = ifs[i] \/ (i = Other /\ OtherRenames)
              /\ \A t \in Thread :
                   /\ Returns(t, "mtu") => th'[t].ret.val = Own.attr["mtu"]
                   /\ Returns(t, "if_index") => th'[t].ret.val = dev.own]_vars
  <2> SUFFICES ASSUME Next, NEW i \in Index \ {dev.own, dev'.own}
               PROVE  ifs'[i] = ifs[i] \/ (i = Other /\ OtherRenames)
    BY <1>1, ReadsOwn
  <2>0. DOMAIN ifs = Index
    BY <1>1 DEF IInv, KernelInv
  <2>1. ASSUME Close PROVE ifs'[i] = ifs[i]
    BY <2>0, <2>1 DEF Close, Closed
  <2>2. ASSUME NEW t \in Thread, Step(t) PROVE ifs'[i] = ifs[i]
    <3>1. CASE Calling(t)
      BY <1>1, <3>1, CallingOwnOnly
    <3>2. CASE \/ \E c \in Config : Open(t, c)
               \/ NewDev(t) \/ FromFd(t) \/ Configure(t) \/ \E o \in Op : Call(t, o)
      BY <3>2 DEF Open, NewDev, FromFd, Configure, Call
    <3>3. CASE TunSetIff(t)
      <4>1. PICK j \in Index : \E g : ifs' = [ifs EXCEPT ![j] = g] /\ dev'.own = j
        BY <1>1, <3>3 DEF TunSetIff, IInv, DevInv
      <4>2. PICK g : ifs' = [ifs EXCEPT ![j] = g] /\ dev'.own = j
        BY <4>1
      <4> QED BY <2>0, <4>2
    <3>4. CASE TunSetOffload(t)
      BY <2>0, <3>4 DEF TunSetOffload
    <3>5. CASE Fails(t) \/ NewFails(t)
      BY <2>1, <3>5 DEF Fails, NewFails, BuildFails
    <3> QED BY <2>2, <3>1, <3>2, <3>3, <3>4, <3>5 DEF Step, Calling, Asks, Writing
  <2>3. CASE Drop \/ IntoRawFd \/ CallerCloses \/ Crash
    BY <2>1, <2>3 DEF Drop, IntoRawFd, CallerCloses, Crash
  <2>4. CASE OtherRenames
    BY <2>0, <2>4 DEF OtherRenames
  <2> QED BY <2>2, <2>3, <2>4 DEF Next
<1> QED BY <1>1, Invariance, PTL DEF Spec, OwnInterfaceOnly

(* When build_async returns a device its interface is as the builder was   *)
(* told: nothing is left in the plan, no operation is in progress, and so  *)
(* nothing is pending.                                                     *)
THEOREM ConfigIsApplied == Spec => ConfigApplied
<1>1. ASSUME IInv, Next, dev.phase = "config", dev'.phase = "ready"
      PROVE  \E t \in Thread : NewDev(t)
  <2>1. NoDev.phase = "none"
    BY DEF NoDev
  <2>2. ASSUME Close PROVE FALSE
    BY <1>1, <2>1, <2>2 DEF Close
  <2>3. ASSUME NEW t \in Thread, Step(t) PROVE NewDev(t)
    <3>1. CASE Calling(t)
      BY <1>1, <3>1, CallingMoves
    <3>2. CASE \/ \E c \in Config : Open(t, c)
               \/ TunSetIff(t) \/ TunSetOffload(t) \/ FromFd(t) \/ \E o \in Op : Call(t, o)
      BY <1>1, <2>1, <3>2 DEF Open, TunSetIff, TunSetOffload, FromFd, Call
    <3>3. CASE Configure(t)
      BY <1>1, <3>3 DEF Configure, IInv, DevInv
    <3>4. CASE Fails(t) \/ NewFails(t)
      BY <1>1, <2>2, <3>4 DEF Fails, NewFails, BuildFails
    <3> QED BY <2>3, <3>1, <3>2, <3>3, <3>4 DEF Step, Calling, Asks, Writing
  <2>4. CASE Drop \/ IntoRawFd \/ CallerCloses \/ Crash \/ OtherRenames
    BY <1>1, <2>2, <2>4 DEF Drop, IntoRawFd, CallerCloses, Crash, OtherRenames
  <2> QED BY <1>1, <2>3, <2>4 DEF Next
<1>2. ASSUME IInv, NEW t \in Thread, NewDev(t)
      PROVE  LET c == dev.config
                 f == ifs'[dev.own]
             IN  /\ c.mtu # None => f.attr["mtu"] = c.mtu
                 /\ c.ipv4 # None => f.v4 = <<[addr |-> c.ipv4, mask |-> "asked", dst |-> c.dst]>>
                 /\ ToSet(c.ipv6) \subseteq f.v6
                 /\ c.enabled # None => f.attr["up"] = c.enabled
                 /\ c.name # None => f.name = c.name
  <2>1. dev.phase = "config" /\ dev.plan = <<>> /\ ifs' = ifs /\ Idle(t) /\ dev.by = t
    BY <1>2 DEF NewDev
  <2>2. AllIdle
    BY <1>2, <2>1, BuilderAlone DEF AllIdle, IInv
  <2>3. \A kind, arg : ~Pending(kind, arg)
    BY <2>1, <2>2 DEF Pending, AllIdle
  <2>4. ifs'[dev.own] = Own
    BY <2>1 DEF Own
  <2> QED BY <1>2, <2>1, <2>3, <2>4 DEF IInv, ConfigInv, ToSet
<1>3. ASSUME IInv, [Next]_vars
      PROVE  [dev.phase = "config" /\ dev'.phase = "ready" =>
                LET c == dev.config
                    f == ifs'[dev.own]
                IN  /\ c.mtu # None => f.attr["mtu"] = c.mtu
                    /\ c.ipv4 # None =>
                         f.v4 = <<[addr |-> c.ipv4, mask |-> "asked", dst |-> c.dst]>>
                    /\ ToSet(c.ipv6) \subseteq f.v6
                    /\ c.enabled # None => f.attr["up"] = c.enabled
                    /\ c.name # None => f.name = c.name]_vars
  BY <1>1, <1>2, <1>3
<1> QED BY <1>3, Invariance, PTL DEF Spec, ConfigApplied
=============================================================================
