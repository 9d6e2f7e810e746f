---------------------------- MODULE LinuxDevice ----------------------------
(***************************************************************************)
(* The Linux device: DeviceBuilder::build_async, DeviceImpl::new, the      *)
(* operations that configure the interface, and what is left when the      *)
(* descriptor is closed (src/builder.rs, src/platform/linux/device.rs,     *)
(* src/platform/unix/device.rs).                                           *)
(*                                                                         *)
(* An operation is a sequence of system calls made under op_lock.  It does *)
(* not name the interface once and for all: it asks the descriptor for the *)
(* name (request), and the call that follows goes to whatever interface    *)
(* has that name by then.  Another program renames its own interface       *)
(* Other; it leaves the TUN interfaces alone.                              *)
(***************************************************************************)
EXTENDS Naturals, Sequences, SequencesExt

CONSTANTS Thread,    \* the threads that share the device
          Name,      \* interface names
          Config,    \* the builders the program may run
          Op,        \* the operations the threads may call
          None,
          MaxIf,     \* number of interface indices
          MaxBuild,  \* devices built
          MaxCalls   \* operations called by the threads

ASSUME SizesAssumption == MaxIf \in Nat \ {0} /\ MaxBuild \in Nat /\ MaxCalls \in Nat

VARIABLES ifs,     \* the kernel's interfaces
          dev,     \* the DeviceImpl, or the one being built
          th,      \* the operation each thread executes
          builds, calls

vars == <<ifs, dev, th, builds, calls>>

Index == 1 .. MaxIf
Other == 1
Attr == {"mtu", "up", "persist", "tx_queue_len", "broadcast", "mac_address", "user", "group"}

(***************************************************************************)
(* Operations, as the system calls they make.                              *)
(***************************************************************************)

request == <<"tungetiff">>
if_index_impl == <<"tungetiff", "if_nametoindex">>

set_name == request \o <<"siocsifname">>
set_mtu == request \o <<"siocsifmtu">>
set_tx_queue_len == request \o <<"change_tx_queue_len">>
set_broadcast == request \o <<"siocsifbrdaddr">>
set_mac_address == request \o <<"siocsifhwaddr">>
enabled == request \o <<"siocgifflags", "siocsifflags">>
persist == <<"tunsetpersist">>
user == <<"tunsetowner">>
group == <<"tunsetgroup">>

remove_all_address_v4 == if_index_impl \o <<"list_all", "remove_each">>
set_address_v4 == request \o <<"siocsifaddr">>
set_netmask == request \o <<"siocsifnetmask">>
set_destination == request \o <<"siocsifdstaddr">>

\* Mutant: the new address is expected to replace the old ones.
set_network_address_keeps(dst) ==
  set_address_v4 \o set_netmask \o (IF dst = None THEN <<>> ELSE set_destination)

set_network_address(dst) ==
  remove_all_address_v4 \o set_address_v4 \o set_netmask
    \o (IF dst = None THEN <<>> ELSE set_destination)
add_address_v4 == if_index_impl \o <<"add_address">>
remove_address(isV4) ==
  IF isV4 THEN if_index_impl \o <<"list_matching", "remove_each">>
          ELSE <<"tungetiff", "getifaddrs_v6">> \o if_index_impl \o <<"siocdifaddr_in6">>
add_address_v6 == if_index_impl \o <<"siocsifaddr_in6">>
remove_address_v6 == if_index_impl \o <<"siocdifaddr_in6">>

is_running == request \o <<"siocgifflags">>
mtu == request \o <<"siocgifmtu">>
tx_queue_len == request \o <<"tx_queue_len">>
mac_address == request \o <<"siocgifhwaddr">>
broadcast == request \o <<"siocgifbrdaddr">>
addresses == <<"tungetiff", "getifaddrs">>

Script(o) ==
  CASE o.kind = "set_name" -> set_name
    [] o.kind = "set_mtu" -> set_mtu
    [] o.kind = "set_tx_queue_len" -> set_tx_queue_len
    [] o.kind = "set_broadcast" -> set_broadcast
    [] o.kind = "set_mac_address" -> set_mac_address
    [] o.kind = "enabled" -> enabled
    [] o.kind = "persist" -> persist
    [] o.kind = "user" -> user
    [] o.kind = "group" -> group
    [] o.kind = "set_network_address" -> set_network_address(o.dst)
    [] o.kind = "add_address_v4" -> add_address_v4
    [] o.kind = "add_address_v6" -> add_address_v6
    [] o.kind = "remove_address_v4" -> remove_address(TRUE)
    [] o.kind = "remove_address" -> remove_address(FALSE)
    [] o.kind = "remove_address_v6" -> remove_address_v6
    [] o.kind = "is_running" -> is_running
    [] o.kind = "mtu" -> mtu
    [] o.kind = "tx_queue_len" -> tx_queue_len
    [] o.kind = "mac_address" -> mac_address
    [] o.kind = "broadcast" -> broadcast
    [] o.kind = "name" -> request
    [] o.kind = "if_index" -> if_index_impl
    [] o.kind = "addresses" -> addresses

Getter == {"is_running", "mtu", "tx_queue_len", "mac_address", "broadcast", "name", "if_index"}
Setter == {"set_name", "set_mtu", "set_tx_queue_len", "set_broadcast", "set_mac_address",
           "enabled", "persist", "user", "group", "set_network_address", "add_address_v4",
           "add_address_v6", "remove_address_v4", "remove_address", "remove_address_v6"}
Kind == Getter \cup Setter \cup {"addresses"}

ASSUME OpsAssumption ==
  /\ None \notin Name
  /\ \A o \in Op : o.kind \in Kind /\ (o.kind = "set_name" => o.arg \in Name)
  /\ \A c \in Config : c.offload \in BOOLEAN /\ c.ipv6 \in Seq(ToSet(c.ipv6))

\* Mutant: set_mtu takes no lock.
LockOfMtuNone(o) == IF o.kind \in {"addresses", "set_mtu"} THEN "none"
                    ELSE IF o.kind \in Getter THEN "read" ELSE "write"

\* The side of op_lock an operation holds from its first call to its last.
LockOf(o) == IF o.kind = "addresses" THEN "none"
             ELSE IF o.kind \in Getter THEN "read" ELSE "write"

\* The interface attribute that a call writes or reads.
AttrOf == [siocsifmtu |-> "mtu", change_tx_queue_len |-> "tx_queue_len",
           siocsifbrdaddr |-> "broadcast", siocsifhwaddr |-> "mac_address",
           siocsifflags |-> "up", tunsetpersist |-> "persist",
           tunsetowner |-> "user", tunsetgroup |-> "group",
           siocgifflags |-> "up", siocgifmtu |-> "mtu", tx_queue_len |-> "tx_queue_len",
           siocgifhwaddr |-> "mac_address", siocgifbrdaddr |-> "broadcast"]

FdCalls == {"tunsetpersist", "tunsetowner", "tunsetgroup"}
GetCalls == {"siocgifflags", "siocgifmtu", "tx_queue_len", "siocgifhwaddr", "siocgifbrdaddr"}
SetCalls == {"siocsifname", "siocsifmtu", "change_tx_queue_len", "siocsifbrdaddr",
             "siocsifhwaddr", "siocsifflags", "siocsifaddr", "siocsifnetmask",
             "siocsifdstaddr"}
IndexCalls == {"add_address", "siocsifaddr_in6", "siocdifaddr_in6"}

(***************************************************************************)
(* State.                                                                  *)
(***************************************************************************)

Absent == [name |-> None, tun |-> FALSE, attached |-> FALSE, vnet |-> FALSE,
           mask |-> {}, v4 |-> <<>>, v6 |-> {}, attr |-> [a \in Attr |-> 0]]
NoDev == [phase |-> "none", own |-> 0, config |-> None, vnet_hdr |-> FALSE,
          udp_gso |-> FALSE, warned |-> FALSE, adopted |-> FALSE, plan |-> <<>>, by |-> None]
NoConfig == [name |-> None, offload |-> FALSE, mtu |-> None, ipv4 |-> None, dst |-> None,
             ipv6 |-> <<>>, enabled |-> None]
NoOp == [kind |-> "none", arg |-> None, dst |-> None]
NoRet == [ok |-> FALSE, val |-> 0, addrs |-> {}]
IdleThread(r) == [op |-> NoOp, todo |-> <<>>, req |-> None, idx |-> 0, left |-> {}, ret |-> r]

Present(i) == ifs[i].name # None
Named(n) == {i \in Index : Present(i) /\ ifs[i].name = n}
Own == ifs[dev.own]
Idle(t) == th[t].op = NoOp
AddrsV4(f) == {f.v4[k].addr : k \in DOMAIN f.v4}

Init ==
  /\ \E n \in Name : ifs = [i \in Index |-> IF i = Other THEN [Absent EXCEPT !.name = n]
                                                      ELSE Absent]
  /\ dev = NoDev
  /\ th = [t \in Thread |-> IdleThread(NoRet)]
  /\ builds = 0 /\ calls = 0

(***************************************************************************)
(* Closing the descriptor.  The kernel deletes an interface that was not   *)
(* made persistent and keeps everything of one that was.                   *)
(***************************************************************************)

Closed == [ifs EXCEPT ![dev.own] = IF @.attr["persist"] = 1 THEN [@ EXCEPT !.attached = FALSE]
                                                            ELSE Absent]

\* Mutant: the descriptor counts as borrowed and is not closed.
CloseForgotten == ifs' = ifs /\ dev' = NoDev

Close == ifs' = (IF dev.own = 0 THEN ifs ELSE Closed) /\ dev' = NoDev

\* An error on the way: the DeviceImpl, and with it the Fd, is dropped.
BuildFails(t) == Close /\ th' = [th EXCEPT ![t] = IdleThread(NoRet)] /\ UNCHANGED <<builds, calls>>

(***************************************************************************)
(* build_async.                                                            *)
(***************************************************************************)

Open(t, c) ==
  /\ dev = NoDev /\ builds < MaxBuild
  /\ builds' = builds + 1
  /\ dev' = [NoDev EXCEPT !.phase = "opened", !.config = c, !.by = t]
  /\ UNCHANGED <<ifs, th, calls>>

\* TUNSETIFF with the name of a persistent interface nobody has open attaches to it;
\* a free name, or none, creates an interface.
Attachable(i, c) == ifs[i].name = c.name /\ ifs[i].tun /\ ~ifs[i].attached
Creatable(i, n, c) == ~Present(i) /\ Named(n) = {} /\ c.name \in {None, n}

TunSetIff(t) ==
  /\ dev.phase = "opened" /\ dev.by = t
  /\ \E i \in Index, n \in Name :
       /\ \/ Attachable(i, dev.config) /\ n = ifs[i].name
          \/ Creatable(i, n, dev.config)
       /\ ifs' = [ifs EXCEPT ![i] = [@ EXCEPT !.name = n, !.tun = TRUE, !.attached = TRUE,
                                              !.vnet = dev.config.offload]]
       /\ dev' = [dev EXCEPT !.phase = "attached", !.own = i]
  /\ UNCHANGED <<th, builds, calls>>

\* Mutant: a device without offload leaves the mask as it is.
OffloadMaskKept(old, offload, first, second) ==
  CASE offload /\ first /\ second -> {"tcp", "udp"}
    [] offload /\ first /\ ~second -> {"tcp"}
    [] OTHER -> old

\* tunsetoffload: TCP, then TCP and UDP, or an empty mask; a failure is only logged.
OffloadMask(old, offload, first, second) ==
  CASE offload /\ first /\ second -> {"tcp", "udp"}
    [] offload /\ first /\ ~second -> {"tcp"}
    [] ~offload /\ first -> {}
    [] OTHER -> old

\* Mutant: enable(false) is taken for the state a new interface has anyway.
PlanOnlyEnables(c) ==
  (IF c.mtu = None THEN <<>> ELSE <<[NoOp EXCEPT !.kind = "set_mtu", !.arg = c.mtu]>>)
  \o (IF c.ipv4 = None THEN <<>>
      ELSE <<[NoOp EXCEPT !.kind = "set_network_address", !.arg = c.ipv4, !.dst = c.dst]>>)
  \o [k \in DOMAIN c.ipv6 |-> [NoOp EXCEPT !.kind = "add_address_v6", !.arg = c.ipv6[k]]]
  \o (IF c.enabled # 1 THEN <<>> ELSE <<[NoOp EXCEPT !.kind = "enabled", !.arg = c.enabled]>>)

\* DeviceBuilder::config: what was set, in this order.
Plan(c) ==
  (IF c.mtu = None THEN <<>> ELSE <<[NoOp EXCEPT !.kind = "set_mtu", !.arg = c.mtu]>>)
  \o (IF c.ipv4 = None THEN <<>>
      ELSE <<[NoOp EXCEPT !.kind = "set_network_address", !.arg = c.ipv4, !.dst = c.dst]>>)
  \o [k \in DOMAIN c.ipv6 |-> [NoOp EXCEPT !.kind = "add_address_v6", !.arg = c.ipv6[k]]]
  \o (IF c.enabled = None THEN <<>> ELSE <<[NoOp EXCEPT !.kind = "enabled", !.arg = c.enabled]>>)

TunSetOffload(t) ==
  /\ dev.phase = "attached" /\ dev.by = t
  /\ \E first, second \in BOOLEAN :
       LET offload == dev.config.offload IN
       /\ ifs' = [ifs EXCEPT ![dev.own].mask = OffloadMask(@, offload, first, second)]
       /\ dev' = [dev EXCEPT !.phase = "config", !.vnet_hdr = offload /\ first,
                             !.udp_gso = offload /\ first /\ second,
                             !.warned = ~first, !.plan = Plan(dev.config)]
  /\ UNCHANGED <<th, builds, calls>>

NewDev(t) ==
  /\ dev.phase = "config" /\ dev.by = t /\ Idle(t) /\ dev.plan = <<>>
  /\ dev' = [dev EXCEPT !.phase = "ready", !.by = None]
  /\ UNCHANGED <<ifs, th, builds, calls>>

\* The error returns of DeviceImpl::new, and of new_dev after config.
NewFails(t) ==
  /\ dev.by = t /\ Idle(t)
  /\ dev.phase = "opened" \/ (dev.phase = "config" /\ dev.plan = <<>>)
  /\ BuildFails(t)

(***************************************************************************)
(* Operations.                                                             *)
(***************************************************************************)

MayLock(t, o) ==
  \A u \in Thread \ {t} :
    \/ Idle(u)
    \/ "none" \in {LockOf(o), LockOf(th[u].op)}
    \/ LockOf(o) = "read" /\ LockOf(th[u].op) = "read"

Start(t, o) == th' = [th EXCEPT ![t] = [IdleThread(NoRet) EXCEPT !.op = o, !.todo = Script(o)]]

Call(t, o) ==
  /\ dev.phase = "ready" /\ Idle(t) /\ calls < MaxCalls
  /\ MayLock(t, o)
  /\ Start(t, o)
  /\ calls' = calls + 1
  /\ UNCHANGED <<ifs, dev, builds>>

\* DeviceBuilder::config calls the next operation it has a value for.
Configure(t) ==
  /\ dev.phase = "config" /\ dev.by = t /\ Idle(t) /\ dev.plan # <<>>
  /\ Start(t, Head(dev.plan))
  /\ dev' = [dev EXCEPT !.plan = Tail(@)]
  /\ UNCHANGED <<ifs, builds, calls>>

At(t, c) == ~Idle(t) /\ Head(th[t].todo) = c

\* The call succeeded: on to the next one, or back to the caller with x.
Advance(t, new, x) ==
  th' = [th EXCEPT ![t] = IF Tail(@.todo) = <<>> THEN IdleThread([x EXCEPT !.ok = TRUE])
                                                 ELSE [new EXCEPT !.todo = Tail(@)]]

\* Any call may fail; the operation returns the error and leaves what it did.
Fails(t) ==
  /\ ~Idle(t) /\ Head(th[t].todo) # "if_nametoindex"
  /\ \/ dev.phase = "config" /\ BuildFails(t)
     \/ /\ dev.phase = "ready"
        /\ th' = [th EXCEPT ![t] = IdleThread(NoRet)]
        /\ UNCHANGED <<ifs, dev, builds, calls>>

TunGetIff(t) ==
  /\ At(t, "tungetiff")
  /\ Advance(t, [th[t] EXCEPT !.req = Own.name], NoRet)
  /\ UNCHANGED <<ifs, dev, builds, calls>>

\* The index of the interface that has the name now, 0 if none has.
IfNameToIndex(t) ==
  /\ At(t, "if_nametoindex")
  /\ LET i == IF Named(th[t].req) = {} THEN 0 ELSE CHOOSE k \in Named(th[t].req) : TRUE
     IN  Advance(t, [th[t] EXCEPT !.idx = i], [NoRet EXCEPT !.val = i])
  /\ UNCHANGED <<ifs, dev, builds, calls>>

\* The kernel's part of a call on interface f.  SIOCSIFADDR replaces the first address,
\* with the netmask of its class; SIOCSIFNETMASK and SIOCSIFDSTADDR change the first.
V4(a) == [addr |-> a, mask |-> "class", dst |-> None]
Rest(s) == IF s = <<>> THEN <<>> ELSE Tail(s)
Written(f, c, o) ==
  CASE c = "siocsifname" -> [f EXCEPT !.name = o.arg]
    [] c = "siocsifaddr" -> [f EXCEPT !.v4 = Append(Rest(@), V4(o.arg))]
    [] c = "siocsifnetmask" -> [f EXCEPT !.v4 = Append(Tail(@), [Head(@) EXCEPT !.mask = "asked"])]
    [] c = "siocsifdstaddr" -> [f EXCEPT !.v4 = Append(Tail(@), [Head(@) EXCEPT !.dst = o.dst])]
    [] c = "add_address" -> [f EXCEPT !.v4 = Append(@, [V4(o.arg) EXCEPT !.mask = "asked"])]
    [] c = "siocsifaddr_in6" -> [f EXCEPT !.v6 = @ \cup {o.arg}]
    [] c = "siocdifaddr_in6" -> [f EXCEPT !.v6 = @ \ {o.arg}]
    [] OTHER -> [f EXCEPT !.attr[AttrOf[c]] = o.arg]

\* What the kernel refuses: a name in use, an address twice, an address that is not there.
Refused(f, c, o) ==
  \/ c = "siocsifname" /\ Named(o.arg) # {}
  \/ c \in {"siocsifnetmask", "siocsifdstaddr"} /\ f.v4 = <<>>
  \/ c = "siocsifaddr" /\ \E k \in 2 .. Len(f.v4) : f.v4[k].addr = o.arg
  \/ c = "add_address" /\ o.arg \in AddrsV4(f)
  \/ c = "siocsifaddr_in6" /\ o.arg \in f.v6
  \/ c = "siocdifaddr_in6" /\ o.arg \notin f.v6

Apply(t, i) ==
  LET c == Head(th[t].todo) IN
  /\ ~Refused(ifs[i], c, th[t].op)
  /\ ifs' = [ifs EXCEPT ![i] = Written(@, c, th[t].op)]
  /\ Advance(t, th[t], NoRet)
  /\ UNCHANGED <<dev, builds, calls>>

SetByName(t) == \E c \in SetCalls : At(t, c) /\ \E i \in Named(th[t].req) : Apply(t, i)
SetByIndex(t) == \E c \in IndexCalls : At(t, c) /\ \E i \in Index : i = th[t].idx /\ Apply(t, i)
SetByFd(t) == \E c \in FdCalls : At(t, c) /\ Apply(t, dev.own)

GetByName(t) ==
  /\ \E c \in GetCalls :
       /\ At(t, c)
       /\ \E i \in Named(th[t].req) :
            Advance(t, th[t], [NoRet EXCEPT !.val = ifs[i].attr[AttrOf[c]]])
  /\ UNCHANGED <<ifs, dev, builds, calls>>

\* netconfig_rs: the interface's IPv4 addresses, all of them or the one asked for,
\* to be removed one by one.
List(t, all) ==
  LET now == AddrsV4(ifs[th[t].idx])
  IN  IF all THEN now ELSE now \cap {th[t].op.arg}

ListAddresses(t) ==
  /\ \E all \in BOOLEAN :
       /\ At(t, IF all THEN "list_all" ELSE "list_matching") /\ th[t].idx # 0
       /\ Advance(t, [th[t] EXCEPT !.left = List(t, all)], NoRet)
  /\ UNCHANGED <<ifs, dev, builds, calls>>

RemoveEach(t) ==
  /\ At(t, "remove_each")
  /\ IF th[t].left = {} THEN ifs' = ifs /\ Advance(t, th[t], NoRet)
     ELSE LET v4 == ifs[th[t].idx].v4 IN
          \E k \in DOMAIN v4 :
            /\ v4[k].addr \in th[t].left
            /\ ifs' = [ifs EXCEPT ![th[t].idx].v4 = RemoveAt(v4, k)]
            /\ th' = [th EXCEPT ![t].left = @ \ {v4[k].addr}]
  /\ UNCHANGED <<dev, builds, calls>>

\* getifaddrs, filtered by the name: no interface of that name is an empty list.
AddrsNamed(n) == UNION {AddrsV4(ifs[i]) \cup ifs[i].v6 : i \in Named(n)}

GetIfAddrs(t) ==
  /\ At(t, "getifaddrs")
  /\ Advance(t, th[t], [NoRet EXCEPT !.addrs = AddrsNamed(th[t].req)])
  /\ UNCHANGED <<ifs, dev, builds, calls>>

\* remove_address looks the IPv6 address up, and has nothing to do if it is not there.
LookUpV6(t) ==
  /\ At(t, "getifaddrs_v6")
  /\ IF th[t].op.arg \in AddrsNamed(th[t].req) THEN Advance(t, th[t], NoRet)
     ELSE th' = [th EXCEPT ![t] = IdleThread([NoRet EXCEPT !.ok = TRUE])]
  /\ UNCHANGED <<ifs, dev, builds, calls>>

(***************************************************************************)
(* The end of the device, and the other program.                           *)
(***************************************************************************)

Drop ==
  /\ dev.phase = "ready" /\ \A t \in Thread : Idle(t)
  /\ Close /\ UNCHANGED <<th, builds, calls>>

\* into_raw_fd: the Fd forgets the number, which is the caller's from now on.
IntoRawFd ==
  /\ dev.phase = "ready" /\ \A t \in Thread : Idle(t)
  /\ dev' = [NoDev EXCEPT !.phase = "raw", !.own = dev.own]
  /\ UNCHANGED <<ifs, th, builds, calls>>

\* from_fd: from_tun does not ask the kernel which flags and offloads the descriptor has.
\* new_dev is still to come, and drops the Fd if it fails.
FromFd(t) ==
  /\ dev.phase = "raw" /\ builds < MaxBuild
  /\ builds' = builds + 1
  /\ dev' = [NoDev EXCEPT !.phase = "config", !.own = dev.own, !.config = NoConfig,
                          !.adopted = TRUE, !.by = t]
  /\ UNCHANGED <<ifs, th, calls>>

CallerCloses == dev.phase = "raw" /\ Close /\ UNCHANGED <<th, builds, calls>>

\* The process dies between two system calls; the kernel closes the descriptor.
Crash ==
  /\ dev # NoDev
  /\ Close /\ th' = [t \in Thread |-> IdleThread(NoRet)] /\ UNCHANGED <<builds, calls>>

OtherRenames ==
  /\ \E n \in Name : Named(n) = {} /\ ifs' = [ifs EXCEPT ![Other].name = n]
  /\ UNCHANGED <<dev, th, builds, calls>>

Step(t) ==
  \/ \E c \in Config : Open(t, c)
  \/ TunSetIff(t) \/ TunSetOffload(t) \/ Configure(t) \/ NewDev(t) \/ NewFails(t)
  \/ FromFd(t)
  \/ \E o \in Op : Call(t, o)
  \/ TunGetIff(t) \/ IfNameToIndex(t) \/ SetByName(t) \/ SetByIndex(t) \/ SetByFd(t)
  \/ GetByName(t) \/ ListAddresses(t) \/ RemoveEach(t) \/ GetIfAddrs(t) \/ LookUpV6(t)
  \/ Fails(t)

Next == (\E t \in Thread : Step(t)) \/ Drop \/ IntoRawFd \/ CallerCloses \/ Crash
  \/ OtherRenames

Spec == Init /\ [][Next]_vars

(***************************************************************************)
(* Properties.                                                             *)
(***************************************************************************)

\* Every variable has the shape the code gives it; a device owns an attached TUN.
TypeOK ==
  /\ ifs \in [Index -> [name : Name \cup {None}, tun : BOOLEAN, attached : BOOLEAN, vnet : BOOLEAN,
                       mask : SUBSET {"tcp", "udp"}, v4 : Seq([addr : {x.arg : x \in Op} \cup
                         {c.ipv4 : c \in Config}, mask : {"class", "asked"},
                         dst : {x.dst : x \in Op} \cup {c.dst : c \in Config} \cup {None}]),
                       v6 : SUBSET ({x.arg : x \in Op} \cup UNION {ToSet(c.ipv6) : c \in Config}),
                       attr : [Attr -> Nat]]]
  /\ dev.phase \in {"none", "opened", "attached", "config", "ready", "raw"}
  /\ dev.own \in 0 .. MaxIf /\ (dev.own = 0 <=> dev.phase \in {"none", "opened"})
  /\ dev.own # 0 => Own.tun /\ Own.attached
  /\ \A t \in Thread : /\ th[t].idx \in 0 .. MaxIf /\ th[t].req \in Name \cup {None}
                        /\ Idle(t) <=> th[t].todo = <<>>
  /\ builds \in 0 .. MaxBuild /\ calls \in 0 .. MaxCalls

\* Once no device is open the only TUN interfaces
\* left are the ones made persistent: an error in the middle of build_async or from_fd, a
\* drop and a crash all close the descriptor (Fd's Drop, the kernel), and into_raw_fd
\* leaves it to the caller, to close it or to give it to from_fd.
NothingLeaked ==
  dev = NoDev => \A i \in Index : ifs[i].tun => ~ifs[i].attached /\ ifs[i].attr["persist"] = 1

\* A device that was built, and came up without a warning, agrees with the kernel about the frames it
\* will read: a virtio header iff vnet_hdr, and aggregates only of the kinds that
\* vnet_hdr and udp_gso announce, whatever mask an earlier process left on a persistent
\* TUN.  A flag that is set is right even after a warning, and for a device that from_fd
\* made of a descriptor.
OffloadAgrees ==
  dev.phase \in {"config", "ready"} =>
    /\ ~dev.warned /\ ~dev.adopted =>
         /\ dev.vnet_hdr = Own.vnet
         /\ Own.mask = {k \in {"tcp", "udp"} : dev.vnet_hdr /\ (k = "udp" => dev.udp_gso)}
    /\ dev.vnet_hdr => Own.vnet /\ "tcp" \in Own.mask
    /\ dev.udp_gso => dev.vnet_hdr /\ "udp" \in Own.mask

\* However the system calls of an operation fall between a set_name and the other
\* program's renames, it changes and reads the device's own interface only: op_lock is
\* held from the request for the name to the call that uses it.
Returns(t, k) == th[t].op.kind = k /\ th'[t].op = NoOp /\ th'[t].ret.ok
OwnInterfaceOnly ==
  [][/\ \A i \in Index \ {dev.own, dev'.own} :
          ifs'[i] = ifs[i] \/ (i = Other /\ OtherRenames)
     /\ \A t \in Thread : /\ Returns(t, "mtu") => th'[t].ret.val = Own.attr["mtu"]
                          /\ Returns(t, "if_index") => th'[t].ret.val = dev.own]_vars

\* "Retrieves all IP addresses associated with the network interface": the list that
\* addresses() returns is that of the device's own interface.
AddressesOwn ==
  [][\A t \in Thread : Returns(t, "addresses") =>
       th'[t].ret.addrs = AddrsV4(Own) \cup Own.v6]_vars

\* "Remove all previous set IPv4 addresses and set the specified address":
\* when set_network_address returns Ok, the address it was given, with its netmask and
\* destination, is the only IPv4 address of the interface.
TheAddress(o) == [addr |-> o.arg, mask |-> "asked", dst |-> o.dst]
NetworkAddressExact ==
  [][\A t \in Thread : Returns(t, "set_network_address") =>
       ifs'[dev.own].v4 = <<TheAddress(th[t].op)>>]_vars

\* When build_async returns a device, the interface is as the builder was told, whatever
\* an earlier device, or one that died half configured, left on a persistent interface.
ConfigApplied ==
  [][dev.phase = "config" /\ dev'.phase = "ready" =>
       LET c == dev.config
           f == ifs'[dev.own]
       IN  /\ c.mtu # None => f.attr["mtu"] = c.mtu
           /\ c.ipv4 # None => f.v4 = <<[addr |-> c.ipv4, mask |-> "asked", dst |-> c.dst]>>
           /\ ToSet(c.ipv6) \subseteq f.v6
           /\ c.enabled # None => f.attr["up"] = c.enabled
           /\ c.name # None => f.name = c.name]_vars
=============================================================================
