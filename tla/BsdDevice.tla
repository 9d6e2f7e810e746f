----------------------------- MODULE BsdDevice -----------------------------
(***************************************************************************)
(* The FreeBSD and the macOS device: DeviceImpl::new, the operations that  *)
(* configure the interface and its routes, and the ways a descriptor       *)
(* changes hands (src/platform/freebsd/device.rs,                          *)
(* src/platform/macos/device.rs and tuntap.rs, src/platform/unix/fd.rs and *)
(* device.rs, the netmasks of src/builder.rs).                             *)
(*                                                                         *)
(* As in LinuxDevice an operation is a sequence of calls made under        *)
(* op_lock.  Unlike there a descriptor is a number, which the process uses *)
(* again for the next file it opens.  Addresses are Bits wide.             *)
(***************************************************************************)
EXTENDS Integers, Sequences, SequencesExt, FiniteSets

CONSTANTS Thread,    \* the threads that share the device
          Os,        \* the systems to consider
          Config,    \* the configurations new may be called with
          Op,        \* the operations the threads may call
          None,
          Bits,      \* width of an address
          MaxUnit,   \* number of tunN or utunN
          MaxFd,     \* number of descriptors
          MaxBuild,  \* devices made
          MaxCalls   \* operations called by the threads

ASSUME BoundsAssumption ==
  /\ Os \subseteq {"freebsd", "macos"}
  /\ Bits \in Nat \ {0} /\ MaxUnit \in Nat \ {0} /\ MaxFd \in Nat \ {0}
  /\ MaxBuild \in Nat /\ MaxCalls \in Nat

VARIABLES os,      \* the system this behaviour is about
          ifs,     \* the kernel's interfaces, by unit
          fds,     \* the process's descriptors
          files,   \* the descriptors other parts of the process opened
          dev,     \* the DeviceImpl, or the one being made or dropped
          raw,     \* the descriptor the caller has from into_raw_fd
          th,      \* the operation each thread executes
          builds, calls

vars == <<os, ifs, fds, files, dev, raw, th, builds, calls>>

Unit == 0 .. MaxUnit - 1
FdNo == 1 .. MaxFd

ASSUME ConfigAssumption ==
  None \notin Unit /\ \A c \in Config : c.unit \in Unit \cup {None}

(***************************************************************************)
(* Netmasks.  A caller gives a prefix length or a mask.                    *)
(***************************************************************************)

pow2[k \in 0 .. Bits] == IF k = 0 THEN 1 ELSE 2 * pow2[k - 1]
Number == 0 .. pow2[Bits] - 1
Bit(v, k) == (v \div pow2[k]) % 2
count_ones(v) == Cardinality({k \in 0 .. Bits - 1 : Bit(v, k) = 1})
leading_ones(v) == Cardinality({k \in 0 .. Bits - 1 : \A j \in k .. Bits - 1 : Bit(v, j) = 1})

\* ToIpv4Netmask is a u8 or an Ipv4Addr.
Given(m) == \/ m.form = "prefix" /\ m.val \in Nat
            \/ m.form = "mask" /\ m.val \in Number

\* ToIpv4Netmask::prefix; -1 is InvalidData.
prefix(m) ==
  IF m.form = "prefix" THEN (IF m.val > Bits THEN -1 ELSE m.val)
  ELSE IF leading_ones(m.val) # count_ones(m.val) THEN -1 ELSE leading_ones(m.val)

\* u32::MAX.checked_shl(32 - prefix).unwrap_or(0)
netmask(m) ==
  IF prefix(m) = 0 THEN 0
  ELSE ((pow2[Bits] - 1) * pow2[Bits - prefix(m)]) % pow2[Bits]

\* ipnet: the first and the last address of a network.
network(a, mask) == a - (a % (pow2[Bits] - mask))
broadcast(a, mask) == network(a, mask) + (pow2[Bits] - mask) - 1

calc_dest_addr(o) == IF o.dst = None THEN broadcast(o.addr, netmask(o.mask)) ELSE o.dst

(***************************************************************************)
(* Operations, as the calls they make.  A call is its name and, where it   *)
(* is about one, an address.                                               *)
(***************************************************************************)

C(name) == [call |-> name, entry |-> None]
On(name, e) == [call |-> name, entry |-> e]

\* name_impl: the path of the descriptor (FreeBSD), UTUN_OPT_IFNAME (macOS).
name_impl == <<C("name")>>
request == name_impl
request_v6 == name_impl

Entry(o) == [addr |-> o.addr, mask |-> netmask(o.mask), dst |-> calc_dest_addr(o)]

add_route(e, associate_route) == IF associate_route THEN <<On("route_add", e)>> ELSE <<>>
remove_route(e, associate_route) ==
  IF associate_route THEN <<On("route_delete", e)>> ELSE <<>>

add_address(o, associate_route) ==
  name_impl \o <<On("siocaifaddr", Entry(o))>> \o add_route(Entry(o), associate_route)

add_address_v4(o, associate_route) == add_address(o, associate_route)

\* Mutant: one address is all there is.
remove_all_first ==
  request \o (IF os = "freebsd" THEN <<>> ELSE name_impl) \o <<C("siocdifaddr_any")>>

\* FreeBSD deletes the first address until there is none; macOS goes through the list.
remove_all_address_v4 ==
  request \o (IF os = "freebsd" THEN <<C("siocdifaddr_loop")>>
                                ELSE name_impl \o <<C("list_all")>>)

set_network_address(o, associate_route) ==
  remove_all_address_v4 \o add_address(o, associate_route)

\* macOS looks the address up again, after its deletion, for the route's netmask.
remove_address(o) ==
  request \o <<On("siocdifaddr", [addr |-> o.addr])>>
    \o (IF os = "macos" THEN name_impl \o <<C("list_matching")>> ELSE <<>>)

enabled == request \o <<C("siocgifflags"), C("siocsifflags")>>
set_mtu == request \o <<C("siocsifmtu")>>
mtu == request \o <<C("siocgifmtu")>>
set_name == request \o <<C("siocsifname")>>
add_address_v6 == name_impl \o <<C("siocaifaddr_in6")>>
remove_address_v6 == request_v6 \o <<C("siocdifaddr_in6")>>

Script(o, associate_route) ==
  CASE o.kind = "set_network_address" -> set_network_address(o, associate_route)
    [] o.kind = "add_address_v4" -> add_address_v4(o, associate_route)
    [] o.kind = "remove_address" -> remove_address(o)
    [] o.kind = "add_address_v6" -> add_address_v6
    [] o.kind = "remove_address_v6" -> remove_address_v6
    [] o.kind = "enabled" -> enabled
    [] o.kind = "set_mtu" -> set_mtu
    [] o.kind = "mtu" -> mtu
    [] o.kind = "set_name" -> set_name
    [] o.kind = "name" -> name_impl
    [] o.kind = "enable_tunsifhead" -> <<C("sioctunsifhead")>>
    [] o.kind = "set_associate_route" -> <<C("store")>>

\* Operations only one of the systems has.
Offered(o) == os = "macos" => o.kind \notin {"set_name", "enable_tunsifhead"}
GivesV4(o) == o.kind \in {"set_network_address", "add_address_v4"}
Refused(o) == GivesV4(o) /\ prefix(o.mask) = -1
IsRead(o) == o.kind \in {"mtu", "name"}

Kind == {"set_network_address", "add_address_v4", "remove_address", "add_address_v6",
         "remove_address_v6", "enabled", "set_mtu", "mtu", "set_name", "name",
         "enable_tunsifhead", "set_associate_route"}

\* The types of the arguments.
ASSUME OpAssumption ==
  \A o \in Op :
    /\ o.kind \in Kind
    /\ GivesV4(o) => o.addr \in Number /\ Given(o.mask)
    /\ o.kind = "set_name" => o.arg # None

(***************************************************************************)
(* State.                                                                  *)
(***************************************************************************)

Absent == [name |-> None, open |-> FALSE, v4 |-> <<>>, v6 |-> {}, routes |-> {},
           mtu |-> 0, up |-> FALSE, sifhead |-> FALSE]
Closed == [kind |-> "closed", unit |-> None]
NoDev == [phase |-> "none", inner |-> 0, saved |-> 0, unit |-> None, want |-> None,
          associate_route |-> TRUE, failed |-> FALSE]
NoOp == [kind |-> "none", addr |-> 0, mask |-> [form |-> "prefix", val |-> 0],
         dst |-> None, arg |-> None]
IdleThread == [op |-> NoOp, todo |-> <<>>, req |-> None, assoc |-> FALSE,
               had |-> {}, warned |-> FALSE, ok |-> FALSE]

Present(u) == ifs[u].name # None
Named(n) == {u \in Unit : Present(u) /\ ifs[u].name = n}
Idle(t) == th[t].op = NoOp
AllIdle == \A t \in Thread : Idle(t)

\* The number the next open or socket gets: the lowest one free.
FreeFds == {f \in FdNo : fds[f] = Closed}
NextFd == CHOOSE f \in FreeFds : \A g \in FreeFds : f <= g

\* Other programs may have any of the units open.
Init ==
  /\ os \in Os
  /\ \E b \in SUBSET Unit :
       ifs = [u \in Unit |-> IF u \in b THEN [Absent EXCEPT !.name = u, !.open = TRUE]
                                        ELSE Absent]
  /\ fds = [f \in FdNo |-> Closed] /\ files = {}
  /\ dev = NoDev /\ raw = 0
  /\ th = [t \in Thread |-> IdleThread]
  /\ builds = 0 /\ calls = 0

(***************************************************************************)
(* Descriptors.  A utun goes with its socket; a FreeBSD interface stays,   *)
(* down and without addresses, until it is destroyed.                      *)
(***************************************************************************)

IfsAfterClose(f) ==
  LET u == fds[f].unit IN
  IF fds[f].kind # "tun" \/ u = None THEN ifs
  ELSE [ifs EXCEPT ![u] = IF os = "macos" \/ ~Present(u) THEN Absent
                          ELSE [Absent EXCEPT !.name = ifs[u].name]]

\* close(f): a number that is not open is an error nobody looks at.
Close(f) == fds' = [fds EXCEPT ![f] = Closed] /\ ifs' = IfsAfterClose(f)

\* Drop for Fd.
DropFd(f) == IF f > 0 THEN Close(f) ELSE UNCHANGED <<fds, ifs>>

(***************************************************************************)
(* DeviceImpl::new.                                                        *)
(***************************************************************************)

\* FreeBSD: open /dev/tunN, or the first of tun0, tun1, ... that is not busy.
New(c) ==
  /\ dev = NoDev /\ raw = 0 /\ builds < MaxBuild
  /\ builds' = builds + 1
  /\ dev' = [NoDev EXCEPT !.phase = "open", !.want = c.unit,
                          !.unit = IF c.unit = None THEN 0 ELSE c.unit,
                          !.associate_route = IF os = "macos" THEN c.associate_route ELSE TRUE]
  /\ UNCHANGED <<os, ifs, fds, files, raw, th, calls>>

Opening == dev.phase = "open" /\ FreeFds # {}

OpenTun ==
  /\ Opening /\ os = "freebsd" /\ ~ifs[dev.unit].open
  /\ ifs' = [ifs EXCEPT ![dev.unit].open = TRUE,
                        ![dev.unit].name = IF @ = None THEN dev.unit ELSE @]
  /\ fds' = [fds EXCEPT ![NextFd] = [kind |-> "tun", unit |-> dev.unit]]
  /\ dev' = [dev EXCEPT !.phase = "fd", !.inner = NextFd]
  /\ UNCHANGED <<os, files, raw, th, builds, calls>>

\* EBUSY: on to the next number, if the caller did not ask for one.
OpenBusy ==
  /\ Opening /\ os = "freebsd" /\ ifs[dev.unit].open
  /\ dev' = IF dev.want = None /\ dev.unit + 1 \in Unit THEN [dev EXCEPT !.unit = @ + 1]
                                                        ELSE NoDev
  /\ UNCHANGED <<os, ifs, fds, files, raw, th, builds, calls>>

OpenSocket ==
  /\ Opening /\ os = "macos"
  /\ fds' = [fds EXCEPT ![NextFd] = [kind |-> "tun", unit |-> None]]
  /\ dev' = [dev EXCEPT !.phase = "socket", !.inner = NextFd]
  /\ UNCHANGED <<os, ifs, files, raw, th, builds, calls>>

OpenFails ==
  /\ dev.phase = "open"
  /\ dev' = NoDev
  /\ UNCHANGED <<os, ifs, fds, files, raw, th, builds, calls>>

\* macOS: connect makes the interface, with the unit asked for or one that is free.
Connect ==
  /\ dev.phase = "socket"
  /\ \E u \in Unit :
       /\ ~Present(u) /\ dev.want \in {None, u}
       /\ ifs' = [ifs EXCEPT ![u] = [Absent EXCEPT !.name = u, !.open = TRUE]]
       /\ fds' = [fds EXCEPT ![dev.inner].unit = u]
       /\ dev' = [dev EXCEPT !.phase = "fd", !.unit = u]
  /\ UNCHANGED <<os, files, raw, th, builds, calls>>

\* FreeBSD: TUNSIFHEAD, after which there is a DeviceImpl; macOS: the name can be had.
\* from_tun ("adopt") has nothing more to do.
SetUp ==
  /\ dev.phase \in {"fd", "adopt"}
  /\ ifs' = [ifs EXCEPT ![dev.unit].sifhead = (os = "freebsd")]
  /\ dev' = [dev EXCEPT !.phase = IF os = "freebsd" /\ dev.phase = "fd" THEN "made"
                                   ELSE "ready"]
  /\ UNCHANGED <<os, fds, files, raw, th, builds, calls>>

\* An error before the DeviceImpl exists: only the Fd is dropped.
SetUpFails ==
  /\ dev.phase \in {"socket", "fd", "adopt"}
  /\ DropFd(dev.inner)
  /\ dev' = NoDev
  /\ UNCHANGED <<os, files, raw, th, builds, calls>>

\* FreeBSD: disable_deafult_sys_local_ipv6, after which new returns.
DisableLocalIpv6 ==
  /\ dev.phase = "made"
  /\ dev' = [dev EXCEPT !.phase = "ready"]
  /\ UNCHANGED <<os, ifs, fds, files, raw, th, builds, calls>>

(***************************************************************************)
(* The end of a DeviceImpl: dropped, or taken apart.                       *)
(***************************************************************************)

\* Mutant: the number stays in the Fd, whose own Drop comes later.
DropTakesNothing == [dev EXCEPT !.phase = "destroy", !.saved = dev.inner]

\* FreeBSD: the number is taken out of the Fd, so that only one Drop closes it.
DropTakes == [dev EXCEPT !.phase = "destroy", !.saved = dev.inner, !.inner = 0]

\* Also where disable_deafult_sys_local_ipv6 or the rest of build_async fails.
DropBegin ==
  /\ dev.phase \in {"made", "ready"} /\ AllIdle
  /\ dev' = IF os = "freebsd" THEN DropTakes ELSE [dev EXCEPT !.phase = "drop_fd"]
  /\ UNCHANGED <<os, ifs, fds, files, raw, th, builds, calls>>

\* name_of_fd needs the number that DropBegin has taken out.
NameOfFd == dev.inner > 0 /\ fds[dev.inner].kind = "tun"

\* request, and SIOCIFDESTROY if it worked; either may fail.
DropDestroy ==
  /\ dev.phase = "destroy"
  /\ \E failed \in BOOLEAN :
       /\ ifs' = IF failed \/ ~NameOfFd THEN ifs ELSE [ifs EXCEPT ![dev.unit] = Absent]
       /\ dev' = [dev EXCEPT !.phase = "close", !.failed = failed]
  /\ UNCHANGED <<os, fds, files, raw, th, builds, calls>>

DropClose ==
  /\ dev.phase = "close"
  /\ Close(dev.saved)
  /\ dev' = [dev EXCEPT !.phase = "drop_fd", !.saved = 0]
  /\ UNCHANGED <<os, files, raw, th, builds, calls>>

\* The fields of the DeviceImpl are dropped.
DropFields ==
  /\ dev.phase = "drop_fd"
  /\ DropFd(dev.inner)
  /\ dev' = NoDev
  /\ UNCHANGED <<os, files, raw, th, builds, calls>>

\* into_raw_fd: the Fd forgets the number, and both Drops find nothing to do.
IntoRawFd ==
  /\ dev.phase = "ready" /\ AllIdle
  /\ raw' = dev.inner /\ dev' = NoDev
  /\ UNCHANGED <<os, ifs, fds, files, th, builds, calls>>

\* from_fd: from_tun sets the device up again, and drops the Fd if it cannot.
FromFd ==
  /\ dev = NoDev /\ raw # 0 /\ builds < MaxBuild
  /\ builds' = builds + 1
  /\ dev' = [NoDev EXCEPT !.phase = IF os = "freebsd" THEN "adopt" ELSE "ready",
                          !.inner = raw, !.unit = fds[raw].unit]
  /\ raw' = 0
  /\ UNCHANGED <<os, ifs, fds, files, th, calls>>

\* The caller closes what into_raw_fd gave it.
CallerCloses ==
  /\ raw # 0
  /\ Close(raw) /\ raw' = 0
  /\ UNCHANGED <<os, files, dev, th, builds, calls>>

(***************************************************************************)
(* Operations.                                                             *)
(***************************************************************************)

\* op_lock
MayLock(t, o) == \A u \in Thread \ {t} : Idle(u) \/ (IsRead(o) /\ IsRead(th[u].op))

Call(t, o) ==
  /\ dev.phase = "ready" /\ Idle(t) /\ calls < MaxCalls
  /\ Offered(o) /\ MayLock(t, o)
  /\ calls' = calls + 1
  /\ th' = [th EXCEPT ![t] =
              IF Refused(o) THEN IdleThread
              ELSE [IdleThread EXCEPT !.op = o, !.todo = Script(o, dev.associate_route),
                                      !.assoc = dev.associate_route,
                                      !.had = ToSet(ifs[dev.unit].v4)]]
  /\ UNCHANGED <<os, ifs, fds, files, dev, raw, builds>>

Now(t) == Head(th[t].todo)
At(t, c) == ~Idle(t) /\ Now(t).call = c

\* Go on behind the current call with `more`, or return Ok.
Continue(t, more) ==
  LET rest == more \o Tail(th[t].todo) IN
  IF rest = <<>> THEN [IdleThread EXCEPT !.ok = TRUE] ELSE [th[t] EXCEPT !.todo = rest]

Advance(t) == th' = [th EXCEPT ![t] = Continue(t, <<>>)]

\* The interface that has the name asked for, if any.
Target(t) == Named(th[t].req)

Name(t) ==
  /\ At(t, "name")
  /\ LET n == IF os = "freebsd" THEN dev.unit ELSE ifs[dev.unit].name
     IN  th' = [th EXCEPT ![t] = [Continue(t, <<>>) EXCEPT !.req = n]]
  /\ UNCHANGED <<os, ifs, fds, files, dev, raw, builds, calls>>

Has(v4, a) == \E k \in DOMAIN v4 : v4[k].addr = a
Without(v4, a) ==
  IF Has(v4, a) THEN RemoveAt(v4, CHOOSE k \in DOMAIN v4 : v4[k].addr = a) ELSE v4

\* What a call does to interface f, whose addresses differ: SIOCAIFADDR replaces one
\* that is there.
Written(f, c, o) ==
  CASE c.call = "siocaifaddr" -> [f EXCEPT !.v4 = Append(Without(@, c.entry.addr), c.entry)]
    [] c.call = "siocdifaddr" -> [f EXCEPT !.v4 = Without(@, c.entry.addr)]
    [] c.call = "siocdifaddr_any" -> [f EXCEPT !.v4 = IF @ = <<>> THEN @ ELSE Tail(@)]
    [] c.call = "siocaifaddr_in6" -> [f EXCEPT !.v6 = @ \cup {o.arg}]
    [] c.call = "siocdifaddr_in6" -> [f EXCEPT !.v6 = @ \ {o.arg}]
    [] c.call = "siocsifflags" -> [f EXCEPT !.up = o.arg]
    [] c.call = "siocsifmtu" -> [f EXCEPT !.mtu = o.arg]
    [] c.call = "siocsifname" -> [f EXCEPT !.name = o.arg]
    [] c.call \in {"siocgifflags", "siocgifmtu"} -> f

\* What the kernel refuses.
Possible(f, c, o) ==
  /\ c.call = "siocdifaddr" => Has(f.v4, c.entry.addr)
  /\ c.call = "siocdifaddr_in6" => o.arg \in f.v6
  /\ c.call = "siocsifname" => Named(o.arg) = {}

ByName == {"siocaifaddr", "siocdifaddr", "siocdifaddr_any", "siocaifaddr_in6",
           "siocdifaddr_in6", "siocsifflags", "siocsifmtu", "siocsifname", "siocgifflags",
           "siocgifmtu"}

Ioctl(t) ==
  /\ ~Idle(t) /\ Now(t).call \in ByName
  /\ \E u \in Target(t) :
       /\ Possible(ifs[u], Now(t), th[t].op)
       /\ ifs' = [ifs EXCEPT ![u] = Written(@, Now(t), th[t].op)]
  /\ Advance(t)
  /\ UNCHANGED <<os, fds, files, dev, raw, builds, calls>>

\* SIOCDIFADDR without an address deletes the first one; EADDRNOTAVAIL ends the loop.
DeleteAll(t) ==
  /\ At(t, "siocdifaddr_loop")
  /\ \E u \in Target(t) :
       IF ifs[u].v4 = <<>> THEN Advance(t) /\ UNCHANGED ifs
       ELSE ifs' = [ifs EXCEPT ![u].v4 = Tail(@)] /\ UNCHANGED th
  /\ UNCHANGED <<os, fds, files, dev, raw, builds, calls>>

\* get_if_addrs_by_name, and the body of the loop over what it lists: the address and
\* its route.  remove_address only looks for the address it has just deleted.
ListAll(t) ==
  /\ At(t, "list_all")
  /\ LET v4 == IF Target(t) = {} THEN <<>> ELSE ifs[CHOOSE u \in Target(t) : TRUE].v4
         one(e) == <<On("siocdifaddr", e)>> \o remove_route(e, th[t].assoc)
     IN  th' = [th EXCEPT ![t] = Continue(t, FlattenSeq([k \in DOMAIN v4 |-> one(v4[k])]))]
  /\ UNCHANGED <<os, ifs, fds, files, dev, raw, builds, calls>>

ListMatching(t) ==
  /\ At(t, "list_matching")
  /\ LET v4 == IF Target(t) = {} THEN <<>> ELSE ifs[CHOOSE u \in Target(t) : TRUE].v4
         one(e) == IF e.addr = th[t].op.addr THEN remove_route(e, th[t].assoc) ELSE <<>>
     IN  th' = [th EXCEPT ![t] = Continue(t, FlattenSeq([k \in DOMAIN v4 |-> one(v4[k])]))]
  /\ UNCHANGED <<os, ifs, fds, files, dev, raw, builds, calls>>

\* `if let Ok(addrs)`: a list that cannot be had is taken for an empty one.
ListFails(t) ==
  /\ At(t, "list_all") \/ At(t, "list_matching")
  /\ th' = [th EXCEPT ![t] = [Continue(t, <<>>) EXCEPT !.warned = TRUE]]
  /\ UNCHANGED <<os, ifs, fds, files, dev, raw, builds, calls>>

\* A route is known by its network: a second one is refused, and so is the deletion of
\* one that is not there.  Whatever happens is only logged.
RouteOf(e) == [net |-> network(e.addr, e.mask), mask |-> e.mask, gateway |-> e.addr]
SameNet(r, e) == r.net = network(e.addr, e.mask) /\ r.mask = e.mask

Route(t) ==
  /\ At(t, "route_add") \/ At(t, "route_delete")
  /\ \E u \in Target(t) :
       LET e == Now(t).entry
           old == ifs[u].routes
           new == IF Now(t).call = "route_delete" THEN {r \in old : ~SameNet(r, e)}
                  ELSE IF \E r \in old : SameNet(r, e) THEN old ELSE old \cup {RouteOf(e)}
       IN  ifs' = [ifs EXCEPT ![u].routes = new]
  /\ Advance(t)
  /\ UNCHANGED <<os, fds, files, dev, raw, builds, calls>>

RouteFails(t) ==
  /\ At(t, "route_add") \/ At(t, "route_delete")
  /\ th' = [th EXCEPT ![t] = [Continue(t, <<>>) EXCEPT !.warned = TRUE]]
  /\ UNCHANGED <<os, ifs, fds, files, dev, raw, builds, calls>>

SetSifhead(t) ==
  /\ At(t, "sioctunsifhead")
  /\ ifs' = [ifs EXCEPT ![dev.unit].sifhead = TRUE]
  /\ Advance(t)
  /\ UNCHANGED <<os, fds, files, dev, raw, builds, calls>>

SetAssociateRoute(t) ==
  /\ At(t, "store")
  /\ dev' = [dev EXCEPT !.associate_route = th[t].op.arg]
  /\ Advance(t)
  /\ UNCHANGED <<os, ifs, fds, files, raw, builds, calls>>

\* Any other call may fail; the operation returns the error and leaves what it did.
Fails(t) ==
  /\ ~Idle(t) /\ Now(t).call \notin {"list_all", "list_matching", "route_add",
                                     "route_delete", "store"}
  /\ th' = [th EXCEPT ![t] = IdleThread]
  /\ UNCHANGED <<os, ifs, fds, files, dev, raw, builds, calls>>

(***************************************************************************)
(* The rest of the process opens and closes files of its own.              *)
(***************************************************************************)

FileOpens ==
  /\ FreeFds # {} /\ files = {}
  /\ fds' = [fds EXCEPT ![NextFd] = [kind |-> "file", unit |-> None]]
  /\ files' = files \cup {NextFd}
  /\ UNCHANGED <<os, ifs, dev, raw, th, builds, calls>>

FileCloses ==
  /\ \E f \in files : Close(f) /\ files' = files \ {f}
  /\ UNCHANGED <<os, dev, raw, th, builds, calls>>

Making ==
  \/ \E c \in Config : New(c)
  \/ OpenTun \/ OpenBusy \/ OpenSocket \/ OpenFails \/ Connect \/ SetUp \/ SetUpFails
  \/ DisableLocalIpv6

Ending ==
  \/ DropBegin \/ DropDestroy \/ DropClose \/ DropFields
  \/ IntoRawFd \/ FromFd \/ CallerCloses

Operating(t) ==
  \/ \E o \in Op : Call(t, o)
  \/ Name(t) \/ Ioctl(t) \/ DeleteAll(t) \/ ListAll(t) \/ ListMatching(t) \/ ListFails(t)
  \/ Route(t) \/ RouteFails(t) \/ SetSifhead(t) \/ SetAssociateRoute(t) \/ Fails(t)

Next == Making \/ Ending \/ (\E t \in Thread : Operating(t)) \/ FileOpens \/ FileCloses

Spec == Init /\ [][Next]_vars

(***************************************************************************)
(* Properties.                                                             *)
(***************************************************************************)

\* Every descriptor has one owner.  A tun descriptor that is open is the one in the Fd,
\* the one Drop has taken out of it, or the one into_raw_fd gave away; and no Drop ever
\* closes a number that some other part of the process was given in the meantime
\* (DeviceImpl::drop, Fd::drop, into_raw_fd, the error paths of new and from_tun).
DescriptorOwned ==
  /\ \A f \in FdNo : fds[f].kind = "tun" => f \in {dev.inner, dev.saved, raw}
  /\ \A f \in files : fds[f].kind = "file"

\* Reference for the address set_network_address asks for.
MaskOf(m) == IF m.form = "mask" THEN m.val
             ELSE CHOOSE v \in Number :
                    \A k \in 0 .. Bits - 1 : (Bit(v, k) = 1) <=> (k >= Bits - m.val)
SameNetwork(a, b, mask) ==
  \A k \in 0 .. Bits - 1 : Bit(mask, k) = 1 => Bit(a, k) = Bit(b, k)
LastOf(a, mask) ==
  CHOOSE b \in Number :
    SameNetwork(a, b, mask) /\ \A k \in 0 .. Bits - 1 : Bit(mask, k) = 0 => Bit(b, k) = 1
Wanted(o) == [addr |-> o.addr, mask |-> MaskOf(o.mask),
              dst |-> IF o.dst = None THEN LastOf(o.addr, MaskOf(o.mask)) ELSE o.dst]

Returns(t) == ~Idle(t) /\ th'[t].op = NoOp /\ th'[t].ok
Warned(t) == th[t].warned \/ th'[t].warned
Leads(r, e) == r.mask = e.mask /\ SameNetwork(r.net, e.addr, e.mask)

\* No interface is given the name that another number comes with: with two interfaces
\* of one name, an operation by name is about whichever the kernel finds first.
NamesApart == \A o \in Op : o.kind = "set_name" => o.arg \notin Unit

\* What set_network_address leaves when it returns Ok, and nothing was logged.
LeavesExact(t) ==
  Returns(t) /\ th[t].op.kind = "set_network_address" /\ ~Warned(t)
    => LET e == Wanted(th[t].op)
           f == ifs[dev.unit]'
       IN  /\ f.v4 = <<e>>
           /\ th[t].assoc => \E r \in f.routes : Leads(r, e)
           /\ th[t].assoc /\ os = "macos" =>
                \A r \in f.routes : \A h \in th[t].had : Leads(r, h) => Leads(r, e)

\* "Remove all previous set IPv4 addresses and set the specified address."  When
\* set_network_address returns Ok, and nothing was logged on the way, the interface has
\* that one address with its netmask and destination, whatever the other threads call;
\* with associate_route there is a route to its network; and on macOS none is left to
\* the network of an address that was removed.
NetworkAddressExact == [][\A t \in Thread : LeavesExact(t)]_vars

\* The comment in FreeBSD's Drop: "Try to destroy the interface before closing the fd."
\* When the descriptor is closed and none of the calls failed, the interface is gone.
DestroyedBeforeClose == dev.phase = "close" /\ ~dev.failed => ~Present(dev.unit)

\* set_associate_route: with true "the program will automatically add or remove routes".
\* When remove_address returns Ok, and nothing was logged, no route goes through the
\* address that was removed.
RouteGoesWithAddress ==
  [][\A t \in Thread :
       Returns(t) /\ th[t].op.kind = "remove_address" /\ th[t].assoc /\ ~Warned(t)
         => \A r \in ifs[dev.unit].routes' : r.gateway # th[t].op.addr]_vars
=============================================================================
