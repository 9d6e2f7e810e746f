-------------------------- MODULE BsdDeviceProofs --------------------------
(***************************************************************************)
(* Proofs about the FreeBSD and the macOS device, for any threads,         *)
(* operations, configurations and numbers of units and descriptors, and    *)
(* for addresses of any width: every descriptor has one owner, and         *)
(* set_network_address leaves exactly the address and the route asked for. *)
(*                                                                         *)
(* Which of the three places holds the number of the descriptor depends on *)
(* how far the device is in being made or dropped; that is PhaseInv.  The  *)
(* second part starts with the arithmetic of netmasks: only then is it     *)
(* known which route `route delete` finds.  What the kernel has is         *)
(* KernelInv, and what is left of it after each call of                    *)
(* set_network_address is NetworkInv.                                      *)
(***************************************************************************)
EXTENDS BsdDevice, WellFoundedInduction, FiniteSetTheorems, TLAPS

Phases == {"none", "open", "socket", "fd", "adopt", "made", "ready",
           "destroy", "close", "drop_fd"}

(* The phases in which the Fd holds the number, and in which Drop does.    *)
InFd == {"socket", "fd", "adopt", "made", "ready"}
InDrop == {"destroy", "close"}

OwnTun(f) == f \in FdNo /\ fds[f].kind = "tun"

TableInv ==
  /\ DOMAIN fds = FdNo
  /\ files \subseteq FdNo
  /\ \A f \in FdNo : fds[f].kind \in {"closed", "tun", "file"}
  /\ DOMAIN dev = {"phase", "inner", "saved", "unit", "want", "associate_route", "failed"}
  /\ dev.phase \in Phases

(* Who holds the number in each phase; 0 is the -1 of the code.            *)
PhaseInv ==
  /\ dev.phase \in InFd => OwnTun(dev.inner) /\ dev.saved = 0
  /\ dev.phase \in InDrop => OwnTun(dev.saved) /\ dev.inner = 0
  /\ dev.phase = "drop_fd" => (dev.inner = 0 \/ OwnTun(dev.inner)) /\ dev.saved = 0
  /\ dev.phase \in {"none", "open"} => dev.inner = 0 /\ dev.saved = 0
  /\ raw # 0 => dev.phase = "none" /\ OwnTun(raw)

IInv == TableInv /\ PhaseInv /\ DescriptorOwned

-----------------------------------------------------------------------------
(* Descriptors. *)

(* A set of numbers has a least one. *)
LEMMA LeastNumber ==
  ASSUME NEW T, T \subseteq Nat, T # {}
  PROVE  \E m \in T : \A k \in T : m <= k
<1>1. PICK m \in T : \A k \in T : ~(<<k, m>> \in OpToRel(<, Nat))
  BY NatLessThanWellFounded, WFMin
<1>2. ASSUME NEW k \in T PROVE m <= k
  <2>1. ~(k < m)
    BY <1>1, <1>2 DEF OpToRel
  <2>2. k \in Nat /\ m \in Nat
    OBVIOUS
  <2> QED BY <2>1, <2>2
<1> QED BY <1>2

(* The number that open and socket return is one that is free. *)
LEMMA NextFdFree ==
  ASSUME FreeFds # {} PROVE NextFd \in FdNo /\ fds[NextFd] = Closed
<1>1. FreeFds \subseteq Nat
  BY DEF FreeFds, FdNo
<1>2. \E f \in FreeFds : \A g \in FreeFds : f <= g
  BY <1>1, LeastNumber
<1>3. NextFd \in FreeFds
  BY <1>2 DEF NextFd
<1> QED BY <1>3 DEF FreeFds

(* Closing a tun descriptor leaves the table as it is everywhere else. *)
LEMMA CloseEffect ==
  ASSUME TableInv, NEW f \in FdNo, Close(f)
  PROVE  /\ DOMAIN fds' = FdNo /\ fds'[f].kind = "closed"
         /\ \A g \in FdNo : g # f => fds'[g] = fds[g]
  BY DEF TableInv, Close, Closed

-----------------------------------------------------------------------------
(* Making a device, one step per action. *)
LEMMA MakingStep ==
  ASSUME IInv, Making PROVE IInv'
<1> USE DEF IInv, TableInv, PhaseInv, DescriptorOwned, NoDev, Phases, InFd, InDrop, OwnTun
<1>0. FdNo \subseteq Nat \ {0}
  BY DEF FdNo
<1>1. ASSUME NEW c \in Config, New(c) PROVE IInv'
  BY <1>1 DEF New
<1>2. CASE OpenTun
  <2>1. NextFd \in FdNo /\ fds[NextFd] = Closed
    BY <1>2, NextFdFree DEF OpenTun, Opening
  <2> QED BY <1>0, <1>2, <2>1 DEF OpenTun, Opening, Closed
<1>3. CASE OpenBusy
  BY <1>3 DEF OpenBusy, Opening
<1>4. CASE OpenSocket
  <2>1. NextFd \in FdNo /\ fds[NextFd] = Closed
    BY <1>4, NextFdFree DEF OpenSocket, Opening
  <2>2. TableInv'
    BY <1>4, <2>1 DEF OpenSocket, Opening, Closed
  <2>3. PhaseInv'
    BY <1>0, <1>4, <2>1 DEF OpenSocket, Opening, Closed
  <2>4. DescriptorOwned'
    BY <1>0, <1>4, <2>1 DEF OpenSocket, Opening, Closed
  <2> QED BY <2>2, <2>3, <2>4
<1>5. CASE OpenFails
  BY <1>5 DEF OpenFails
<1>6. CASE Connect
  BY <1>6 DEF Connect
<1>7. CASE SetUp
  BY <1>7 DEF SetUp
<1>8. CASE SetUpFails
  <2>1. Close(dev.inner)
    BY <1>0, <1>8 DEF SetUpFails, DropFd
  <2>2. /\ DOMAIN fds' = FdNo /\ fds'[dev.inner].kind = "closed"
        /\ \A g \in FdNo : g # dev.inner => fds'[g] = fds[g]
    BY <1>8, <2>1, CloseEffect DEF SetUpFails
  <2> QED BY <1>0, <1>8, <2>2 DEF SetUpFails
<1>9. CASE DisableLocalIpv6
  BY <1>9 DEF DisableLocalIpv6
<1> QED BY <1>1, <1>2, <1>3, <1>4, <1>5, <1>6, <1>7, <1>8, <1>9 DEF Making

(* Dropping one, taking it apart and putting it together again. *)
LEMMA EndingStep ==
  ASSUME IInv, Ending PROVE IInv'
<1> USE DEF IInv, TableInv, PhaseInv, DescriptorOwned, NoDev, Phases, InFd, InDrop, OwnTun
<1>0. FdNo \subseteq Nat \ {0}
  BY DEF FdNo
<1>1. CASE DropBegin
  BY <1>0, <1>1 DEF DropBegin, DropTakes
<1>2. CASE DropDestroy
  BY <1>2 DEF DropDestroy
<1>3. CASE DropClose
  <2>1. /\ DOMAIN fds' = FdNo /\ fds'[dev.saved].kind = "closed"
        /\ \A g \in FdNo : g # dev.saved => fds'[g] = fds[g]
    BY <1>3, CloseEffect DEF DropClose
  <2> QED BY <1>0, <1>3, <2>1 DEF DropClose
<1>4. CASE DropFields
  <2>1. CASE dev.inner = 0
    BY <1>4, <2>1 DEF DropFields, DropFd
  <2>2. CASE dev.inner # 0
    <3>1. /\ DOMAIN fds' = FdNo /\ fds'[dev.inner].kind = "closed"
          /\ \A g \in FdNo : g # dev.inner => fds'[g] = fds[g]
      BY <1>0, <1>4, <2>2, CloseEffect DEF DropFields, DropFd
    <3> QED BY <1>0, <1>4, <2>2, <3>1 DEF DropFields
  <2> QED BY <2>1, <2>2
<1>5. CASE IntoRawFd
  BY <1>0, <1>5 DEF IntoRawFd
<1>6. CASE FromFd
  BY <1>0, <1>6 DEF FromFd
<1>7. CASE CallerCloses
  <2>1. /\ DOMAIN fds' = FdNo /\ fds'[raw].kind = "closed"
        /\ \A g \in FdNo : g # raw => fds'[g] = fds[g]
    BY <1>7, CloseEffect DEF CallerCloses
  <2> QED BY <1>0, <1>7, <2>1 DEF CallerCloses
<1> QED BY <1>1, <1>2, <1>3, <1>4, <1>5, <1>6, <1>7 DEF Ending

(* Operations leave descriptors alone. *)
LEMMA OperatingEffect ==
  ASSUME NEW t \in Thread, Operating(t)
  PROVE  /\ UNCHANGED <<fds, files, raw>>
         /\ dev' = dev \/ dev' = [dev EXCEPT !.associate_route = th[t].op.arg]
<1>1. ASSUME NEW o \in Op, Call(t, o) PROVE UNCHANGED <<fds, files, raw, dev>>
  BY <1>1 DEF Call
<1>2. CASE Name(t) \/ Ioctl(t) \/ DeleteAll(t) \/ ListAll(t) \/ ListMatching(t)
  BY <1>2 DEF Name, Ioctl, DeleteAll, ListAll, ListMatching
<1>3. CASE ListFails(t) \/ Route(t) \/ RouteFails(t) \/ SetSifhead(t) \/ Fails(t)
  BY <1>3 DEF ListFails, Route, RouteFails, SetSifhead, Fails
<1>4. CASE SetAssociateRoute(t)
  BY <1>4 DEF SetAssociateRoute
<1> QED BY <1>1, <1>2, <1>3, <1>4 DEF Operating

(* The rest of the process opens numbers that are free, and closes its own. *)
LEMMA FilesStep ==
  ASSUME IInv, FileOpens \/ FileCloses PROVE IInv'
<1> USE DEF IInv, TableInv, PhaseInv, DescriptorOwned, NoDev, Phases, InFd, InDrop, OwnTun
<1>1. CASE FileOpens
  <2>1. NextFd \in FdNo /\ fds[NextFd] = Closed
    BY <1>1, NextFdFree DEF FileOpens
  <2> QED BY <1>1, <2>1 DEF FileOpens, Closed
<1>2. CASE FileCloses
  <2>1. PICK f \in files : Close(f) /\ files' = files \ {f}
    BY <1>2 DEF FileCloses
  <2>2. /\ DOMAIN fds' = FdNo /\ fds'[f].kind = "closed"
        /\ \A g \in FdNo : g # f => fds'[g] = fds[g]
    BY <2>1, CloseEffect
  <2> QED BY <1>2, <2>1, <2>2 DEF FileCloses
<1> QED BY <1>1, <1>2

-----------------------------------------------------------------------------
(* Every step of a device, of its threads and of the environment.          *)
LEMMA NextIInv == ASSUME IInv, [Next]_vars PROVE IInv'
<1>1. ASSUME NEW t \in Thread, Operating(t) PROVE IInv'
  <2>1. /\ UNCHANGED <<fds, files, raw>>
        /\ dev' = dev \/ dev' = [dev EXCEPT !.associate_route = th[t].op.arg]
    BY <1>1, OperatingEffect
  <2>2. CASE dev' = dev
    BY <2>1, <2>2 DEF IInv, TableInv, PhaseInv, DescriptorOwned, OwnTun
  <2>3. CASE dev' = [dev EXCEPT !.associate_route = th[t].op.arg]
    BY <2>1, <2>3 DEF IInv, TableInv, PhaseInv, DescriptorOwned, OwnTun, InFd, InDrop
  <2> QED BY <2>1, <2>2, <2>3
<1>2. CASE UNCHANGED vars
  BY <1>2 DEF vars, IInv, TableInv, PhaseInv, DescriptorOwned, OwnTun
<1> QED BY <1>1, <1>2, MakingStep, EndingStep, FilesStep DEF Next

(* The inductive invariant holds in every state. *)
THEOREM Invariance == Spec => []IInv
<1>1. ASSUME Init PROVE IInv
  <2>1. TableInv
    BY <1>1 DEF Init, TableInv, NoDev, Phases, Closed
  <2>2. PhaseInv
    BY <1>1 DEF Init, PhaseInv, NoDev, InFd, InDrop
  <2>3. DescriptorOwned
    BY <1>1 DEF Init, DescriptorOwned, Closed
  <2> QED BY <2>1, <2>2, <2>3 DEF IInv
<1> QED BY <1>1, NextIInv, PTL DEF Spec

(* DescriptorOwned, for any number of descriptors, threads and operations: *)
(* an open tun descriptor has exactly one owner, and neither Drop, nor the *)
(* error paths of new and from_fd, nor into_raw_fd followed by the         *)
(* caller's close, ever closes a file of another part of the process.      *)
THEOREM DescriptorsOwned == Spec => []DescriptorOwned
<1>1. IInv => DescriptorOwned
  BY DEF IInv
<1> QED BY <1>1, Invariance, PTL

-----------------------------------------------------------------------------
(* Powers of two. *)

(* What holds of 0 and with n of n + 1 holds up to N: the least number     *)
(* without it would have a predecessor without it.                         *)
LEMMA UpTo ==
  ASSUME NEW N \in Nat, NEW T, 0 \in T,
         \A n \in 0..N : n \in T /\ n < N => n + 1 \in T
  PROVE  \A n \in 0..N : n \in T
<1> DEFINE U == {n \in 0..N : n \notin T}
<1> SUFFICES ASSUME U # {} PROVE FALSE
  OBVIOUS
<1>0. U \subseteq Nat
  OBVIOUS
<1>1. \E m \in U : \A k \in U : m <= k
  <2> HIDE DEF U
  <2> QED BY <1>0, LeastNumber
<1>2. PICK m \in U : \A k \in U : m <= k
  BY <1>1
<1>3. m # 0 /\ m \in 0..N
  OBVIOUS
<1>4. m - 1 \in 0..N /\ m - 1 < N /\ ~(m <= m - 1) /\ m - 1 + 1 = m
  BY <1>3
<1>5. m - 1 \in T
  BY <1>2, <1>4
<1> QED BY <1>4, <1>5

LEMMA BitsNat == Bits \in Nat /\ Bits >= 1 /\ 0 \in 0..Bits /\ Bits \in 0..Bits
  BY BoundsAssumption

(* There is such a function, one value longer at a time.                   *)
Doubles(f, n) == f = [k \in 0..n |-> IF k = 0 THEN 1 ELSE 2 * f[k-1]]

LEMMA DoublesExist == \E f : Doubles(f, Bits)
<1> DEFINE T == {n \in 0..Bits : \E f : Doubles(f, n)}
<1>1. 0 \in T
  <2> DEFINE F == [k \in 0..0 |-> 1]
  <2>1. F = [k \in 0..0 |-> IF k = 0 THEN 1 ELSE 2 * F[k-1]]
    OBVIOUS
  <2> HIDE DEF F
  <2>2. Doubles(F, 0)
    BY <2>1 DEF Doubles
  <2> QED BY <2>2, BitsNat
<1>2. ASSUME NEW n \in 0..Bits, n \in T, n < Bits PROVE n + 1 \in T
  <2>1. PICK F : Doubles(F, n)
    BY <1>2
  <2> DEFINE G == [k \in 0..n+1 |-> IF k = 0 THEN 1 ELSE 2 * F[k-1]]
  <2>2. ASSUME NEW k \in 0..n PROVE G[k] = F[k]
    <3>1. F[k] = IF k = 0 THEN 1 ELSE 2 * F[k-1]
      BY <2>1, Zenon DEF Doubles
    <3>2. k \in 0..n+1
      OBVIOUS
    <3> QED BY <3>1, <3>2, Zenon
  <2>3. G = [k \in 0..n+1 |-> IF k = 0 THEN 1 ELSE 2 * G[k-1]]
    <3>1. ASSUME NEW k \in 0..n+1
          PROVE  (IF k = 0 THEN 1 ELSE 2 * F[k-1]) = IF k = 0 THEN 1 ELSE 2 * G[k-1]
      <4>1. CASE k = 0
        BY <4>1
      <4>2. CASE k # 0
        <5>1. k - 1 \in 0..n
          BY <4>2
        <5>2. G[k-1] = F[k-1]
          BY <5>1, <2>2
        <5> HIDE DEF G
        <5> QED BY <5>2
      <4> QED BY <4>1, <4>2
    <3> QED BY <3>1, Zenon
  <2> HIDE DEF G
  <2>4. Doubles(G, n + 1)
    BY <2>3 DEF Doubles
  <2>5. n + 1 \in 0..Bits
    BY <1>2, BitsNat
  <2> QED BY <2>4, <2>5
<1> HIDE DEF T
<1>3. \A n \in 0..Bits : n \in T
  BY <1>1, <1>2, UpTo, BitsNat
<1> QED BY <1>3, BitsNat DEF T

LEMMA PowRec ==
  /\ pow2[0] = 1
  /\ \A k \in 0..Bits : k < Bits => pow2[k+1] = 2 * pow2[k]
<1>1. \E f : f = [k \in 0 .. Bits |-> IF k = 0 THEN 1 ELSE 2 * f[k - 1]]
  BY DoublesExist DEF Doubles
<1>2. pow2 = [k \in 0 .. Bits |-> IF k = 0 THEN 1 ELSE 2 * pow2[k - 1]]
  BY <1>1, Zenon DEF pow2
<1>3. \A k \in 0..Bits : pow2[k] = IF k = 0 THEN 1 ELSE 2 * pow2[k - 1]
  BY <1>2, Zenon
<1>4. ASSUME NEW k \in 0..Bits, k < Bits PROVE pow2[k+1] = 2 * pow2[k]
  <2>1. k + 1 \in 0..Bits /\ k + 1 # 0 /\ (k + 1) - 1 = k
    BY <1>4, BitsNat
  <2> DEFINE j == k + 1
  <2>2. j \in 0..Bits /\ j # 0 /\ j - 1 = k
    BY <2>1
  <2> HIDE DEF j
  <2>3. pow2[j] = 2 * pow2[k]
    BY <1>3, <2>2
  <2> QED BY <2>3 DEF j
<1> QED BY <1>3, <1>4, BitsNat

LEMMA PowNat == \A k \in 0..Bits : pow2[k] \in Nat /\ pow2[k] >= 1
<1> DEFINE T == {k \in 0..Bits : pow2[k] \in Nat /\ pow2[k] >= 1}
<1>1. 0 \in T
  BY PowRec, BitsNat
<1>2. ASSUME NEW n \in 0..Bits, n \in T, n < Bits PROVE n + 1 \in T
  <2>1. pow2[n+1] = 2 * pow2[n] /\ n + 1 \in 0..Bits
    BY <1>2, PowRec, BitsNat
  <2> QED BY <1>2, <2>1
<1>3. \A n \in 0..Bits : n \in T
  <2> HIDE DEF T
  <2> QED BY <1>1, <1>2, UpTo, BitsNat
<1> QED BY <1>3

(* A power is a multiple of a smaller one, an even one of a smaller still. *)
LEMMA PowMultiple ==
  ASSUME NEW i \in 0..Bits, NEW j \in 0..Bits, i <= j
  PROVE  \E c \in Nat : /\ c >= 1 /\ pow2[j] = pow2[i] * c
                        /\ i < j => \E d \in Nat : d >= 1 /\ c = 2 * d
<1> DEFINE P(n) == \E c \in Nat : /\ c >= 1 /\ pow2[n] = pow2[i] * c
                                  /\ i < n => \E d \in Nat : d >= 1 /\ c = 2 * d
           T == {n \in 0..Bits : i <= n => P(n)}
<1>1. P(i)
  <2>1. pow2[i] = pow2[i] * 1
    BY PowNat
  <2> QED BY <2>1
<1>2. 0 \in T
  <2>1. i <= 0 => i = 0
    OBVIOUS
  <2> HIDE DEF P
  <2> QED BY <1>1, <2>1, BitsNat
<1>3. ASSUME NEW n \in 0..Bits, n \in T, n < Bits PROVE n + 1 \in T
  <2>0. n + 1 \in 0..Bits
    BY <1>3, BitsNat
  <2>1. CASE i = n + 1
    <3> HIDE DEF P
    <3> QED BY <1>1, <2>0, <2>1
  <2>2. CASE i <= n
    <3>1. PICK c \in Nat : c >= 1 /\ pow2[n] = pow2[i] * c
      BY <1>3, <2>2
    <3>2. pow2[n+1] = 2 * pow2[n]
      BY <1>3, PowRec
    <3>3. pow2[i] * (2 * c) = 2 * (pow2[i] * c) /\ 2 * c \in Nat /\ 2 * c >= 1
      BY <3>1, PowNat, Z3
    <3>4. pow2[n+1] = pow2[i] * (2 * c)
      BY <3>1, <3>2, <3>3
    <3> DEFINE e == 2 * c
    <3>5. e \in Nat /\ e >= 1 /\ pow2[n+1] = pow2[i] * e /\ \E d \in Nat : d >= 1 /\ e = 2 * d
      BY <3>1, <3>3, <3>4
    <3> HIDE DEF e
    <3>6. P(n + 1)
      BY <3>5
    <3> HIDE DEF P
    <3> QED BY <2>0, <3>6
  <2>3. CASE i > n + 1
    BY <2>0, <2>3
  <2> QED BY <2>0, <2>1, <2>2, <2>3
<1>4. \A n \in 0..Bits : n \in T
  <2> HIDE DEF T
  <2> QED BY <1>2, <1>3, UpTo, BitsNat
<1> QED BY <1>4

LEMMA PowEven ==
  ASSUME NEW i \in 0..Bits, NEW j \in 0..Bits, i < j
  PROVE  \E c \in Nat, d \in Nat : d >= 1 /\ c = 2 * d /\ pow2[j] = pow2[i] * c
<1>1. i <= j
  OBVIOUS
<1>2. PICK c \in Nat : /\ c >= 1 /\ pow2[j] = pow2[i] * c
                       /\ i < j => \E d \in Nat : d >= 1 /\ c = 2 * d
  BY <1>1, PowMultiple
<1>3. PICK d \in Nat : d >= 1 /\ c = 2 * d
  BY <1>2
<1> QED BY <1>2, <1>3

-----------------------------------------------------------------------------
(* Bits. *)

LEMMA DivMod ==
  ASSUME NEW a \in Nat, NEW n \in Nat, n > 0
  PROVE  /\ a \div n \in Nat /\ a % n \in Nat /\ a % n < n
         /\ a = n * (a \div n) + (a % n)
BY Z3

LEMMA DivUnique ==
  ASSUME NEW a \in Nat, NEW n \in Nat, n > 0, NEW q \in Nat, NEW r \in Nat, r < n,
         a = n * q + r
  PROVE  a \div n = q /\ a % n = r
<1> DEFINE p == a \div n
           s == a % n
<1>1. p \in Nat /\ s \in Nat /\ s < n /\ a = n * p + s
  BY DivMod
<1> HIDE DEF p, s
<1>2. CASE p >= q + 1
  <2>1. n * p >= n * q + n
    BY <1>1, <1>2, Z3
  <2> QED BY <2>1, <1>1, Z3
<1>3. CASE q >= p + 1
  <2>1. n * q >= n * p + n
    BY <1>1, <1>3, Z3
  <2> QED BY <2>1, <1>1, Z3
<1>4. CASE p = q
  BY <1>1, <1>4, Z3 DEF p, s
<1> QED BY <1>1, <1>2, <1>3, <1>4

(* What is left of v without its last k bits, and one bit more.            *)
LEMMA Halve ==
  ASSUME NEW v \in Nat, NEW p \in Nat, p >= 1, NEW z \in Nat, z = 2 * p
  PROVE  /\ (v \div p) % 2 \in {0, 1}
         /\ v \div p \in Nat /\ v \div z \in Nat
         /\ v \div p = 2 * (v \div z) + ((v \div p) % 2)
<1>1. PICK q \in Nat, r \in Nat : r < z /\ v = z * q + r /\ q = v \div z
  BY DivMod
<1>2. PICK b \in {0, 1}, s \in Nat : s < p /\ r = b * p + s
  <2>1. CASE r >= p
    <3>1. r - p \in Nat /\ r - p < p /\ r = 1 * p + (r - p)
      BY <1>1, <2>1
    <3> QED BY <3>1
  <2>2. CASE r < p
    <3>1. r = 0 * p + r
      OBVIOUS
    <3> QED BY <2>2, <3>1
  <2> QED BY <2>1, <2>2
<1>3. v = p * (2 * q + b) + s
  <2>1. (2 * p) * q = 2 * (p * q) /\ p * q \in Nat
    BY Z3
  <2>2. p * (2 * q + b) = 2 * (p * q) + b * p /\ b * p \in Nat
    <3>1. CASE b = 0
      BY <3>1, Z3
    <3>2. CASE b = 1
      BY <3>2, Z3
    <3> QED BY <3>1, <3>2
  <2> QED BY <1>1, <1>2, <2>1, <2>2
<1> DEFINE u == 2 * q + b
<1>4. u \in Nat /\ u % 2 = b
  OBVIOUS
<1>5. v \div p = u
  <2>1. v = p * u + s
    BY <1>3
  <2> HIDE DEF u
  <2> QED BY <1>2, <1>4, <2>1, DivUnique
<1> QED BY <1>1, <1>4, <1>5

LEMMA HalfStep ==
  ASSUME NEW v \in Nat, NEW k \in 0 .. Bits - 1
  PROVE  /\ Bit(v, k) \in {0, 1}
         /\ v \div pow2[k] \in Nat /\ v \div pow2[k+1] \in Nat
         /\ v \div pow2[k] = 2 * (v \div pow2[k+1]) + Bit(v, k)
<1>1. k \in 0..Bits /\ k + 1 \in 0..Bits /\ k < Bits
  BY BitsNat
<1>2. /\ pow2[k] \in Nat /\ pow2[k] >= 1
      /\ pow2[k+1] \in Nat /\ pow2[k+1] = 2 * pow2[k]
  BY <1>1, PowRec, PowNat
<1> QED BY <1>2, Halve DEF Bit

(* A number of Bits bits has none in front, and all of them behind.        *)
LEMMA Ends ==
  ASSUME NEW v \in Number
  PROVE  v \in Nat /\ v \div pow2[0] = v /\ v \div pow2[Bits] = 0
<1>1. v \in Nat /\ v < pow2[Bits] /\ pow2[Bits] \in Nat /\ pow2[0] = 1
  BY PowRec, PowNat, BitsNat DEF Number
<1>2. v = pow2[Bits] * 0 + v
  BY <1>1
<1>3. v \div pow2[Bits] = 0
  BY <1>1, <1>2, DivUnique
<1>4. v \div 1 = v
  BY <1>1
<1> QED BY <1>1, <1>3, <1>4

(* What is left of two numbers without their last n bits is the same if    *)
(* the bits from n on are.                                                 *)
LEMMA SameLeft ==
  ASSUME NEW v \in Number, NEW w \in Number, NEW n \in 0..Bits
  PROVE  (v \div pow2[n] = w \div pow2[n])
           <=> \A k \in 0 .. Bits - 1 : k >= n => Bit(v, k) = Bit(w, k)
<1>0. v \in Nat /\ w \in Nat
  BY Ends
<1>1. ASSUME \A k \in 0 .. Bits - 1 : k >= n => Bit(v, k) = Bit(w, k)
      PROVE  v \div pow2[n] = w \div pow2[n]
  <2> DEFINE T == {i \in 0 .. Bits - n : v \div pow2[Bits - i] = w \div pow2[Bits - i]}
  <2>1. 0 \in T
    <3>1. Bits - 0 = Bits /\ 0 \in 0 .. Bits - n
      BY BitsNat
    <3> QED BY <3>1, Ends
  <2>2. ASSUME NEW i \in 0 .. Bits - n, i \in T, i < Bits - n PROVE i + 1 \in T
    <3> DEFINE k == Bits - (i + 1)
    <3>1. k \in 0 .. Bits - 1 /\ k >= n /\ k + 1 = Bits - i /\ i + 1 \in 0 .. Bits - n
      BY <2>2, BitsNat
    <3>2. v \div pow2[Bits - i] = w \div pow2[Bits - i]
      BY <2>2
    <3> HIDE DEF k
    <3>3. Bit(v, k) = Bit(w, k) /\ v \div pow2[k+1] = w \div pow2[k+1]
      BY <1>1, <3>1, <3>2
    <3>4. v \div pow2[k] = w \div pow2[k]
      BY <1>0, <3>1, <3>3, HalfStep
    <3> QED BY <3>1, <3>4 DEF k
  <2>3. \A i \in 0 .. Bits - n : i \in T
    <3>1. Bits - n \in Nat
      BY BitsNat
    <3> HIDE DEF T
    <3> QED BY <2>1, <2>2, <3>1, UpTo
  <2>4. Bits - n \in 0 .. Bits - n /\ Bits - (Bits - n) = n
    BY BitsNat
  <2> QED BY <2>3, <2>4
<1>2. ASSUME v \div pow2[n] = w \div pow2[n], NEW k \in 0 .. Bits - 1, k >= n
      PROVE  Bit(v, k) = Bit(w, k)
  <2> DEFINE T == {i \in 0 .. Bits - n : v \div pow2[n + i] = w \div pow2[n + i]}
  <2>1. 0 \in T
    <3>1. n + 0 = n /\ 0 \in 0 .. Bits - n
      BY BitsNat
    <3> QED BY <1>2, <3>1
  <2>2. ASSUME NEW i \in 0 .. Bits - n, i \in T, i < Bits - n PROVE i + 1 \in T
    <3> DEFINE j == n + i
    <3>1. j \in 0 .. Bits - 1 /\ j + 1 = n + (i + 1) /\ i + 1 \in 0 .. Bits - n
      BY <2>2, BitsNat
    <3>2. v \div pow2[j] = w \div pow2[j]
      BY <2>2
    <3> HIDE DEF j
    <3>3. v \div pow2[j+1] = w \div pow2[j+1]
      <4> DEFINE x == v \div pow2[j+1]
                 y == w \div pow2[j+1]
      <4>1. x \in Nat /\ y \in Nat /\ Bit(v, j) \in {0, 1} /\ Bit(w, j) \in {0, 1}
            /\ 2 * x + Bit(v, j) = 2 * y + Bit(w, j)
        BY <1>0, <3>1, <3>2, HalfStep
      <4> HIDE DEF x, y
      <4>2. x = y
        BY <4>1
      <4> QED BY <4>2 DEF x, y
    <3> QED BY <3>1, <3>3
  <2>3. \A i \in 0 .. Bits - n : i \in T
    <3>1. Bits - n \in Nat
      BY BitsNat
    <3> HIDE DEF T
    <3> QED BY <2>1, <2>2, <3>1, UpTo
  <2>4. k - n \in 0 .. Bits - n /\ n + (k - n) = k
    BY <1>2, BitsNat
  <2>5. v \div pow2[k] = w \div pow2[k]
    BY <2>3, <2>4
  <2> QED BY <2>5 DEF Bit
<1> QED BY <1>1, <1>2

(* So the bits of a number are all there is to it.                         *)
LEMMA SameBits ==
  ASSUME NEW v \in Number, NEW w \in Number,
         \A k \in 0 .. Bits - 1 : Bit(v, k) = Bit(w, k)
  PROVE  v = w
<1>1. v \div pow2[0] = w \div pow2[0]
  BY SameLeft, BitsNat
<1> QED BY <1>1, Ends

-----------------------------------------------------------------------------
(* Netmasks. *)

Cut(n) == pow2[Bits] - pow2[n]

LEMMA CutBits ==
  ASSUME NEW n \in 0..Bits
  PROVE  /\ Cut(n) \in Number
         /\ \A k \in 0 .. Bits - 1 : Bit(Cut(n), k) = IF k >= n THEN 1 ELSE 0
<1>1. pow2[Bits] \in Nat /\ pow2[n] \in Nat /\ pow2[n] >= 1
  BY PowNat, BitsNat
<1>2. pow2[n] <= pow2[Bits]
  <2>1. PICK g \in Nat : g >= 1 /\ pow2[Bits] = pow2[n] * g
    BY PowMultiple, BitsNat
  <2>2. pow2[n] * g >= pow2[n]
    BY <1>1, <2>1, Z3
  <2> QED BY <2>1, <2>2
<1>3. Cut(n) \in Number
  BY <1>1, <1>2 DEF Cut, Number
<1>4. Cut(n) \in Nat /\ Cut(n) = pow2[Bits] - pow2[n]
  BY <1>1, <1>2 DEF Cut
<1>5. ASSUME NEW k \in 0 .. Bits - 1 PROVE Bit(Cut(n), k) = IF k >= n THEN 1 ELSE 0
  <2>0. k \in 0..Bits /\ k < Bits
    BY BitsNat
  <2>1. pow2[k] \in Nat /\ pow2[k] >= 1
    BY <2>0, PowNat
  <2>2. PICK c \in Nat, d \in Nat : d >= 1 /\ c = 2 * d /\ pow2[Bits] = pow2[k] * c
    BY <2>0, PowEven, BitsNat
  <2>3. CASE k >= n
    <3>1. PICK e \in Nat : e >= 1 /\ pow2[k] = pow2[n] * e
      BY <2>0, <2>3, PowMultiple
    <3>2. pow2[n] * e >= pow2[n]
      BY <1>1, <3>1, Z3
    <3> DEFINE r == pow2[k] - pow2[n]
               q == c - 1
    <3>3. r \in Nat /\ r < pow2[k] /\ q \in Nat /\ q % 2 = 1
      BY <1>1, <2>1, <2>2, <3>1, <3>2
    <3>4. pow2[k] * c = pow2[k] * (c - 1) + pow2[k]
      BY <2>1, Z3
    <3>5. pow2[k] * (c - 1) \in Nat
      BY <2>1, <2>2, Z3
    <3>6. Cut(n) = pow2[k] * q + r
      BY <1>1, <1>4, <2>1, <2>2, <3>4, <3>5
    <3> HIDE DEF q, r
    <3>7. Cut(n) \div pow2[k] = q
      <4> DEFINE x == Cut(n)
                 p == pow2[k]
      <4>1. x \in Nat /\ p \in Nat /\ p >= 1 /\ q \in Nat /\ r \in Nat /\ r < p
        BY <1>4, <2>1, <3>3
      <4>2. x = p * q + r
        BY <3>6
      <4> HIDE DEF x, p
      <4>3. x \div p = q
        BY <4>1, <4>2, DivUnique
      <4> QED BY <4>3 DEF x, p
    <3> QED BY <2>3, <3>3, <3>7 DEF Bit
  <2>4. CASE k < n
    <3>1. PICK e \in Nat, f \in Nat : e = 2 * f /\ pow2[n] = pow2[k] * e
      BY <2>0, <2>4, PowEven
    <3> DEFINE q == c - e
    <3>2. pow2[k] * (c - e) = pow2[k] * c - pow2[k] * e
      BY <2>1, Z3
    <3>3. q \in Nat
      <4>1. CASE c >= e
        BY <4>1
      <4>2. CASE c < e
        <5>1. pow2[k] * e >= pow2[k] * c + pow2[k]
          BY <2>1, <4>2, Z3
        <5>2. pow2[k] * e > pow2[k] * c
          BY <2>1, <5>1, Z3
        <5> QED BY <1>1, <1>2, <2>2, <3>1, <5>2
      <4> QED BY <4>1, <4>2
    <3>4. q % 2 = 0
      BY <2>2, <3>1, <3>3
    <3>5. Cut(n) = pow2[k] * q + 0
      BY <1>4, <2>2, <3>1, <3>2
    <3> HIDE DEF q
    <3>6. Cut(n) \div pow2[k] = q
      BY <1>4, <2>1, <3>3, <3>5, DivUnique
    <3> QED BY <2>4, <3>4, <3>6 DEF Bit
  <2> QED BY <2>3, <2>4, BitsNat
<1> QED BY <1>3, <1>5

(* A number whose ones are all in front is a netmask.                      *)
LEMMA CutUnique ==
  ASSUME NEW n \in 0..Bits, NEW v \in Number,
         \A k \in 0 .. Bits - 1 : (Bit(v, k) = 1) <=> (k >= n)
  PROVE  v = Cut(n)
<1>1. ASSUME NEW k \in 0 .. Bits - 1 PROVE Bit(v, k) = Bit(Cut(n), k)
  <2>1. Bit(v, k) \in {0, 1}
    BY Ends, HalfStep
  <2> QED BY <2>1, CutBits
<1> QED BY <1>1, CutBits, SameBits

LEMMA OnesInFront ==
  ASSUME NEW v \in Number, leading_ones(v) = count_ones(v)
  PROVE  \E n \in 0..Bits : leading_ones(v) = Bits - n /\ v = Cut(n)
<1> DEFINE L == {k \in 0 .. Bits - 1 : \A j \in k .. Bits - 1 : Bit(v, j) = 1}
           D == {k \in 0 .. Bits - 1 : Bit(v, k) = 1}
<1>1. leading_ones(v) = Cardinality(L) /\ Cardinality(L) = Cardinality(D)
  BY DEF leading_ones, count_ones
<1>2. L \in SUBSET D
  <2>1. ASSUME NEW k \in L PROVE k \in D
    <3>1. k \in 0 .. Bits - 1 /\ k \in k .. Bits - 1
      BY BitsNat
    <3> QED BY <3>1
  <2> QED BY <2>1
<1>3. IsFiniteSet(D)
  <2>1. IsFiniteSet(0 .. Bits - 1)
    BY FS_Interval, BitsNat
  <2>2. D \in SUBSET (0 .. Bits - 1)
    OBVIOUS
  <2> HIDE DEF D
  <2> QED BY <2>1, <2>2, FS_Subset
<1>4. L = D
  <2> HIDE DEF L, D
  <2> QED BY <1>1, <1>2, <1>3, FS_Subset
<1>5. PICK n \in 0..Bits : L = n .. Bits - 1
  <2>1. CASE L = {}
    <3>1. L = Bits .. Bits - 1
      BY <2>1, BitsNat
    <3> QED BY <3>1, BitsNat
  <2>2. CASE L # {}
    <3>1. L \subseteq Nat
      BY BitsNat
    <3>2. \E m \in L : \A k \in L : m <= k
      <4> HIDE DEF L
      <4> QED BY <2>2, <3>1, LeastNumber
    <3>3. PICK m \in L : \A k \in L : m <= k
      BY <3>2
    <3>4. ASSUME NEW k \in m .. Bits - 1 PROVE k \in L
      BY <3>3, BitsNat
    <3>5. ASSUME NEW k \in L PROVE k \in m .. Bits - 1
      BY <3>3, BitsNat
    <3>6. m \in 0..Bits
      BY <3>3, BitsNat
    <3>7. L = m .. Bits - 1
      <4> HIDE DEF L
      <4> QED BY <3>4, <3>5
    <3> QED BY <3>6, <3>7
  <2> QED BY <2>1, <2>2
<1>6. Cardinality(L) = Bits - n
  <2> HIDE DEF L
  <2>1. n \in Int /\ Bits - 1 \in Int
    BY BitsNat
  <2>2. Cardinality(n .. Bits - 1) = IF n > Bits - 1 THEN 0 ELSE (Bits - 1) - n + 1
    BY <2>1, FS_Interval
  <2> QED BY <1>5, <2>2, BitsNat
<1>7. ASSUME NEW k \in 0 .. Bits - 1 PROVE (Bit(v, k) = 1) <=> (k >= n)
  <2>1. (Bit(v, k) = 1) <=> k \in L
    BY <1>4
  <2>2. k \in L <=> k >= n
    <3> HIDE DEF L
    <3> QED BY <1>5, BitsNat
  <2> QED BY <2>1, <2>2
<1>8. v = Cut(n)
  BY <1>7, CutUnique
<1> QED BY <1>1, <1>6, <1>8

(* The shift of a number that is all ones, in as many bits.                *)
LEMMA Shifted ==
  ASSUME NEW p \in Nat, NEW h \in Nat, NEW r \in Nat, h >= 1, r < p, r = p - h
  PROVE  ((p - 1) * h) % p = r
<1>1. (p - 1) * h = p * h - h /\ p * (h - 1) = p * h - p /\ p * h \in Nat
  BY Z3
<1>2. PICK x \in Nat : x = (p - 1) * h
  BY Z3
<1>3. PICK y \in Nat : y = h - 1
  OBVIOUS
<1>4. x = p * y + r
  BY <1>1, <1>2, <1>3
<1>5. p > 0
  OBVIOUS
<1>6. x % p = r
  BY <1>4, <1>5, DivUnique, Zenon
<1> QED BY <1>2, <1>6

(* The netmask of n bits.                                                  *)
LEMMA NetmaskCut ==
  ASSUME NEW m, NEW n \in 0..Bits, prefix(m) = Bits - n
  PROVE  netmask(m) = Cut(n)
<1>1. /\ pow2[Bits] \in Nat /\ pow2[Bits] >= 1 /\ pow2[n] \in Nat /\ pow2[n] >= 1
      /\ Cut(n) \in Nat /\ Cut(n) < pow2[Bits]
  BY PowNat, BitsNat, CutBits DEF Number
<1>2. Cut(n) = pow2[Bits] - pow2[n]
  BY DEF Cut
<1>3. CASE prefix(m) = 0
  <2>1. n = Bits
    BY <1>3, BitsNat
  <2> QED BY <1>1, <1>2, <1>3, <2>1 DEF netmask
<1>4. CASE prefix(m) # 0
  <2>1. Bits - prefix(m) = n
    BY BitsNat
  <2>2. netmask(m) = ((pow2[Bits] - 1) * pow2[n]) % pow2[Bits]
    BY <1>4, <2>1 DEF netmask
  <2> QED BY <1>1, <1>2, <2>2, Shifted
<1> QED BY <1>3, <1>4


(* The netmask that the code computes is the one that was meant.           *)
LEMMA NetmaskRight ==
  ASSUME NEW m, Given(m), prefix(m) # -1
  PROVE  \E n \in 0..Bits : netmask(m) = Cut(n) /\ MaskOf(m) = Cut(n)
<1>1. CASE m.form = "prefix"
  <2>1. m.val \in Nat /\ m.val <= Bits /\ prefix(m) = m.val
    BY <1>1, BitsNat DEF Given, prefix
  <2> DEFINE n == Bits - m.val
  <2>2. n \in 0..Bits /\ prefix(m) = Bits - n
    BY <2>1, BitsNat
  <2>3. \A k \in 0 .. Bits - 1 : (Bit(Cut(n), k) = 1) <=> (k >= n)
    <3> HIDE DEF n
    <3> QED BY <2>2, CutBits
  <2>4. MaskOf(m) = CHOOSE v \in Number : \A k \in 0 .. Bits - 1 : (Bit(v, k) = 1) <=> (k >= n)
    BY <1>1 DEF MaskOf
  <2> HIDE DEF n
  <2>5. Cut(n) \in Number
    BY <2>2, CutBits
  <2>6. /\ MaskOf(m) \in Number
        /\ \A k \in 0 .. Bits - 1 : (Bit(MaskOf(m), k) = 1) <=> (k >= n)
    BY <2>3, <2>4, <2>5
  <2> QED BY <2>2, <2>6, CutUnique, NetmaskCut
<1>2. CASE m.form = "mask"
  <2>1. m.val \in Number /\ MaskOf(m) = m.val
    BY <1>2 DEF Given, MaskOf
  <2>2. leading_ones(m.val) = count_ones(m.val) /\ prefix(m) = leading_ones(m.val)
    BY <1>2 DEF prefix
  <2>3. PICK n \in 0..Bits : leading_ones(m.val) = Bits - n /\ m.val = Cut(n)
    BY <2>1, <2>2, OnesInFront
  <2> QED BY <2>1, <2>2, <2>3, NetmaskCut
<1> QED BY <1>1, <1>2 DEF Given

-----------------------------------------------------------------------------
(* Networks. *)

LEMMA NetworkOf ==
  ASSUME NEW a \in Number, NEW n \in 0..Bits
  PROVE  /\ a \div pow2[n] \in Nat
         /\ network(a, Cut(n)) = pow2[n] * (a \div pow2[n])
         /\ network(a, Cut(n)) \in Number
         /\ network(a, Cut(n)) \div pow2[n] = a \div pow2[n]
<1>1. /\ pow2[Bits] \in Nat /\ pow2[n] \in Nat /\ pow2[n] >= 1 /\ pow2[n] > 0
      /\ a \in Nat /\ a < pow2[Bits]
  BY PowNat, BitsNat, Ends DEF Number
<1>2. pow2[Bits] - Cut(n) = pow2[n]
  BY <1>1 DEF Cut
<1>3. PICK q \in Nat, r \in Nat : /\ q = a \div pow2[n] /\ r = a % pow2[n]
                                  /\ r < pow2[n] /\ a = pow2[n] * q + r
  <2>1. /\ a \div pow2[n] \in Nat /\ a % pow2[n] \in Nat /\ a % pow2[n] < pow2[n]
        /\ a = pow2[n] * (a \div pow2[n]) + (a % pow2[n])
    BY <1>1, DivMod, Zenon
  <2> QED BY <2>1, Zenon
<1>4. pow2[n] * q \in Nat
  BY <1>1, Z3
<1>5. network(a, Cut(n)) = pow2[n] * q
  BY <1>1, <1>2, <1>3, <1>4 DEF network
<1>6. network(a, Cut(n)) \in Number
  BY <1>1, <1>3, <1>4, <1>5 DEF Number
<1>7. network(a, Cut(n)) = pow2[n] * q + 0 /\ 0 < pow2[n]
  BY <1>1, <1>4, <1>5
<1>8. network(a, Cut(n)) \div pow2[n] = q
  BY <1>1, <1>4, <1>5, <1>7, DivUnique
<1> QED BY <1>3, <1>5, <1>6, <1>8

(* Two addresses are in one network if nothing but the last bits differs.  *)
LEMMA SameNetworkLeft ==
  ASSUME NEW a \in Number, NEW b \in Number, NEW n \in 0..Bits
  PROVE  SameNetwork(a, b, Cut(n)) <=> a \div pow2[n] = b \div pow2[n]
<1>1. SameNetwork(a, b, Cut(n)) <=> \A k \in 0 .. Bits - 1 : k >= n => Bit(a, k) = Bit(b, k)
  BY CutBits DEF SameNetwork
<1> QED BY <1>1, SameLeft

LEMMA SameNetworkIff ==
  ASSUME NEW a \in Number, NEW b \in Number, NEW n \in 0..Bits
  PROVE  SameNetwork(network(b, Cut(n)), a, Cut(n)) <=> network(b, Cut(n)) = network(a, Cut(n))
<1>1. /\ network(b, Cut(n)) \in Number /\ network(a, Cut(n)) \in Number
      /\ network(b, Cut(n)) \div pow2[n] = b \div pow2[n]
      /\ network(a, Cut(n)) \div pow2[n] = a \div pow2[n]
      /\ network(b, Cut(n)) = pow2[n] * (b \div pow2[n])
      /\ network(a, Cut(n)) = pow2[n] * (a \div pow2[n])
  BY NetworkOf
<1>2. SameNetwork(network(b, Cut(n)), a, Cut(n)) <=> b \div pow2[n] = a \div pow2[n]
  BY <1>1, SameNetworkLeft
<1>3. ASSUME b \div pow2[n] = a \div pow2[n] PROVE network(b, Cut(n)) = network(a, Cut(n))
  BY <1>1, <1>3
<1>4. ASSUME network(b, Cut(n)) = network(a, Cut(n)) PROVE b \div pow2[n] = a \div pow2[n]
  BY <1>1, <1>4
<1> QED BY <1>2, <1>3, <1>4

(* The last address of a network: its own front, and ones behind.          *)
LEMMA BroadcastBits ==
  ASSUME NEW a \in Number, NEW n \in 0..Bits
  PROVE  /\ broadcast(a, Cut(n)) \in Number
         /\ broadcast(a, Cut(n)) \div pow2[n] = a \div pow2[n]
         /\ \A k \in 0 .. Bits - 1 : k < n => Bit(broadcast(a, Cut(n)), k) = 1
<1>1. /\ pow2[Bits] \in Nat /\ pow2[n] \in Nat /\ pow2[n] >= 1 /\ pow2[n] > 0
      /\ a \in Nat /\ a < pow2[Bits]
  BY PowNat, BitsNat, Ends DEF Number
<1>2. pow2[Bits] - Cut(n) = pow2[n]
  BY <1>1 DEF Cut
<1>3. PICK c \in Nat : c = a \div pow2[n]
  BY NetworkOf
<1>4. PICK m \in Nat : m = pow2[n] * c
  BY <1>1, Z3
<1>5. PICK z \in Nat : z = m + (pow2[n] - 1)
  BY <1>1, <1>4
<1>6. broadcast(a, Cut(n)) = z
  <2>1. network(a, Cut(n)) = m
    BY <1>3, <1>4, NetworkOf
  <2> QED BY <1>1, <1>2, <1>5, <2>1 DEF broadcast
<1>7. z \div pow2[n] = c
  <2>1. pow2[n] - 1 \in Nat /\ pow2[n] - 1 < pow2[n] /\ z = pow2[n] * c + (pow2[n] - 1)
    BY <1>1, <1>4, <1>5
  <2> QED BY <1>1, <2>1, DivUnique
<1>8. z < pow2[Bits]
  <2>1. PICK g \in Nat : pow2[Bits] = pow2[n] * g
    BY PowMultiple, BitsNat
  <2>2. a >= m
    <3>1. a = pow2[n] * (a \div pow2[n]) + (a % pow2[n]) /\ a % pow2[n] \in Nat
      BY <1>1, DivMod
    <3> QED BY <1>3, <1>4, <3>1
  <2>3. CASE g >= c + 1
    <3>1. pow2[n] * g >= pow2[n] * c + pow2[n]
      BY <1>1, <2>3, Z3
    <3> QED BY <1>1, <1>4, <1>5, <2>1, <3>1
  <2>4. CASE g <= c
    <3>1. pow2[n] * g <= pow2[n] * c
      BY <1>1, <2>4, Z3
    <3> QED BY <1>1, <1>4, <2>1, <2>2, <3>1
  <2> QED BY <2>3, <2>4
<1>9. ASSUME NEW k \in 0 .. Bits - 1, k < n PROVE Bit(z, k) = 1
  <2>1. k \in 0..Bits
    BY BitsNat
  <2>2. pow2[k] \in Nat /\ pow2[k] >= 1
    BY <2>1, PowNat
  <2>3. PICK e \in Nat, d \in Nat : d >= 1 /\ e = 2 * d /\ pow2[n] = pow2[k] * e
    BY <1>9, <2>1, PowEven
  <2>4. PICK x \in Nat : x = d * c + d /\ x >= 1
    <3>1. d * c \in Nat
      BY Z3
    <3> QED BY <2>3, <3>1
  <2>5. pow2[k] * (2 * x) = m + pow2[n]
    <3>1. (pow2[k] * (2 * d)) * c = pow2[k] * (2 * (d * c))
      BY <2>2, Z3
    <3>2. pow2[k] * (2 * x) = pow2[k] * (2 * (d * c)) + pow2[k] * (2 * d)
      <4>1. d * c \in Nat
        BY Z3
      <4> QED BY <2>2, <2>4, <4>1, Z3
    <3> QED BY <1>4, <2>3, <3>1, <3>2
  <2>6. PICK y \in Nat : y = 2 * x - 1 /\ y % 2 = 1
    BY <2>4
  <2>7. PICK w \in Nat : w = pow2[k] * y
    BY <2>2, Z3
  <2>8. pow2[k] * (2 * x) = w + pow2[k]
    <3>1. 2 * x = y + 1
      BY <2>4, <2>6
    <3>2. pow2[k] * (y + 1) = pow2[k] * y + pow2[k]
      BY <2>2, Z3
    <3> QED BY <2>7, <3>1, <3>2
  <2>9. z = pow2[k] * y + (pow2[k] - 1) /\ pow2[k] - 1 \in Nat /\ pow2[k] - 1 < pow2[k]
    BY <1>1, <1>5, <2>2, <2>5, <2>7, <2>8
  <2>10. z \div pow2[k] = y
    BY <2>2, <2>9, DivUnique
  <2> QED BY <2>6, <2>10 DEF Bit
<1>10. z \in Number
  BY <1>1, <1>8 DEF Number
<1> QED BY <1>3, <1>6, <1>7, <1>9, <1>10

LEMMA BroadcastRight ==
  ASSUME NEW a \in Number, NEW n \in 0..Bits
  PROVE  LastOf(a, Cut(n)) = broadcast(a, Cut(n))
<1> DEFINE IsLast(b) == /\ SameNetwork(a, b, Cut(n))
                        /\ \A k \in 0 .. Bits - 1 : Bit(Cut(n), k) = 0 => Bit(b, k) = 1
<1>1. PICK z \in Number : z = broadcast(a, Cut(n))
  BY BroadcastBits
<1>2. IsLast(z)
  <2>1. SameNetwork(a, z, Cut(n))
    BY <1>1, BroadcastBits, SameNetworkLeft
  <2>2. ASSUME NEW k \in 0 .. Bits - 1, Bit(Cut(n), k) = 0 PROVE Bit(z, k) = 1
    <3>1. k < n
      BY <2>2, CutBits, BitsNat
    <3> QED BY <1>1, <3>1, BroadcastBits
  <2> QED BY <2>1, <2>2
<1>3. ASSUME NEW b \in Number, IsLast(b) PROVE b = z
  <2>1. ASSUME NEW k \in 0 .. Bits - 1 PROVE Bit(b, k) = Bit(z, k)
    <3>1. CASE k >= n
      <4>1. Bit(Cut(n), k) = 1
        BY <3>1, CutBits
      <4> QED BY <1>2, <1>3, <4>1 DEF SameNetwork
    <3>2. CASE k < n
      <4>1. Bit(Cut(n), k) = 0
        BY <3>2, CutBits
      <4> QED BY <1>2, <1>3, <4>1
    <3> QED BY <3>1, <3>2, BitsNat
  <2> QED BY <2>1, SameBits
<1>4. LastOf(a, Cut(n)) = CHOOSE b \in Number : IsLast(b)
  BY DEF LastOf
<1> HIDE DEF IsLast
<1>5. LastOf(a, Cut(n)) = z
  BY <1>2, <1>3, <1>4
<1> QED BY <1>1, <1>5

(* Every address and every route is one that an operation has asked for,   *)
(* no address is there twice, and an interface has its own number for a    *)
(* name or none that is a number.                                          *)
V4Op == {o \in Op : GivesV4(o) /\ prefix(o.mask) # -1}
Entries == {Entry(o) : o \in V4Op}

Interface(f) ==
  /\ DOMAIN f = {"name", "open", "v4", "v6", "routes", "mtu", "up", "sifhead"}
  /\ f.v4 \in Seq(Entries)
  /\ \A i, j \in DOMAIN f.v4 : f.v4[i].addr = f.v4[j].addr => i = j
  /\ \A r \in f.routes : \E e \in Entries : r = RouteOf(e)

KernelInv ==
  /\ os \in {"freebsd", "macos"}
  /\ DOMAIN ifs = Unit
  /\ \A u \in Unit :
       /\ Interface(ifs[u])
       /\ ifs[u].name \in Unit => ifs[u].name = u
       /\ os = "macos" => ifs[u].name \in Unit \cup {None}

(* A device that is open, or was taken apart, has a unit.                  *)
UnitInv ==
  /\ \A f \in FdNo : DOMAIN fds[f] = {"kind", "unit"}
  /\ dev.phase = "open" => dev.unit \in Unit
  /\ dev.phase \in {"fd", "adopt", "made", "ready"} =>
       dev.unit \in Unit /\ fds[dev.inner].unit = dev.unit
  /\ raw # 0 => fds[raw].unit \in Unit

(* The calls that an operation may still have to make.                     *)
Reads == {C("name"), C("siocgifmtu")}
Deletions == {On("siocdifaddr", e) : e \in Entries} \cup {On("route_delete", e) : e \in Entries}
Calls(o) ==
  IF IsRead(o) THEN Reads
  ELSE Reads \cup Deletions
         \cup {C(c) : c \in {"siocdifaddr_loop", "list_all", "list_matching",
                             "siocgifflags", "siocsifflags", "siocsifmtu",
                             "siocaifaddr_in6", "siocdifaddr_in6", "sioctunsifhead",
                             "store"}}
         \cup {On("siocdifaddr", [addr |-> o.addr])}
         \cup (IF o \in V4Op THEN {On("siocaifaddr", Entry(o)), On("route_add", Entry(o))}
               ELSE {})
         \cup (IF o.kind = "set_name" THEN {C("siocsifname")} ELSE {})

(* An operation that is under way.                                         *)
Running(t) ==
  /\ th[t].op \in Op /\ Offered(th[t].op) /\ ~Refused(th[t].op)
  /\ th[t].todo \in Seq(Calls(th[t].op)) /\ th[t].todo # <<>>
  /\ th[t].req \in {None, dev.unit}
  /\ dev.phase = "ready"

ThreadInv ==
  /\ DOMAIN th = Thread
  /\ \A t \in Thread :
       /\ DOMAIN th[t] = {"op", "todo", "req", "assoc", "had", "warned", "ok"}
       /\ Idle(t) \/ Running(t)

(* op_lock: whoever writes is alone.                                       *)
LockInv ==
  \A t, u \in Thread : \/ t = u \/ Idle(t) \/ Idle(u)
                       \/ IsRead(th[t].op) /\ IsRead(th[u].op)

(* The calls of set_network_address come to an end with add_address: the   *)
(* name behind the first n, the address, and with associate_route a route. *)
Ahead(t, n) ==
  /\ Len(th[t].todo) = n + (IF th[t].assoc THEN 3 ELSE 2)
  /\ th[t].todo[n + 1] = C("name")
  /\ th[t].todo[n + 2] = On("siocaifaddr", Entry(th[t].op))
  /\ th[t].assoc => th[t].todo[n + 3] = On("route_add", Entry(th[t].op))

(* The routes that are to be deleted.                                      *)
Stale(t) ==
  {r \in ifs[dev.unit].routes :
     os = "macos" /\ th[t].assoc /\ \E h \in th[t].had : SameNet(r, h)}

(* At first the addresses are those that were there at the call.           *)
Removal == IF os = "freebsd" THEN "siocdifaddr_loop" ELSE "list_all"

RemovingAt(t, n) ==
  /\ Ahead(t, n)
  /\ th[t].todo[n] = C(Removal)
  /\ \A k \in 1 .. n - 1 : th[t].todo[k] = C("name")
  /\ os = "macos" =>
       /\ th[t].had = ToSet(ifs[dev.unit].v4)
       /\ n < 3 /\ Present(dev.unit) => th[t].req = dev.unit
Removing(t) == \E n \in 1..3 : RemovingAt(t, n)

(* Then each that is still there, and each stale route, has its deletion   *)
(* ahead; none is left when the name is asked for once more.               *)
DeletingAt(t, n) ==
  /\ Ahead(t, n)
  /\ \A k \in 1..n : th[t].todo[k] \in Deletions
  /\ Present(dev.unit) =>
       /\ \A i \in DOMAIN ifs[dev.unit].v4 : \E k \in 1..n :
            th[t].todo[k] = On("siocdifaddr", ifs[dev.unit].v4[i])
       /\ \A r \in Stale(t) : \E k \in 1..n : \E h \in Entries :
            th[t].todo[k] = On("route_delete", h) /\ SameNet(r, h)
Deleting(t) == \E n \in 0..Len(th[t].todo) : DeletingAt(t, n)

Adding(t) ==
  /\ Len(th[t].todo) = (IF th[t].assoc THEN 2 ELSE 1)
  /\ th[t].todo[1] = On("siocaifaddr", Entry(th[t].op))
  /\ th[t].assoc => th[t].todo[2] = On("route_add", Entry(th[t].op))
  /\ Present(dev.unit) => ifs[dev.unit].v4 = <<>> /\ Stale(t) = {}

Added(t) ==
  /\ th[t].assoc
  /\ Len(th[t].todo) = 1 /\ th[t].todo[1] = On("route_add", Entry(th[t].op))
  /\ ifs[dev.unit].v4 = <<Entry(th[t].op)>> /\ Stale(t) = {}

Network(t) ==
  /\ th[t].had \subseteq Entries
  /\ th[t].warned \/ Removing(t) \/ Deleting(t) \/ Adding(t) \/ Added(t)

NetworkInv ==
  \A t \in Thread : th[t].op.kind = "set_network_address" => Network(t)

NInv == KernelInv /\ UnitInv /\ ThreadInv /\ LockInv /\ NetworkInv

-----------------------------------------------------------------------------
(* Entries of set_network_address and add_address_v4. *)

LEMMA EntryMask ==
  ASSUME NEW e \in Entries
  PROVE  e.addr \in Number /\ \E n \in 0..Bits : e.mask = Cut(n)
<1>1. PICK o \in V4Op : e = Entry(o)
  BY DEF Entries
<1>2. o \in Op /\ GivesV4(o) /\ prefix(o.mask) # -1
  BY DEF V4Op
<1>3. o.addr \in Number /\ Given(o.mask)
  BY <1>2, OpAssumption
<1>4. PICK n \in 0..Bits : netmask(o.mask) = Cut(n)
  BY <1>2, <1>3, NetmaskRight
<1>5. e.addr = o.addr /\ e.mask = netmask(o.mask)
  BY <1>1 DEF Entry
<1> QED BY <1>3, <1>4, <1>5

(* What the code computes is what was meant. *)
LEMMA EntryRight ==
  ASSUME NEW o \in V4Op PROVE Entry(o) = Wanted(o)
<1>1. o \in Op /\ GivesV4(o) /\ prefix(o.mask) # -1
  BY DEF V4Op
<1>2. o.addr \in Number /\ Given(o.mask)
  BY <1>1, OpAssumption
<1>3. PICK n \in 0..Bits : netmask(o.mask) = Cut(n) /\ MaskOf(o.mask) = Cut(n)
  BY <1>1, <1>2, NetmaskRight
<1>4. LastOf(o.addr, Cut(n)) = broadcast(o.addr, Cut(n))
  BY <1>2, BroadcastRight
<1> QED BY <1>3, <1>4 DEF Entry, Wanted, calc_dest_addr

(* A route that the code takes for one of a network leads to it.           *)
LEMMA LeadsIsSameNet ==
  ASSUME NEW r, NEW x \in Entries, r = RouteOf(x), NEW e \in Entries
  PROVE  Leads(r, e) <=> SameNet(r, e)
<1>1. r.net = network(x.addr, x.mask) /\ r.mask = x.mask
  BY DEF RouteOf
<1>2. CASE x.mask # e.mask
  BY <1>1, <1>2 DEF Leads, SameNet
<1>3. CASE x.mask = e.mask
  <2>1. PICK n \in 0..Bits : e.mask = Cut(n)
    BY EntryMask
  <2>2. x.addr \in Number /\ e.addr \in Number
    BY EntryMask
  <2>3. SameNetwork(network(x.addr, Cut(n)), e.addr, Cut(n))
          <=> network(x.addr, Cut(n)) = network(e.addr, Cut(n))
    BY <2>2, SameNetworkIff
  <2> QED BY <1>1, <1>3, <2>1, <2>3 DEF Leads, SameNet
<1> QED BY <1>2, <1>3

LEMMA OwnRoute ==
  ASSUME NEW e PROVE SameNet(RouteOf(e), e)
BY DEF SameNet, RouteOf

-----------------------------------------------------------------------------
(* Sequences. *)

(* F is the recursive function that FlattenSeq is defined with: F[i] joins *)
(* the first i sequences.                                                  *)
Joins(F, s, n) ==
  F = [i \in 1..n |-> IF i = 1 THEN s[i] ELSE F[i-1] \o s[i]]

LEMMA JoinsExists ==
  ASSUME NEW S, NEW s \in Seq(S)
  PROVE  \E F : Joins(F, s, Len(s))
<1> DEFINE T == {n \in 0..Len(s) : \E F : Joins(F, s, n)}
<1>1. 0 \in T
  <2> DEFINE F == [i \in 1..0 |-> s[i]]
  <2>1. F = [i \in 1..0 |-> IF i = 1 THEN s[i] ELSE F[i-1] \o s[i]]
    OBVIOUS
  <2> HIDE DEF F
  <2>2. Joins(F, s, 0)
    BY <2>1 DEF Joins
  <2>3. 0 \in 0..Len(s)
    OBVIOUS
  <2> QED BY <2>2, <2>3
<1>2. ASSUME NEW n \in 0..Len(s), n \in T, n < Len(s) PROVE n + 1 \in T
  <2>1. PICK F : Joins(F, s, n)
    BY <1>2
  <2> DEFINE G == [i \in 1..n+1 |-> IF i = 1 THEN s[i] ELSE F[i-1] \o s[i]]
  <2>2. ASSUME NEW i \in 1..n PROVE G[i] = F[i]
    <3>1. F[i] = IF i = 1 THEN s[i] ELSE F[i-1] \o s[i]
      BY <2>1, Zenon DEF Joins
    <3>2. i \in 1..n+1
      OBVIOUS
    <3> QED BY <3>1, <3>2, Zenon
  <2>3. G = [i \in 1..n+1 |-> IF i = 1 THEN s[i] ELSE G[i-1] \o s[i]]
    <3>1. ASSUME NEW i \in 1..n+1
          PROVE  (IF i = 1 THEN s[i] ELSE F[i-1] \o s[i]) = IF i = 1 THEN s[i] ELSE G[i-1] \o s[i]
      <4>1. CASE i = 1
        BY <4>1
      <4>2. CASE i # 1
        <5>1. i - 1 \in 1..n
          BY <4>2
        <5>2. G[i-1] = F[i-1]
          BY <5>1, <2>2
        <5> HIDE DEF G
        <5> QED BY <5>2
      <4> QED BY <4>1, <4>2
    <3> QED BY <3>1, Zenon
  <2> HIDE DEF G
  <2>4. Joins(G, s, n + 1)
    BY <2>3 DEF Joins
  <2>5. n + 1 \in 0..Len(s)
    BY <1>2
  <2> QED BY <2>4, <2>5
<1>3. \A n \in 0..Len(s) : n \in T
  <2> HIDE DEF T
  <2>1. Len(s) \in Nat
    OBVIOUS
  <2> QED BY <1>1, <1>2, <2>1, UpTo
<1>4. Len(s) \in 0..Len(s)
  OBVIOUS
<1>5. Len(s) \in T
  <2> HIDE DEF T
  <2> QED BY <1>3, <1>4
<1> QED BY <1>5

LEMMA FlattenJoins ==
  ASSUME NEW S, NEW s \in Seq(S), s # <<>>
  PROVE  \E F : Joins(F, s, Len(s)) /\ FlattenSeq(s) = F[Len(s)]
<1> DEFINE F == CHOOSE f : f = [i \in 1..Len(s) |-> IF i = 1 THEN s[i] ELSE f[i-1] \o s[i]]
<1>1. \E f : f = [i \in 1..Len(s) |-> IF i = 1 THEN s[i] ELSE f[i-1] \o s[i]]
  BY JoinsExists DEF Joins
<1>2. F = [i \in 1..Len(s) |-> IF i = 1 THEN s[i] ELSE F[i-1] \o s[i]]
  BY <1>1
<1>3. Len(s) # 0
  OBVIOUS
<1>4. FlattenSeq(s) = F[Len(s)]
  BY <1>3 DEF FlattenSeq
<1> QED BY <1>2, <1>4 DEF Joins

LEMMA JoinsStep ==
  ASSUME NEW F, NEW s, NEW n \in Nat, Joins(F, s, n), NEW i \in 1..n
  PROVE  F[i] = IF i = 1 THEN s[i] ELSE F[i-1] \o s[i]
BY Zenon DEF Joins

(* c is somewhere in s.                                                    *)
In(c, s) == \E k \in 1..Len(s) : s[k] = c

LEMMA InConcat ==
  ASSUME NEW S, NEW a \in Seq(S), NEW b \in Seq(S)
  PROVE  /\ a \o b \in Seq(S) /\ Len(a \o b) = Len(a) + Len(b)
         /\ \A k \in 1..Len(a) : (a \o b)[k] = a[k]
         /\ \A k \in 1..Len(b) : (a \o b)[Len(a) + k] = b[k]
         /\ \A c : In(c, a) \/ In(c, b) => In(c, a \o b)
<1>1. ASSUME NEW k \in 1..Len(b) PROVE (a \o b)[Len(a) + k] = b[k]
  <2>1. Len(a) + k \in Len(a) + 1..Len(a) + Len(b) /\ (Len(a) + k) - Len(a) = k
    OBVIOUS
  <2> QED BY <2>1
<1>2. a \o b \in Seq(S) /\ Len(a \o b) = Len(a) + Len(b)
  OBVIOUS
<1>3. \A k \in 1..Len(a) : (a \o b)[k] = a[k]
  OBVIOUS
<1>4. ASSUME NEW c, In(c, a) PROVE In(c, a \o b)
  <2>1. PICK k \in 1..Len(a) : a[k] = c
    BY <1>4 DEF In
  <2>2. k \in 1..Len(a \o b)
    BY <1>2
  <2> QED BY <1>3, <2>1, <2>2 DEF In
<1>5. ASSUME NEW c, In(c, b) PROVE In(c, a \o b)
  <2>1. PICK k \in 1..Len(b) : b[k] = c
    BY <1>5 DEF In
  <2>2. Len(a) + k \in 1..Len(a \o b)
    BY <1>2
  <2> QED BY <1>1, <2>1, <2>2 DEF In
<1> QED BY <1>1, <1>2, <1>3, <1>4, <1>5

(* FlattenSeq has what its parts have.                                     *)
LEMMA FlattenHas ==
  ASSUME NEW S, NEW s \in Seq(Seq(S))
  PROVE  /\ FlattenSeq(s) \in Seq(S)
         /\ \A j \in 1..Len(s) : \A c : In(c, s[j]) => In(c, FlattenSeq(s))
<1>1. CASE s = <<>>
  <2>1. FlattenSeq(s) = <<>> /\ Len(s) = 0
    BY <1>1 DEF FlattenSeq
  <2> QED BY <2>1
<1>2. CASE s # <<>>
  <2>1. PICK F : Joins(F, s, Len(s)) /\ FlattenSeq(s) = F[Len(s)]
    BY <1>2, FlattenJoins
  <2>2. Len(s) \in Nat
    OBVIOUS
  <2>3. \A i \in 1..Len(s) : F[i] = IF i = 1 THEN s[i] ELSE F[i-1] \o s[i]
    BY <2>1, <2>2, JoinsStep
  <2> DEFINE Q(n) == /\ F[n] \in Seq(S)
                     /\ \A j \in 1..n : \A c : In(c, s[j]) => In(c, F[n])
             T == {n \in 0..Len(s) : n = 0 \/ Q(n)}
  <2>4. 0 \in T
    BY <2>2
  <2>5. ASSUME NEW n \in 0..Len(s), n \in T, n < Len(s) PROVE n + 1 \in T
    <3> DEFINE m == n + 1
    <3>1. m \in 1..Len(s) /\ m - 1 = n /\ m \in 0..Len(s) /\ s[m] \in Seq(S) /\ m # 0
      BY <2>5
    <3>2. F[m] = IF m = 1 THEN s[m] ELSE F[m-1] \o s[m]
      BY <2>3, <3>1
    <3>3. CASE n = 0
      <4>1. m = 1 /\ F[m] = s[m]
        BY <3>2, <3>3
      <4>2. Q(m)
        BY <3>1, <4>1
      <4> HIDE DEF Q, m
      <4> QED BY <3>1, <4>2 DEF m
    <3>4. CASE n # 0
      <4>0. m # 1
        BY <3>4
      <4> HIDE DEF m
      <4>1. Q(n)
        BY <2>5, <3>4
      <4>2. F[m] = F[n] \o s[m]
        BY <3>1, <3>2, <4>0
      <4>3. F[n] \in Seq(S)
        BY <4>1
      <4>4. F[m] \in Seq(S) /\ \A c : In(c, F[n]) \/ In(c, s[m]) => In(c, F[m])
        BY <3>1, <4>2, <4>3, InConcat
      <4>5. ASSUME NEW j \in 1..m, NEW c, In(c, s[j]) PROVE In(c, F[m])
        <5>1. CASE j = m
          BY <4>4, <4>5, <5>1
        <5>2. CASE j # m
          <6>1. j \in 1..n
            BY <3>1, <5>2
          <6> QED BY <4>1, <4>4, <4>5, <6>1
        <5> QED BY <5>1, <5>2
      <4>6. Q(m)
        BY <4>4, <4>5
      <4> HIDE DEF Q
      <4> QED BY <3>1, <4>6 DEF m
    <3> QED BY <3>3, <3>4
  <2>6. \A n \in 0..Len(s) : n \in T
    <3> HIDE DEF T
    <3> QED BY <2>2, <2>4, <2>5, UpTo
  <2>7. Len(s) \in 0..Len(s) /\ Len(s) # 0
    BY <1>2
  <2>8. Q(Len(s))
    BY <2>6, <2>7
  <2> QED BY <2>1, <2>8
<1> QED BY <1>1, <1>2

(* What comes behind the first of a sequence.                              *)
LEMMA TailOf ==
  ASSUME NEW S, NEW s \in Seq(S), s # <<>>
  PROVE  /\ Head(s) = s[1] /\ s[1] \in S
         /\ Tail(s) \in Seq(S) /\ Len(s) \in Nat /\ Len(s) >= 1
         /\ Len(Tail(s)) = Len(s) - 1
         /\ \A k \in 1 .. Len(s) - 1 : Tail(s)[k] = s[k+1]
OBVIOUS

-----------------------------------------------------------------------------
(* The kernel's interfaces. *)

(* Removing an address leaves the others.                                  *)
LEMMA WithoutEffect ==
  ASSUME NEW v \in Seq(Entries), NEW a,
         \A i, j \in DOMAIN v : v[i].addr = v[j].addr => i = j
  PROVE  /\ Without(v, a) \in Seq(Entries)
         /\ \A i \in DOMAIN Without(v, a) : \E j \in DOMAIN v :
              Without(v, a)[i] = v[j] /\ v[j].addr # a
         /\ \A i, j \in DOMAIN Without(v, a) :
              Without(v, a)[i].addr = Without(v, a)[j].addr => i = j
<1>0. DOMAIN v = 1..Len(v) /\ Len(v) \in Nat
  OBVIOUS
<1>1. CASE ~Has(v, a)
  <2>1. Without(v, a) = v
    BY <1>1 DEF Without
  <2>2. \A i \in DOMAIN v : v[i].addr # a
    BY <1>1 DEF Has
  <2> QED BY <2>1, <2>2
<1>2. CASE Has(v, a)
  <2> DEFINE m == CHOOSE k \in DOMAIN v : v[k].addr = a
             x == SubSeq(v, 1, m - 1)
             y == SubSeq(v, m + 1, Len(v))
             w == x \o y
  <2>1. m \in 1..Len(v) /\ v[m].addr = a
    BY <1>0, <1>2 DEF Has
  <2>2. Without(v, a) = w
    BY <1>2 DEF Without, RemoveAt
  <2> HIDE DEF m
  <2>3. x \in Seq(Entries) /\ Len(x) = m - 1 /\ \A i \in 1 .. m - 1 : x[i] = v[i]
    BY <2>1
  <2>4. y \in Seq(Entries) /\ Len(y) = Len(v) - m
    BY <2>1
  <2>5. ASSUME NEW i \in 1 .. Len(v) - m PROVE y[i] = v[m + i]
    BY <2>1, <2>4
  <2> HIDE DEF x, y
  <2>6. w \in Seq(Entries) /\ Len(w) = Len(v) - 1
    BY <2>1, <2>3, <2>4
  <2>7. \A i \in 1 .. m - 1 : w[i] = v[i]
    BY <2>1, <2>3, <2>4
  <2>8. ASSUME NEW i \in m .. Len(v) - 1 PROVE w[i] = v[i + 1]
    <3>1. i - (m - 1) \in 1 .. Len(v) - m /\ m + (i - (m - 1)) = i + 1
      BY <2>1
    <3>2. w[i] = y[i - (m - 1)]
      BY <2>1, <2>3, <2>4
    <3> QED BY <2>5, <3>1, <3>2
  <2> HIDE DEF w
  <2> DEFINE at(i) == IF i < m THEN i ELSE i + 1
  <2>9. ASSUME NEW i \in 1 .. Len(w)
        PROVE  at(i) \in 1..Len(v) /\ w[i] = v[at(i)] /\ at(i) # m
    <3>1. CASE i < m
      BY <2>1, <2>6, <2>7, <3>1
    <3>2. CASE i >= m
      BY <2>1, <2>6, <2>8, <3>2
    <3> QED BY <2>1, <3>1, <3>2
  <2>10. \A i, j \in 1 .. Len(w) : at(i) = at(j) => i = j
    BY <2>1
  <2>11. ASSUME NEW i \in 1 .. Len(w) PROVE v[at(i)].addr # a
    BY <1>0, <2>1, <2>9
  <2> HIDE DEF at
  <2>12. DOMAIN w = 1 .. Len(w)
    BY <2>6
  <2>13. ASSUME NEW i \in DOMAIN w PROVE \E j \in DOMAIN v : w[i] = v[j] /\ v[j].addr # a
    BY <1>0, <2>9, <2>11, <2>12
  <2>14. ASSUME NEW i \in DOMAIN w, NEW j \in DOMAIN w, w[i].addr = w[j].addr
         PROVE  i = j
    <3>1. at(i) = at(j)
      BY <1>0, <2>9, <2>12, <2>14
    <3> QED BY <2>10, <2>12, <3>1
  <2> QED BY <2>2, <2>6, <2>13, <2>14
<1> QED BY <1>1, <1>2

(* SIOCAIFADDR adds one that is not there any more.                        *)
LEMMA AppendEffect ==
  ASSUME NEW v \in Seq(Entries), NEW e \in Entries,
         \A i, j \in DOMAIN v : v[i].addr = v[j].addr => i = j,
         \A i \in DOMAIN v : v[i].addr # e.addr
  PROVE  /\ Append(v, e) \in Seq(Entries)
         /\ \A i, j \in DOMAIN Append(v, e) :
              Append(v, e)[i].addr = Append(v, e)[j].addr => i = j
<1> DEFINE w == Append(v, e)
<1>1. /\ w \in Seq(Entries) /\ Len(w) = Len(v) + 1 /\ Len(v) \in Nat
      /\ w[Len(v) + 1] = e /\ \A i \in 1..Len(v) : w[i] = v[i]
  OBVIOUS
<1>2. DOMAIN v = 1..Len(v) /\ DOMAIN w = 1 .. Len(v) + 1
  BY <1>1
<1> HIDE DEF w
<1>3. ASSUME NEW i \in DOMAIN w, NEW j \in DOMAIN w, w[i].addr = w[j].addr PROVE i = j
  <2>1. i \in 1..Len(v) \/ i = Len(v) + 1
    BY <1>1, <1>2
  <2>2. j \in 1..Len(v) \/ j = Len(v) + 1
    BY <1>1, <1>2
  <2> QED BY <1>1, <1>2, <1>3, <2>1, <2>2
<1> QED BY <1>1, <1>3 DEF w

LEMMA TailEffect ==
  ASSUME NEW v \in Seq(Entries), v # <<>>,
         \A i, j \in DOMAIN v : v[i].addr = v[j].addr => i = j
  PROVE  /\ Tail(v) \in Seq(Entries)
         /\ \A i, j \in DOMAIN Tail(v) : Tail(v)[i].addr = Tail(v)[j].addr => i = j
<1>1. /\ Tail(v) \in Seq(Entries) /\ Len(v) \in Nat /\ Len(v) >= 1
      /\ Len(Tail(v)) = Len(v) - 1
      /\ \A k \in 1 .. Len(v) - 1 : Tail(v)[k] = v[k+1]
  BY TailOf
<1>2. DOMAIN v = 1..Len(v) /\ DOMAIN Tail(v) = 1 .. Len(v) - 1
  BY <1>1
<1>3. ASSUME NEW i \in DOMAIN Tail(v), NEW j \in DOMAIN Tail(v),
             Tail(v)[i].addr = Tail(v)[j].addr
      PROVE  i = j
  <2>1. i + 1 \in 1..Len(v) /\ j + 1 \in 1..Len(v) /\ i \in Nat /\ j \in Nat
    BY <1>1, <1>2
  <2>2. v[i+1].addr = v[j+1].addr
    BY <1>1, <1>2, <1>3
  <2>3. i + 1 = j + 1
    BY <1>2, <2>1, <2>2
  <2> QED BY <2>1, <2>3
<1> QED BY <1>1, <1>3

(* What the calls of an operation say. *)
LEMMA CallCases ==
  ASSUME NEW o \in Op, NEW c \in Calls(o)
  PROVE  /\ c.call \in {"siocaifaddr", "route_add"} => o \in V4Op /\ c.entry = Entry(o)
         /\ c.call = "siocsifname" => o.kind = "set_name"
         /\ c.call # "siocdifaddr_any"
         /\ c.call \in {"siocaifaddr", "siocdifaddr", "siocaifaddr_in6", "siocdifaddr_in6",
                        "siocsifflags", "siocsifmtu", "siocsifname", "route_add",
                        "route_delete", "siocdifaddr_loop", "list_all", "list_matching",
                        "sioctunsifhead", "store", "name", "siocgifflags", "siocgifmtu"}
         /\ IsRead(o) => c.call \in {"name", "siocgifmtu"}
BY DEF Calls, Reads, Deletions, C, On

LEMMA WrittenInterface ==
  ASSUME NEW o \in Op, NEW c \in Calls(o), c.call \in ByName, NEW f, Interface(f)
  PROVE  /\ Interface(Written(f, c, o))
         /\ \/ Written(f, c, o).name = f.name
            \/ c.call = "siocsifname" /\ Written(f, c, o).name = o.arg
<1>0. /\ DOMAIN f = {"name", "open", "v4", "v6", "routes", "mtu", "up", "sifhead"}
      /\ f.v4 \in Seq(Entries)
      /\ \A i, j \in DOMAIN f.v4 : f.v4[i].addr = f.v4[j].addr => i = j
      /\ \A r \in f.routes : \E e \in Entries : r = RouteOf(e)
  BY DEF Interface
<1>1. CASE c.call = "siocaifaddr"
  <2>1. o \in V4Op /\ c.entry = Entry(o)
    BY <1>1, CallCases
  <2>2. c.entry \in Entries
    BY <2>1 DEF Entries
  <2> DEFINE w == Without(f.v4, c.entry.addr)
  <2>3. /\ w \in Seq(Entries)
        /\ \A i \in DOMAIN w : w[i].addr # c.entry.addr
        /\ \A i, j \in DOMAIN w : w[i].addr = w[j].addr => i = j
    BY <1>0, WithoutEffect
  <2>4. /\ Append(w, c.entry) \in Seq(Entries)
        /\ \A i, j \in DOMAIN Append(w, c.entry) :
             Append(w, c.entry)[i].addr = Append(w, c.entry)[j].addr => i = j
    <3> HIDE DEF w
    <3> QED BY <2>2, <2>3, AppendEffect
  <2>5. Written(f, c, o) = [f EXCEPT !.v4 = Append(w, c.entry)]
    BY <1>1 DEF Written
  <2> HIDE DEF w
  <2> QED BY <1>0, <2>4, <2>5 DEF Interface
<1>2. CASE c.call = "siocdifaddr"
  <2> DEFINE w == Without(f.v4, c.entry.addr)
  <2>1. /\ w \in Seq(Entries)
        /\ \A i, j \in DOMAIN w : w[i].addr = w[j].addr => i = j
    BY <1>0, WithoutEffect
  <2>2. Written(f, c, o) = [f EXCEPT !.v4 = w]
    BY <1>2 DEF Written
  <2> HIDE DEF w
  <2> QED BY <1>0, <2>1, <2>2 DEF Interface
<1>3. CASE c.call = "siocaifaddr_in6"
  BY <1>0, <1>3 DEF Written, Interface
<1>4. CASE c.call = "siocdifaddr_in6"
  BY <1>0, <1>4 DEF Written, Interface
<1>5. CASE c.call = "siocsifflags"
  BY <1>0, <1>5 DEF Written, Interface
<1>6. CASE c.call = "siocsifmtu"
  BY <1>0, <1>6 DEF Written, Interface
<1>7. CASE c.call = "siocsifname"
  BY <1>0, <1>7 DEF Written, Interface
<1>8. CASE c.call \in {"siocgifflags", "siocgifmtu"}
  BY <1>0, <1>8 DEF Written, Interface
<1>9. c.call # "siocdifaddr_any"
  BY CallCases
<1> QED BY <1>1, <1>2, <1>3, <1>4, <1>5, <1>6, <1>7, <1>8, <1>9 DEF ByName

(* One interface changes, and keeps its name. *)
LEMMA InterfaceStep ==
  ASSUME KernelInv, NEW u, NEW g, Interface(g), os' = os,
         ifs' = [ifs EXCEPT ![u] = g],
         \/ g.name \in {None, u, ifs[u].name}
         \/ os # "macos" /\ g.name \notin Unit
  PROVE  KernelInv'
<1>1. CASE u \notin Unit
  <2>1. DOMAIN ifs' = Unit /\ \A w \in Unit : ifs'[w] = ifs[w]
    BY <1>1 DEF KernelInv
  <2> QED BY <2>1 DEF KernelInv, Interface
<1>2. CASE u \in Unit
  <2>1. DOMAIN ifs' = Unit /\ ifs'[u] = g /\ \A w \in Unit : w # u => ifs'[w] = ifs[w]
    BY <1>2 DEF KernelInv
  <2>2. None \notin Unit
    BY ConfigAssumption
  <2>3. ASSUME NEW w \in Unit
        PROVE  /\ Interface(ifs'[w])
               /\ ifs'[w].name \in Unit => ifs'[w].name = w
               /\ os = "macos" => ifs'[w].name \in Unit \cup {None}
    <3>1. CASE w = u
      BY <1>2, <2>1, <2>2, <3>1 DEF KernelInv
    <3>2. CASE w # u
      BY <2>1, <3>2 DEF KernelInv
    <3> QED BY <3>1, <3>2
  <2> QED BY <2>1, <2>3 DEF KernelInv, Interface
<1> QED BY <1>1, <1>2

LEMMA AbsentInterface ==
  ASSUME NEW n PROVE Interface(Absent) /\ Interface([Absent EXCEPT !.name = n])
                     /\ Interface([Absent EXCEPT !.name = n, !.open = TRUE])
<1>1. <<>> \in Seq(Entries) /\ DOMAIN <<>> = {}
  OBVIOUS
<1> QED BY <1>1 DEF Interface, Absent

LEMMA CloseKernel ==
  ASSUME KernelInv, NEW f, Close(f), os' = os PROVE KernelInv'
<1>1. ifs' = IfsAfterClose(f)
  BY DEF Close
<1> DEFINE u == fds[f].unit
<1>2. CASE ifs' = ifs
  BY <1>2 DEF KernelInv, Interface
<1>3. CASE ifs' = [ifs EXCEPT ![u] = Absent]
  <2>1. Absent.name = None
    BY DEF Absent
  <2> QED BY <1>3, <2>1, AbsentInterface, InterfaceStep
<1>4. CASE ifs' = [ifs EXCEPT ![u] = [Absent EXCEPT !.name = ifs[u].name]]
  <2>1. [Absent EXCEPT !.name = ifs[u].name].name = ifs[u].name
    BY DEF Absent
  <2> QED BY <1>4, <2>1, AbsentInterface, InterfaceStep
<1>5. ifs' \in {ifs, [ifs EXCEPT ![u] = Absent],
                [ifs EXCEPT ![u] = [Absent EXCEPT !.name = ifs[u].name]]}
  BY <1>1 DEF IfsAfterClose
<1> QED BY <1>2, <1>3, <1>4, <1>5

(* Making a device. *)
LEMMA MakingKernel ==
  ASSUME IInv, KernelInv, UnitInv, Making
  PROVE  KernelInv' /\ UnitInv' /\ dev.phase # "ready" /\ th' = th
<1>0. FdNo \subseteq Nat \ {0} /\ 0 \in Unit /\ None \notin Unit
  BY BoundsAssumption, ConfigAssumption DEF FdNo, Unit
<1> USE DEF IInv, TableInv, PhaseInv, DescriptorOwned, NoDev, Phases, InFd, InDrop, OwnTun,
            UnitInv
<1>1. ASSUME NEW c \in Config, New(c)
      PROVE  KernelInv' /\ UnitInv' /\ dev.phase # "ready" /\ th' = th
  <2>1. KernelInv'
    BY <1>1 DEF New, KernelInv, Interface
  <2>2. c.unit \in Unit \cup {None}
    BY ConfigAssumption
  <2> QED BY <1>0, <1>1, <2>1, <2>2 DEF New
<1>2. ASSUME OpenTun PROVE KernelInv' /\ UnitInv' /\ dev.phase # "ready" /\ th' = th
  <2>1. NextFd \in FdNo /\ fds[NextFd] = Closed
    BY <1>2, NextFdFree DEF OpenTun, Opening
  <2>2. dev.unit \in Unit
    BY <1>2 DEF OpenTun, Opening
  <2> DEFINE g == [ifs[dev.unit] EXCEPT !.open = TRUE,
                                        !.name = IF @ = None THEN dev.unit ELSE @]
  <2>3. ifs' = [ifs EXCEPT ![dev.unit] = g]
    BY <1>2, <2>2 DEF OpenTun, KernelInv
  <2>4. Interface(g) /\ (g.name = dev.unit \/ g.name = ifs[dev.unit].name)
    BY <2>2 DEF KernelInv, Interface
  <2> HIDE DEF g
  <2>5. KernelInv'
    BY <1>2, <2>3, <2>4, InterfaceStep DEF OpenTun
  <2>6. UnitInv'
    BY <1>0, <1>2, <2>1, <2>2 DEF OpenTun, Opening, Closed
  <2> QED BY <1>2, <2>5, <2>6 DEF OpenTun, Opening
<1>3. ASSUME OpenBusy PROVE KernelInv' /\ UnitInv' /\ dev.phase # "ready" /\ th' = th
  <2>1. KernelInv'
    BY <1>3 DEF OpenBusy, KernelInv, Interface
  <2> QED BY <1>3, <2>1 DEF OpenBusy, Opening
<1>4. ASSUME OpenSocket PROVE KernelInv' /\ UnitInv' /\ dev.phase # "ready" /\ th' = th
  <2>1. NextFd \in FdNo /\ fds[NextFd] = Closed
    BY <1>4, NextFdFree DEF OpenSocket, Opening
  <2>2. KernelInv'
    BY <1>4 DEF OpenSocket, KernelInv, Interface
  <2> QED BY <1>0, <1>4, <2>1, <2>2 DEF OpenSocket, Opening, Closed
<1>5. ASSUME OpenFails PROVE KernelInv' /\ UnitInv' /\ dev.phase # "ready" /\ th' = th
  <2>1. KernelInv'
    BY <1>5 DEF OpenFails, KernelInv, Interface
  <2> QED BY <1>5, <2>1 DEF OpenFails
<1>6. ASSUME Connect PROVE KernelInv' /\ UnitInv' /\ dev.phase # "ready" /\ th' = th
  <2>1. PICK u \in Unit :
          /\ ifs' = [ifs EXCEPT ![u] = [Absent EXCEPT !.name = u, !.open = TRUE]]
          /\ fds' = [fds EXCEPT ![dev.inner].unit = u]
          /\ dev' = [dev EXCEPT !.phase = "fd", !.unit = u]
    BY <1>6 DEF Connect
  <2>2. [Absent EXCEPT !.name = u, !.open = TRUE].name = u
    BY DEF Absent
  <2>3. KernelInv'
    BY <1>6, <2>1, <2>2, AbsentInterface, InterfaceStep DEF Connect
  <2> QED BY <1>6, <2>1, <2>3 DEF Connect
<1>7. ASSUME SetUp PROVE KernelInv' /\ UnitInv' /\ dev.phase # "ready" /\ th' = th
  <2>1. dev.unit \in Unit
    BY <1>7 DEF SetUp
  <2> DEFINE g == [ifs[dev.unit] EXCEPT !.sifhead = (os = "freebsd")]
  <2>2. ifs' = [ifs EXCEPT ![dev.unit] = g]
    BY <1>7, <2>1 DEF SetUp, KernelInv
  <2>3. Interface(g) /\ g.name = ifs[dev.unit].name
    BY <2>1 DEF KernelInv, Interface
  <2> HIDE DEF g
  <2>4. KernelInv'
    BY <1>7, <2>2, <2>3, InterfaceStep DEF SetUp
  <2> QED BY <1>7, <2>4 DEF SetUp
<1>8. ASSUME SetUpFails PROVE KernelInv' /\ UnitInv' /\ dev.phase # "ready" /\ th' = th
  <2>0. dev.inner \in FdNo /\ DropFd(dev.inner)
    BY <1>8 DEF SetUpFails
  <2>1. Close(dev.inner)
    BY <2>0 DEF DropFd, FdNo
  <2>2. KernelInv'
    <3>1. os' = os
      BY <1>8 DEF SetUpFails
    <3> QED BY <2>1, <3>1, CloseKernel
  <2>3. UnitInv'
    BY <1>8, <2>1 DEF SetUpFails, Close, Closed
  <2> QED BY <1>8, <2>2, <2>3 DEF SetUpFails
<1>9. ASSUME DisableLocalIpv6
      PROVE  KernelInv' /\ UnitInv' /\ dev.phase # "ready" /\ th' = th
  <2>1. KernelInv'
    BY <1>9 DEF DisableLocalIpv6, KernelInv, Interface
  <2> QED BY <1>9, <2>1 DEF DisableLocalIpv6
<1> QED BY <1>1, <1>2, <1>3, <1>4, <1>5, <1>6, <1>7, <1>8, <1>9 DEF Making

(* Dropping it, taking it apart, putting it together again: only when no   *)
(* operation is under way.                                                 *)
LEMMA EndingKernel ==
  ASSUME IInv, KernelInv, UnitInv, Ending
  PROVE  KernelInv' /\ UnitInv' /\ (AllIdle \/ dev.phase # "ready") /\ th' = th
<1>0. FdNo \subseteq Nat \ {0}
  BY DEF FdNo
<1> USE DEF IInv, TableInv, PhaseInv, DescriptorOwned, NoDev, Phases, InFd, InDrop, OwnTun,
            UnitInv
<1> DEFINE Goal == KernelInv' /\ UnitInv' /\ (AllIdle \/ dev.phase # "ready") /\ th' = th
<1>1. ASSUME DropBegin PROVE Goal
  <2>1. KernelInv'
    BY <1>1 DEF DropBegin, KernelInv, Interface
  <2>2. UnitInv'
    BY <1>1 DEF DropBegin, DropTakes
  <2> QED BY <1>1, <2>1, <2>2 DEF DropBegin
<1>2. ASSUME DropDestroy PROVE Goal
  <2>1. ifs' = ifs \/ ifs' = [ifs EXCEPT ![dev.unit] = Absent]
    BY <1>2 DEF DropDestroy
  <2>2. CASE ifs' = ifs
    BY <1>2, <2>2 DEF DropDestroy, KernelInv, Interface
  <2>3. CASE ifs' = [ifs EXCEPT ![dev.unit] = Absent]
    <3>1. Absent.name = None
      BY DEF Absent
    <3>2. KernelInv'
      BY <1>2, <2>3, <3>1, AbsentInterface, InterfaceStep DEF DropDestroy
    <3> QED BY <1>2, <3>2 DEF DropDestroy
  <2> QED BY <2>1, <2>2, <2>3
<1>3. ASSUME DropClose PROVE Goal
  <2>1. KernelInv'
    BY <1>3, CloseKernel DEF DropClose
  <2>2. UnitInv'
    BY <1>3 DEF DropClose, Close, Closed
  <2> QED BY <1>3, <2>1, <2>2 DEF DropClose
<1>4. ASSUME DropFields PROVE Goal
  <2>1. CASE Close(dev.inner)
    <3>1. KernelInv'
      BY <1>4, <2>1, CloseKernel DEF DropFields
    <3>2. UnitInv'
      BY <1>4, <2>1 DEF DropFields, Close, Closed
    <3> QED BY <1>4, <3>1, <3>2 DEF DropFields
  <2>2. CASE UNCHANGED <<fds, ifs>>
    BY <1>4, <2>2 DEF DropFields, KernelInv, Interface
  <2> QED BY <1>4, <2>1, <2>2 DEF DropFields, DropFd
<1>5. ASSUME IntoRawFd PROVE Goal
  <2>1. KernelInv'
    BY <1>5 DEF IntoRawFd, KernelInv, Interface
  <2>2. UnitInv'
    BY <1>5 DEF IntoRawFd
  <2> QED BY <1>5, <2>1, <2>2 DEF IntoRawFd
<1>6. ASSUME FromFd PROVE Goal
  <2>1. KernelInv'
    BY <1>6 DEF FromFd, KernelInv, Interface
  <2>2. UnitInv'
    BY <1>6 DEF FromFd
  <2> QED BY <1>6, <2>1, <2>2 DEF FromFd
<1>7. ASSUME CallerCloses PROVE Goal
  <2>1. KernelInv'
    BY <1>7, CloseKernel DEF CallerCloses
  <2>2. UnitInv'
    BY <1>7 DEF CallerCloses, Close, Closed
  <2>3. dev.phase # "ready"
    BY <1>7 DEF CallerCloses
  <2> QED BY <1>7, <2>1, <2>2, <2>3 DEF CallerCloses
<1> QED BY <1>1, <1>2, <1>3, <1>4, <1>5, <1>6, <1>7 DEF Ending

(* Other files of the process. *)
LEMMA FilesKernel ==
  ASSUME IInv, KernelInv, UnitInv, FileOpens \/ FileCloses
  PROVE  KernelInv' /\ UnitInv' /\ UNCHANGED <<os, ifs, dev, th>>
<1> USE DEF IInv, TableInv, PhaseInv, DescriptorOwned, NoDev, Phases, InFd, InDrop, OwnTun,
            UnitInv
<1>1. ASSUME FileOpens PROVE KernelInv' /\ UnitInv' /\ UNCHANGED <<os, ifs, dev, th>>
  <2>1. NextFd \in FdNo /\ fds[NextFd] = Closed
    BY <1>1, NextFdFree DEF FileOpens
  <2>2. KernelInv'
    BY <1>1 DEF FileOpens, KernelInv, Interface
  <2>3. UnitInv'
    BY <1>1, <2>1 DEF FileOpens, Closed
  <2> QED BY <1>1, <2>2, <2>3 DEF FileOpens
<1>2. ASSUME FileCloses PROVE KernelInv' /\ UnitInv' /\ UNCHANGED <<os, ifs, dev, th>>
  <2>1. PICK f \in files : Close(f) /\ files' = files \ {f}
    BY <1>2 DEF FileCloses
  <2>2. ifs' = ifs
    BY <2>1 DEF Close, IfsAfterClose
  <2>3. KernelInv'
    BY <1>2, <2>2 DEF FileCloses, KernelInv, Interface
  <2>4. UnitInv'
    BY <1>2, <2>1 DEF FileCloses, Close, Closed
  <2> QED BY <1>2, <2>2, <2>3, <2>4 DEF FileCloses
<1> QED BY <1>1, <1>2

-----------------------------------------------------------------------------
(* Scripts. *)

(* What comes in front in x \o y is x, and behind it comes y.               *)
LEMMA ConcatType ==
  ASSUME NEW S, NEW x \in Seq(S), NEW y \in Seq(S)
  PROVE  /\ x \o y \in Seq(S) /\ Len(x \o y) = Len(x) + Len(y)
         /\ Len(x) \in Nat /\ Len(y) \in Nat
OBVIOUS

LEMMA ConcatFront ==
  ASSUME NEW S, NEW x \in Seq(S), NEW y \in Seq(S), NEW k \in 1..Len(x)
  PROVE  (x \o y)[k] = x[k]
OBVIOUS

LEMMA ConcatBack ==
  ASSUME NEW S, NEW x \in Seq(S), NEW y \in Seq(S), NEW k \in 1..Len(y)
  PROVE  (x \o y)[Len(x) + k] = y[k]
<1>1. Len(x) + k \in Len(x) + 1..Len(x) + Len(y) /\ (Len(x) + k) - Len(x) = k
  OBVIOUS
<1> QED BY <1>1

LEMMA Pair ==
  ASSUME NEW S, NEW a \in S, NEW b \in S
  PROVE  /\ <<a>> \o <<b>> \in Seq(S) /\ Len(<<a>> \o <<b>>) = 2
         /\ (<<a>> \o <<b>>)[1] = a /\ (<<a>> \o <<b>>)[2] = b
<1>1. <<a>> \in Seq(S) /\ Len(<<a>>) = 1 /\ <<a>>[1] = a
  OBVIOUS
<1>2. <<b>> \in Seq(S) /\ Len(<<b>>) = 1 /\ <<b>>[1] = b
  OBVIOUS
<1>3. 1 \in 1..Len(<<a>>) /\ 1 \in 1..Len(<<b>>) /\ Len(<<a>>) + 1 = 2
  BY <1>1, <1>2
<1> QED BY <1>1, <1>2, <1>3, InConcat

LEMMA AddAddressScript ==
  ASSUME NEW o \in V4Op, NEW a
  PROVE  /\ add_address(o, a) \in Seq(Calls(o))
         /\ Len(add_address(o, a)) = (IF a THEN 3 ELSE 2)
         /\ add_address(o, a)[1] = C("name")
         /\ add_address(o, a)[2] = On("siocaifaddr", Entry(o))
         /\ a => add_address(o, a)[3] = On("route_add", Entry(o))
<1> DEFINE e == Entry(o)
           S == Calls(o)
           x == <<C("name")>> \o <<On("siocaifaddr", e)>>
           y == add_route(e, a)
<1>1. C("name") \in S /\ On("siocaifaddr", e) \in S /\ On("route_add", e) \in S
  BY DEF Calls, Reads, V4Op, GivesV4, IsRead
<1>2. add_address(o, a) = x \o y
  BY DEF add_address, name_impl
<1>3. y = IF a THEN <<On("route_add", e)>> ELSE <<>>
  BY DEF add_route
<1> HIDE DEF e, S, y
<1>4. x \in Seq(S) /\ Len(x) = 2 /\ x[1] = C("name") /\ x[2] = On("siocaifaddr", e)
  BY <1>1, Pair
<1>5. y \in Seq(S) /\ Len(y) = (IF a THEN 1 ELSE 0) /\ (a => y[1] = On("route_add", e))
  BY <1>1, <1>3
<1> HIDE DEF x
<1>6. /\ x \o y \in Seq(S) /\ Len(x \o y) = Len(x) + Len(y)
      /\ \A k \in 1..Len(x) : (x \o y)[k] = x[k]
      /\ \A k \in 1..Len(y) : (x \o y)[Len(x) + k] = y[k]
  <2>1. \A k \in 1..Len(x) : (x \o y)[k] = x[k]
    BY <1>4, <1>5, ConcatFront
  <2>2. \A k \in 1..Len(y) : (x \o y)[Len(x) + k] = y[k]
    BY <1>4, <1>5, ConcatBack
  <2> QED BY <1>4, <1>5, <2>1, <2>2, ConcatType
<1>7. a => (x \o y)[2 + 1] = y[1]
  BY <1>4, <1>5, <1>6
<1>8. (x \o y)[1] = x[1] /\ (x \o y)[2] = x[2]
  BY <1>4, <1>6
<1> QED BY <1>2, <1>4, <1>5, <1>6, <1>7, <1>8 DEF e, S

Names == IF os = "freebsd" THEN 1 ELSE 2

LEMMA RemoveAllScript ==
  ASSUME NEW o, ~IsRead(o)
  PROVE  /\ remove_all_address_v4 \in Seq(Calls(o))
         /\ Len(remove_all_address_v4) = Names + 1
         /\ \A k \in 1..Names : remove_all_address_v4[k] = C("name")
         /\ remove_all_address_v4[Names + 1] = C(Removal)
<1> DEFINE S == Calls(o)
<1>1. C("name") \in S /\ C("siocdifaddr_loop") \in S /\ C("list_all") \in S
  BY DEF Calls, Reads
<1> HIDE DEF S
<1>2. CASE os = "freebsd"
  <2>1. remove_all_address_v4 = <<C("name")>> \o <<C("siocdifaddr_loop")>>
    BY <1>2 DEF remove_all_address_v4, request, name_impl
  <2>2. Names = 1 /\ Removal = "siocdifaddr_loop"
    BY <1>2 DEF Names, Removal
  <2> QED BY <1>1, <2>1, <2>2, Pair DEF S
<1>3. CASE os # "freebsd"
  <2> DEFINE x == <<C("name")>>
             y == <<C("name")>> \o <<C("list_all")>>
  <2>1. remove_all_address_v4 = x \o y
    BY <1>3 DEF remove_all_address_v4, request, name_impl
  <2>2. Names = 2 /\ Removal = "list_all"
    BY <1>3 DEF Names, Removal
  <2>3. x \in Seq(S) /\ Len(x) = 1 /\ x[1] = C("name")
    BY <1>1
  <2>4. y \in Seq(S) /\ Len(y) = 2 /\ y[1] = C("name") /\ y[2] = C("list_all")
    BY <1>1, Pair
  <2> HIDE DEF x, y
  <2>5. /\ x \o y \in Seq(S) /\ Len(x \o y) = Len(x) + Len(y)
        /\ \A k \in 1..Len(x) : (x \o y)[k] = x[k]
        /\ \A k \in 1..Len(y) : (x \o y)[Len(x) + k] = y[k]
    <3>1. \A k \in 1..Len(x) : (x \o y)[k] = x[k]
      BY <2>3, <2>4, ConcatFront
    <3>2. \A k \in 1..Len(y) : (x \o y)[Len(x) + k] = y[k]
      <4>1. x \in Seq(S) /\ y \in Seq(S)
        BY <2>3, <2>4
      <4> QED BY <4>1, ConcatBack
    <3> QED BY <2>3, <2>4, <3>1, <3>2, ConcatType
  <2>6. (x \o y)[1 + 1] = y[1] /\ (x \o y)[1 + 2] = y[2] /\ (x \o y)[1] = x[1]
    BY <2>3, <2>4, <2>5
  <2> QED BY <2>1, <2>2, <2>3, <2>4, <2>5, <2>6 DEF S
<1> QED BY <1>2, <1>3

LEMMA SetNetworkScript ==
  ASSUME NEW o \in V4Op, NEW a
  PROVE  LET s == set_network_address(o, a) IN
         /\ s \in Seq(Calls(o))
         /\ Len(s) = Names + 1 + (IF a THEN 3 ELSE 2)
         /\ \A k \in 1..Names : s[k] = C("name")
         /\ s[Names + 1] = C(Removal)
         /\ s[Names + 2] = C("name")
         /\ s[Names + 3] = On("siocaifaddr", Entry(o))
         /\ a => s[Names + 4] = On("route_add", Entry(o))
<1> DEFINE x == remove_all_address_v4
           y == add_address(o, a)
           S == Calls(o)
<1>0. set_network_address(o, a) = x \o y
  BY DEF set_network_address
<1>1. Names \in 1..2
  BY DEF Names
<1>2. /\ x \in Seq(S) /\ Len(x) = Names + 1
      /\ \A k \in 1..Names : x[k] = C("name")
      /\ x[Names + 1] = C(Removal)
  BY RemoveAllScript DEF V4Op, GivesV4, IsRead
<1>3. /\ y \in Seq(S) /\ Len(y) = (IF a THEN 3 ELSE 2)
      /\ y[1] = C("name") /\ y[2] = On("siocaifaddr", Entry(o))
      /\ a => y[3] = On("route_add", Entry(o))
  BY AddAddressScript
<1> HIDE DEF x, y, S
<1>4. /\ x \o y \in Seq(S) /\ Len(x \o y) = Len(x) + Len(y)
      /\ \A k \in 1..Len(x) : (x \o y)[k] = x[k]
      /\ \A k \in 1..Len(y) : (x \o y)[Len(x) + k] = y[k]
  <2>1. \A k \in 1..Len(x) : (x \o y)[k] = x[k]
    BY <1>2, <1>3, ConcatFront
  <2>2. \A k \in 1..Len(y) : (x \o y)[Len(x) + k] = y[k]
    BY <1>2, <1>3, ConcatBack
  <2> QED BY <1>2, <1>3, <2>1, <2>2, ConcatType
<1>5. /\ Len(x) + 1 = Names + 2 /\ Len(x) + 2 = Names + 3 /\ Len(x) + 3 = Names + 4
      /\ 1 \in 1..Len(y) /\ 2 \in 1..Len(y) /\ (a => 3 \in 1..Len(y))
  BY <1>1, <1>2, <1>3
<1>6. /\ (x \o y)[Names + 2] = y[1] /\ (x \o y)[Names + 3] = y[2]
      /\ (a => (x \o y)[Names + 4] = y[3])
  BY <1>4, <1>5
<1>7. /\ \A k \in 1..Names : (x \o y)[k] = C("name")
      /\ (x \o y)[Names + 1] = C(Removal)
  BY <1>1, <1>2, <1>4
<1> QED BY <1>0, <1>2, <1>3, <1>4, <1>6, <1>7 DEF S

(* Every script consists of the calls of its operation.                    *)
LEMMA ScriptCalls ==
  ASSUME NEW o \in Op, ~Refused(o), NEW a
  PROVE  Script(o, a) \in Seq(Calls(o)) /\ Script(o, a) # <<>>
<1> DEFINE S == Calls(o)
<1>0. C("name") \in S
  BY DEF Calls, Reads
<1>1. ASSUME GivesV4(o) PROVE o \in V4Op
  BY <1>1 DEF Refused, V4Op
<1>2. CASE o.kind = "set_network_address"
  <2>1. o \in V4Op /\ Script(o, a) = set_network_address(o, a)
    BY <1>1, <1>2 DEF GivesV4, Script
  <2>2. Names \in 1..2
    BY DEF Names
  <2>3. Script(o, a) \in Seq(S) /\ Len(Script(o, a)) = Names + 1 + (IF a THEN 3 ELSE 2)
    BY <2>1, SetNetworkScript
  <2>4. Len(Script(o, a)) # 0
    BY <2>2, <2>3
  <2> QED BY <2>3, <2>4
<1>3. CASE o.kind = "add_address_v4"
  <2>1. o \in V4Op /\ Script(o, a) = add_address(o, a)
    BY <1>1, <1>3 DEF GivesV4, Script, add_address_v4
  <2>2. Script(o, a) \in Seq(S) /\ Len(Script(o, a)) = (IF a THEN 3 ELSE 2)
    BY <2>1, AddAddressScript
  <2> HIDE DEF S
  <2>3. Len(Script(o, a)) # 0
    BY <2>2
  <2>4. Script(o, a) # <<>>
    BY <2>3
  <2> QED BY <2>2, <2>4 DEF S
<1>4. CASE o.kind = "remove_address"
  <2> DEFINE x == <<C("name")>> \o <<On("siocdifaddr", [addr |-> o.addr])>>
             y == IF os = "macos" THEN <<C("name")>> \o <<C("list_matching")>> ELSE <<>>
  <2>1. Script(o, a) = x \o y
    BY <1>4 DEF Script, remove_address, request, name_impl
  <2>2. On("siocdifaddr", [addr |-> o.addr]) \in S /\ C("list_matching") \in S
    BY <1>4 DEF Calls, IsRead
  <2> HIDE DEF S
  <2>3. x \in Seq(S) /\ Len(x) = 2
    BY <1>0, <2>2, Pair
  <2>4. y \in Seq(S)
    BY <1>0, <2>2, Pair
  <2> HIDE DEF x, y
  <2>5. x \o y \in Seq(S) /\ Len(x \o y) = Len(x) + Len(y) /\ Len(y) \in Nat
    BY <2>3, <2>4, ConcatType
  <2>6. x \o y # <<>>
    BY <2>3, <2>5
  <2> QED BY <2>1, <2>5, <2>6 DEF S
<1>5. ASSUME NEW n, C(n) \in S, Script(o, a) = <<C("name")>> \o <<C(n)>>
      PROVE  Script(o, a) \in Seq(S) /\ Script(o, a) # <<>>
  <2> HIDE DEF S
  <2>1. Script(o, a) \in Seq(S) /\ Len(Script(o, a)) = 2
    BY <1>0, <1>5, Pair
  <2> QED BY <2>1
<1>6. CASE o.kind = "add_address_v6"
  <2>1. C("siocaifaddr_in6") \in S /\ Script(o, a) = <<C("name")>> \o <<C("siocaifaddr_in6")>>
    BY <1>6 DEF Calls, IsRead, Script, add_address_v6, name_impl
  <2> QED BY <1>5, <2>1
<1>7. CASE o.kind = "remove_address_v6"
  <2>1. C("siocdifaddr_in6") \in S /\ Script(o, a) = <<C("name")>> \o <<C("siocdifaddr_in6")>>
    BY <1>7 DEF Calls, IsRead, Script, remove_address_v6, request_v6, name_impl
  <2> QED BY <1>5, <2>1
<1>8. CASE o.kind = "enabled"
  <2> DEFINE x == <<C("name")>>
             y == <<C("siocgifflags"), C("siocsifflags")>>
  <2>1. C("siocgifflags") \in S /\ C("siocsifflags") \in S /\ Script(o, a) = x \o y
    BY <1>8 DEF Calls, IsRead, Script, enabled, request, name_impl
  <2> HIDE DEF S
  <2>2. x \in Seq(S) /\ Len(x) = 1 /\ y \in Seq(S) /\ Len(y) = 2
    BY <1>0, <2>1
  <2> HIDE DEF x, y
  <2>3. x \o y \in Seq(S) /\ Len(x \o y) = Len(x) + Len(y)
    BY <2>2, ConcatType
  <2>4. x \o y # <<>>
    BY <2>2, <2>3
  <2> QED BY <2>1, <2>3, <2>4 DEF S
<1>9. CASE o.kind = "set_mtu"
  <2>1. C("siocsifmtu") \in S /\ Script(o, a) = <<C("name")>> \o <<C("siocsifmtu")>>
    BY <1>9 DEF Calls, IsRead, Script, set_mtu, request, name_impl
  <2> QED BY <1>5, <2>1
<1>10. CASE o.kind = "mtu"
  <2>1. C("siocgifmtu") \in S /\ Script(o, a) = <<C("name")>> \o <<C("siocgifmtu")>>
    BY <1>10 DEF Calls, Reads, IsRead, Script, mtu, request, name_impl
  <2> QED BY <1>5, <2>1
<1>11. CASE o.kind = "set_name"
  <2>1. C("siocsifname") \in S /\ Script(o, a) = <<C("name")>> \o <<C("siocsifname")>>
    BY <1>11 DEF Calls, IsRead, Script, set_name, request, name_impl
  <2> QED BY <1>5, <2>1
<1>12. CASE o.kind = "name"
  <2>1. Script(o, a) = <<C("name")>>
    BY <1>12 DEF Script, name_impl
  <2> HIDE DEF S
  <2> QED BY <1>0, <2>1 DEF S
<1>13. CASE o.kind = "enable_tunsifhead"
  <2>1. C("sioctunsifhead") \in S /\ Script(o, a) = <<C("sioctunsifhead")>>
    BY <1>13 DEF Calls, IsRead, Script
  <2> HIDE DEF S
  <2> QED BY <2>1 DEF S
<1>14. CASE o.kind = "set_associate_route"
  <2>1. C("store") \in S /\ Script(o, a) = <<C("store")>>
    BY <1>14 DEF Calls, IsRead, Script
  <2> HIDE DEF S
  <2> QED BY <2>1 DEF S
<1> QED BY <1>2, <1>3, <1>4, <1>6, <1>7, <1>8, <1>9, <1>10, <1>11, <1>12, <1>13, <1>14,
           OpAssumption DEF Kind

-----------------------------------------------------------------------------
(* Threads. *)

(* Steps that no operation is about.                                       *)
LEMMA AllIdleThreads ==
  ASSUME ThreadInv, AllIdle, th' = th PROVE ThreadInv' /\ LockInv' /\ NetworkInv'
<1>1. \A t \in Thread : Idle(t)'
  BY DEF AllIdle, Idle
<1>2. ThreadInv'
  BY <1>1 DEF ThreadInv, Idle
<1>3. LockInv'
  BY <1>1 DEF LockInv
<1>4. \A t \in Thread : th'[t].op.kind = "none"
  BY <1>1 DEF Idle, NoOp
<1> QED BY <1>2, <1>3, <1>4 DEF NetworkInv

LEMMA QuietStep ==
  ASSUME ThreadInv, AllIdle \/ dev.phase # "ready", th' = th
  PROVE  ThreadInv' /\ LockInv' /\ NetworkInv'
<1>1. AllIdle
  BY DEF ThreadInv, Running, AllIdle
<1> QED BY <1>1, AllIdleThreads

LEMMA FrameStep ==
  ASSUME ThreadInv, LockInv, NetworkInv, UNCHANGED <<os, ifs, dev, th>>
  PROVE  ThreadInv' /\ LockInv' /\ NetworkInv'
<1>1. \A t \in Thread : Idle(t)' = Idle(t)
  BY DEF Idle
<1>2. \A t \in Thread : Running(t)' = Running(t)
  BY DEF Running, Offered
<1>3. \A t \in Thread : Stale(t)' = Stale(t)
  BY DEF Stale
<1>4. \A t \in Thread : \A n : Ahead(t, n)' = Ahead(t, n)
  BY DEF Ahead
<1>5. \A t \in Thread : Removing(t)' = Removing(t)
  BY <1>4 DEF Removing, RemovingAt, Removal, Present
<1>6. \A t \in Thread : Deleting(t)' = Deleting(t)
  BY <1>3, <1>4 DEF Deleting, DeletingAt, Present
<1>7. \A t \in Thread : Adding(t)' = Adding(t) /\ Added(t)' = Added(t)
  BY <1>3 DEF Adding, Added, Present
<1>8. ThreadInv'
  BY <1>1, <1>2 DEF ThreadInv
<1>9. LockInv'
  BY <1>1 DEF LockInv
<1>10. NetworkInv'
  BY <1>5, <1>6, <1>7 DEF NetworkInv, Network
<1> QED BY <1>8, <1>9, <1>10

ThreadFields == {"op", "todo", "req", "assoc", "had", "warned", "ok"}

(* One thread goes on with its operation, or is done with it.              *)
LEMMA ThreadStep ==
  ASSUME ThreadInv, LockInv, NEW t \in Thread, ~Idle(t), NEW x, DOMAIN x = ThreadFields,
         th' = [th EXCEPT ![t] = x], os' = os,
         dev'.phase = dev.phase, dev'.unit = dev.unit,
         \/ x.op = NoOp
         \/ /\ x.op = th[t].op /\ x.todo \in Seq(Calls(th[t].op)) /\ x.todo # <<>>
            /\ x.req \in {None, dev.unit}
  PROVE  ThreadInv' /\ LockInv'
<1>1. DOMAIN th' = Thread /\ th'[t] = x /\ \A u \in Thread : u # t => th'[u] = th[u]
  BY DEF ThreadInv
<1>2. Running(t)
  BY DEF ThreadInv
<1>3. ASSUME NEW u \in Thread
      PROVE  DOMAIN th'[u] = ThreadFields /\ (Idle(u)' \/ Running(u)')
  <2>1. CASE u = t
    BY <1>1, <1>2, <2>1 DEF Idle, Running, Offered
  <2>2. CASE u # t
    BY <1>1, <2>2 DEF ThreadInv, ThreadFields, Idle, Running, Offered
  <2> QED BY <2>1, <2>2
<1>4. ThreadInv'
  BY <1>1, <1>3 DEF ThreadInv, ThreadFields
<1>5. LockInv'
  <2>1. \A u \in Thread : Idle(u)' \/ (~Idle(u) /\ th'[u].op = th[u].op)
    BY <1>1 DEF Idle
  <2>2. \A u \in Thread : Idle(u) => Idle(u)'
    BY <1>1 DEF Idle
  <2> QED BY <2>1, <2>2 DEF LockInv
<1> QED BY <1>4, <1>5

(* What Continue gives: the end of the operation, or more calls of it.     *)
LEMMA Continued ==
  ASSUME NEW t, Running(t), DOMAIN th[t] = ThreadFields,
         NEW more \in Seq(Calls(th[t].op))
  PROVE  /\ DOMAIN Continue(t, more) = ThreadFields
         /\ \/ /\ Continue(t, more) = [IdleThread EXCEPT !.ok = TRUE]
               /\ more \o Tail(th[t].todo) = <<>>
            \/ /\ Continue(t, more) = [th[t] EXCEPT !.todo = more \o Tail(th[t].todo)]
               /\ more \o Tail(th[t].todo) \in Seq(Calls(th[t].op))
               /\ more \o Tail(th[t].todo) # <<>>
<1> DEFINE S == Calls(th[t].op)
           rest == more \o Tail(th[t].todo)
<1>1. th[t].todo \in Seq(S) /\ th[t].todo # <<>>
  BY DEF Running
<1> HIDE DEF S
<1>2. Tail(th[t].todo) \in Seq(S)
  BY <1>1, TailOf
<1>3. rest \in Seq(S)
  BY <1>2, ConcatType DEF S
<1>4. Continue(t, more) = IF rest = <<>> THEN [IdleThread EXCEPT !.ok = TRUE]
                          ELSE [th[t] EXCEPT !.todo = rest]
  BY DEF Continue
<1> HIDE DEF rest
<1>5. CASE rest = <<>>
  BY <1>4, <1>5 DEF IdleThread, ThreadFields, rest
<1>6. CASE rest # <<>>
  BY <1>3, <1>4, <1>6 DEF ThreadFields, rest, S
<1> QED BY <1>5, <1>6

(* Without more calls: those that are left.                                *)
LEMMA Continued0 ==
  ASSUME NEW t, Running(t), DOMAIN th[t] = ThreadFields
  PROVE  LET x == Continue(t, <<>>) IN
         /\ DOMAIN x = ThreadFields
         /\ \/ x = [IdleThread EXCEPT !.ok = TRUE] /\ Len(th[t].todo) = 1
            \/ /\ x = [th[t] EXCEPT !.todo = Tail(th[t].todo)]
               /\ Tail(th[t].todo) \in Seq(Calls(th[t].op)) /\ Tail(th[t].todo) # <<>>
               /\ Len(th[t].todo) > 1
<1> DEFINE S == Calls(th[t].op)
           rest == Tail(th[t].todo)
<1>1. th[t].todo \in Seq(S) /\ th[t].todo # <<>>
  BY DEF Running
<1> HIDE DEF S
<1>2. /\ rest \in Seq(S) /\ Len(th[t].todo) \in Nat /\ Len(th[t].todo) >= 1
      /\ Len(rest) = Len(th[t].todo) - 1
  BY <1>1, TailOf
<1> HIDE DEF rest
<1>3. <<>> \o rest = rest
  BY <1>2
<1>4. Continue(t, <<>>) = IF rest = <<>> THEN [IdleThread EXCEPT !.ok = TRUE]
                          ELSE [th[t] EXCEPT !.todo = rest]
  BY <1>3 DEF Continue, rest
<1>5. CASE rest = <<>>
  <2>1. Len(th[t].todo) = 1
    BY <1>2, <1>5
  <2>2. Continue(t, <<>>) = [IdleThread EXCEPT !.ok = TRUE]
    BY <1>4, <1>5
  <2> QED BY <2>1, <2>2 DEF IdleThread, ThreadFields
<1>6. CASE rest # <<>>
  <2>1. Len(th[t].todo) > 1
    BY <1>2, <1>6
  <2>2. Continue(t, <<>>) = [th[t] EXCEPT !.todo = rest]
    BY <1>4, <1>6
  <2> QED BY <1>2, <1>6, <2>1, <2>2 DEF ThreadFields, rest, S
<1> QED BY <1>5, <1>6

(* A call may be made while op_lock allows it.                             *)
LEMMA CallThreads ==
  ASSUME ThreadInv, LockInv, NEW t \in Thread, NEW o \in Op, Call(t, o)
  PROVE  ThreadInv' /\ LockInv'
<1>0. /\ dev.phase = "ready" /\ Idle(t) /\ Offered(o) /\ MayLock(t, o)
      /\ UNCHANGED <<os, ifs, dev>>
  BY DEF Call
<1> DEFINE x == IF Refused(o) THEN IdleThread
              ELSE [IdleThread EXCEPT !.op = o, !.todo = Script(o, dev.associate_route),
                                      !.assoc = dev.associate_route,
                                      !.had = ToSet(ifs[dev.unit].v4)]
<1>1. DOMAIN th' = Thread /\ th'[t] = x /\ \A u \in Thread : u # t => th'[u] = th[u]
  BY DEF ThreadInv, Call
<1>2. DOMAIN x = ThreadFields
  BY DEF IdleThread, ThreadFields
<1>3. \/ Refused(o) /\ x.op = NoOp
      \/ /\ ~Refused(o)
         /\ x.op = o /\ x.todo = Script(o, dev.associate_route) /\ x.req = None
  BY DEF IdleThread
<1> HIDE DEF x
<1>4. ASSUME NEW u \in Thread
      PROVE  DOMAIN th'[u] = ThreadFields /\ (Idle(u)' \/ Running(u)')
  <2>1. CASE u = t /\ Refused(o)
    BY <1>1, <1>2, <1>3, <2>1 DEF Idle
  <2>2. CASE u = t /\ ~Refused(o)
    BY <1>0, <1>1, <1>2, <1>3, <2>2, ScriptCalls DEF Running, Offered
  <2>3. CASE u # t
    BY <1>0, <1>1, <2>3 DEF ThreadInv, ThreadFields, Idle, Running, Offered
  <2> QED BY <2>1, <2>2, <2>3
<1>5. ThreadInv'
  BY <1>1, <1>4 DEF ThreadInv, ThreadFields
<1>6. LockInv'
  <2>1. Idle(t)' \/ th'[t].op = o
    BY <1>1, <1>3 DEF Idle
  <2>2. \A u \in Thread : u # t => Idle(u)' = Idle(u) /\ th'[u].op = th[u].op
    BY <1>1 DEF Idle
  <2> QED BY <1>0, <2>1, <2>2 DEF LockInv, MayLock
<1> QED BY <1>5, <1>6

-----------------------------------------------------------------------------
(* The steps of an operation. *)

LEMMA KernelFrame ==
  ASSUME KernelInv, UNCHANGED <<os, ifs>> PROVE KernelInv'
BY DEF KernelInv, Interface

(* An operation is always about the interface of its own device.           *)
LEMMA TargetIs ==
  ASSUME KernelInv, UnitInv, ThreadInv, NEW t \in Thread, ~Idle(t), NEW u \in Target(t)
  PROVE  u = dev.unit /\ u \in Unit /\ Present(u) /\ th[t].req = u
<1>1. Running(t)
  BY DEF ThreadInv
<1>2. dev.unit \in Unit /\ th[t].req \in {None, dev.unit}
  BY <1>1 DEF Running, UnitInv
<1>3. u \in Unit /\ Present(u) /\ ifs[u].name = th[t].req
  BY DEF Target, Named
<1>4. th[t].req = dev.unit
  BY <1>2, <1>3 DEF Present
<1> QED BY <1>2, <1>3, <1>4 DEF KernelInv

LEMMA TargetFound ==
  ASSUME UnitInv, ThreadInv, KernelInv, NEW t \in Thread, ~Idle(t), Present(dev.unit),
         th[t].req = dev.unit, os = "macos"
  PROVE  dev.unit \in Target(t)
<1>1. dev.unit \in Unit
  BY DEF ThreadInv, Running, UnitInv
<1>2. ifs[dev.unit].name = dev.unit
  BY <1>1 DEF KernelInv, Present
<1> QED BY <1>1, <1>2 DEF Target, Named

LEMMA NowIs ==
  ASSUME ThreadInv, NEW t \in Thread, ~Idle(t)
  PROVE  /\ Running(t) /\ DOMAIN th[t] = ThreadFields /\ th[t].op \in Op
         /\ dev.phase = "ready"
         /\ Now(t) = th[t].todo[1] /\ Now(t) \in Calls(th[t].op)
<1>1. Running(t) /\ DOMAIN th[t] = ThreadFields
  BY DEF ThreadInv, ThreadFields
<1>2. th[t].todo \in Seq(Calls(th[t].op)) /\ th[t].todo # <<>>
  BY <1>1 DEF Running
<1>3. Head(th[t].todo) = th[t].todo[1] /\ th[t].todo[1] \in Calls(th[t].op)
  BY <1>2, TailOf
<1> QED BY <1>1, <1>3 DEF Now, Running

(* An operation goes on as the same one, or is over.                       *)
Onward(t) ==
  \/ th'[t].op = NoOp
  \/ /\ th'[t].op = th[t].op /\ th'[t].had = th[t].had
     /\ th[t].warned => th'[t].warned

(* Threads after the next call of an operation: its end, or those left.    *)
LEMMA AdvanceStep ==
  ASSUME ThreadInv, LockInv, NEW t \in Thread, ~Idle(t), Advance(t), os' = os,
         dev'.phase = dev.phase, dev'.unit = dev.unit
  PROVE  /\ ThreadInv' /\ LockInv' /\ Onward(t)
         /\ \A u \in Thread : u # t => th'[u] = th[u]
         /\ \/ th'[t] = [IdleThread EXCEPT !.ok = TRUE] /\ Len(th[t].todo) = 1
            \/ /\ th'[t] = [th[t] EXCEPT !.todo = Tail(th[t].todo)]
               /\ Len(th[t].todo) > 1
<1> DEFINE x == Continue(t, <<>>)
<1>1. th' = [th EXCEPT ![t] = x]
  BY DEF Advance
<1>2. Running(t) /\ DOMAIN th[t] = ThreadFields
  BY NowIs
<1>3. /\ DOMAIN x = ThreadFields
      /\ \/ x = [IdleThread EXCEPT !.ok = TRUE] /\ Len(th[t].todo) = 1
         \/ /\ x = [th[t] EXCEPT !.todo = Tail(th[t].todo)]
            /\ Tail(th[t].todo) \in Seq(Calls(th[t].op)) /\ Tail(th[t].todo) # <<>>
            /\ Len(th[t].todo) > 1
  BY <1>2, Continued0
<1> HIDE DEF x
<1>4. \/ x.op = NoOp
      \/ /\ x.op = th[t].op /\ x.todo \in Seq(Calls(th[t].op)) /\ x.todo # <<>>
         /\ x.req \in {None, dev.unit}
         /\ x.had = th[t].had /\ x.warned = th[t].warned
  <2>1. CASE x = [IdleThread EXCEPT !.ok = TRUE]
    BY <2>1 DEF IdleThread
  <2>2. CASE x = [th[t] EXCEPT !.todo = Tail(th[t].todo)]
    BY <1>2, <1>3, <2>2 DEF Running, ThreadFields, IdleThread
  <2> QED BY <1>3, <2>1, <2>2
<1>5. ThreadInv' /\ LockInv'
  BY <1>1, <1>3, <1>4, ThreadStep
<1>6. th'[t] = x /\ \A u \in Thread : u # t => th'[u] = th[u]
  BY <1>1 DEF ThreadInv
<1>7. Onward(t)
  BY <1>4, <1>6 DEF Onward
<1> QED BY <1>3, <1>5, <1>6, <1>7

(* Name: the same, and the interface is the one of the device.             *)
LEMMA NameStep ==
  ASSUME KernelInv, UnitInv, ThreadInv, LockInv, NEW t \in Thread, Name(t)
  PROVE  /\ ThreadInv' /\ LockInv' /\ Onward(t)
         /\ \A u \in Thread : u # t => th'[u] = th[u]
         /\ \/ th'[t].op = NoOp /\ Len(th[t].todo) = 1
            \/ /\ th'[t] = [th[t] EXCEPT !.todo = Tail(th[t].todo), !.req = th'[t].req]
               /\ os = "macos" /\ Present(dev.unit) => th'[t].req = dev.unit
               /\ Len(th[t].todo) > 1
<1>0. ~Idle(t) /\ UNCHANGED <<os, dev>>
  BY DEF Name, At
<1> DEFINE y == Continue(t, <<>>)
           n == IF os = "freebsd" THEN dev.unit ELSE ifs[dev.unit].name
           x == [y EXCEPT !.req = n]
<1>1. th' = [th EXCEPT ![t] = x]
  BY DEF Name
<1>2. Running(t) /\ DOMAIN th[t] = ThreadFields /\ dev.phase = "ready"
  BY <1>0, NowIs
<1>3. dev.unit \in Unit
  BY <1>2 DEF UnitInv
<1>4. n \in {None, dev.unit} /\ (os = "macos" /\ Present(dev.unit) => n = dev.unit)
  BY <1>3 DEF KernelInv, Present
<1>5. /\ DOMAIN y = ThreadFields
      /\ \/ y = [IdleThread EXCEPT !.ok = TRUE] /\ Len(th[t].todo) = 1
         \/ /\ y = [th[t] EXCEPT !.todo = Tail(th[t].todo)]
            /\ Tail(th[t].todo) \in Seq(Calls(th[t].op)) /\ Tail(th[t].todo) # <<>>
            /\ Len(th[t].todo) > 1
  BY <1>2, Continued0
<1> HIDE DEF n, y
<1>6. DOMAIN x = ThreadFields
  BY <1>5
<1>7. \/ x.op = NoOp /\ Len(th[t].todo) = 1
      \/ /\ x = [th[t] EXCEPT !.todo = Tail(th[t].todo), !.req = n]
         /\ x.op = th[t].op /\ x.todo = Tail(th[t].todo) /\ x.req = n
         /\ x.had = th[t].had /\ x.warned = th[t].warned
         /\ Tail(th[t].todo) \in Seq(Calls(th[t].op)) /\ Tail(th[t].todo) # <<>>
         /\ Len(th[t].todo) > 1
  <2>1. CASE y = [IdleThread EXCEPT !.ok = TRUE] /\ Len(th[t].todo) = 1
    BY <2>1 DEF IdleThread
  <2>2. CASE /\ y = [th[t] EXCEPT !.todo = Tail(th[t].todo)]
             /\ Tail(th[t].todo) \in Seq(Calls(th[t].op)) /\ Tail(th[t].todo) # <<>>
             /\ Len(th[t].todo) > 1
    BY <1>2, <2>2 DEF ThreadFields
  <2> QED BY <1>5, <2>1, <2>2
<1> HIDE DEF x
<1>8. ThreadInv' /\ LockInv'
  BY <1>0, <1>1, <1>4, <1>6, <1>7, ThreadStep
<1>9. th'[t] = x /\ \A u \in Thread : u # t => th'[u] = th[u]
  BY <1>1 DEF ThreadInv
<1>10. Onward(t)
  BY <1>7, <1>9 DEF Onward
<1> QED BY <1>4, <1>7, <1>8, <1>9, <1>10

(* A list or a route that cannot be had is only logged.                    *)
LEMMA WarnedStep ==
  ASSUME ThreadInv, LockInv, NEW t \in Thread, ListFails(t) \/ RouteFails(t)
  PROVE  /\ ThreadInv' /\ LockInv' /\ ~Idle(t) /\ UNCHANGED <<os, ifs, fds, dev, raw>>
         /\ th'[t].warned /\ \A u \in Thread : u # t => th'[u] = th[u]
         /\ th'[t].op = NoOp \/ (th'[t].op = th[t].op /\ th'[t].had = th[t].had)
<1>0. ~Idle(t) /\ UNCHANGED <<os, ifs, fds, dev, raw>>
  BY DEF ListFails, RouteFails, At
<1> DEFINE y == Continue(t, <<>>)
           x == [y EXCEPT !.warned = TRUE]
<1>1. th' = [th EXCEPT ![t] = x]
  BY DEF ListFails, RouteFails
<1>2. Running(t) /\ DOMAIN th[t] = ThreadFields
  BY <1>0, NowIs
<1>3. /\ DOMAIN y = ThreadFields
      /\ \/ y = [IdleThread EXCEPT !.ok = TRUE]
         \/ /\ y = [th[t] EXCEPT !.todo = Tail(th[t].todo)]
            /\ Tail(th[t].todo) \in Seq(Calls(th[t].op)) /\ Tail(th[t].todo) # <<>>
  BY <1>2, Continued0
<1> HIDE DEF y
<1>4. DOMAIN x = ThreadFields /\ x.warned
  BY <1>3 DEF ThreadFields
<1>5. \/ x.op = NoOp
      \/ /\ x.op = th[t].op /\ x.todo \in Seq(Calls(th[t].op)) /\ x.todo # <<>>
         /\ x.req \in {None, dev.unit} /\ x.had = th[t].had
  <2>1. CASE y = [IdleThread EXCEPT !.ok = TRUE]
    BY <2>1 DEF IdleThread
  <2>2. CASE /\ y = [th[t] EXCEPT !.todo = Tail(th[t].todo)]
             /\ Tail(th[t].todo) \in Seq(Calls(th[t].op)) /\ Tail(th[t].todo) # <<>>
    BY <1>2, <2>2 DEF Running, ThreadFields
  <2> QED BY <1>3, <2>1, <2>2
<1> HIDE DEF x
<1>6. ThreadInv' /\ LockInv'
  BY <1>0, <1>1, <1>4, <1>5, ThreadStep
<1>7. th'[t] = x /\ \A u \in Thread : u # t => th'[u] = th[u]
  BY <1>1 DEF ThreadInv
<1> QED BY <1>0, <1>4, <1>5, <1>6, <1>7

(* An error ends the operation.                                            *)
LEMMA FailsStep ==
  ASSUME ThreadInv, LockInv, NEW t \in Thread, Fails(t)
  PROVE  /\ ThreadInv' /\ LockInv' /\ ~Idle(t) /\ UNCHANGED <<os, ifs, fds, dev, raw>>
         /\ th'[t] = IdleThread /\ \A u \in Thread : u # t => th'[u] = th[u]
<1>1. ~Idle(t) /\ UNCHANGED <<os, ifs, fds, dev, raw>> /\ th' = [th EXCEPT ![t] = IdleThread]
  BY DEF Fails
<1>2. DOMAIN IdleThread = ThreadFields /\ IdleThread.op = NoOp
  BY DEF IdleThread, ThreadFields
<1>3. ThreadInv' /\ LockInv'
  BY <1>1, <1>2, ThreadStep
<1> QED BY <1>1, <1>3 DEF ThreadInv

(* The loop over a list makes a deletion for everything in it.             *)
LEMMA ListedDeletions ==
  ASSUME NEW v \in Seq(Entries), NEW a,
         NEW more, more = FlattenSeq([k \in DOMAIN v |->
                            <<On("siocdifaddr", v[k])>> \o remove_route(v[k], a)])
  PROVE  /\ more \in Seq(Deletions)
         /\ \A i \in DOMAIN v : In(On("siocdifaddr", v[i]), more)
         /\ a => \A i \in DOMAIN v : In(On("route_delete", v[i]), more)
<1> DEFINE S == Deletions
           one(e) == <<On("siocdifaddr", e)>> \o remove_route(e, a)
           s == [k \in DOMAIN v |-> one(v[k])]
<1>1. ASSUME NEW e \in Entries
      PROVE  /\ one(e) \in Seq(S) /\ In(On("siocdifaddr", e), one(e))
             /\ a => In(On("route_delete", e), one(e))
  <2> DEFINE x == <<On("siocdifaddr", e)>>
             y == remove_route(e, a)
  <2>1. On("siocdifaddr", e) \in S /\ On("route_delete", e) \in S
    BY DEF Deletions
  <2> HIDE DEF S
  <2>2. x \in Seq(S) /\ Len(x) = 1 /\ x[1] = On("siocdifaddr", e)
    BY <2>1
  <2>3. In(On("siocdifaddr", e), x)
    BY <2>2 DEF In
  <2>4. y \in Seq(S) /\ (a => Len(y) = 1 /\ y[1] = On("route_delete", e))
    BY <2>1 DEF remove_route
  <2> HIDE DEF x, y
  <2>5. ASSUME a PROVE In(On("route_delete", e), y)
    <3>1. Len(y) = 1 /\ y[1] = On("route_delete", e)
      BY <2>4, <2>5
    <3>2. 1 \in 1..Len(y)
      BY <3>1
    <3> QED BY <3>1, <3>2 DEF In
  <2>6. x \in Seq(S) /\ y \in Seq(S)
    BY <2>2, <2>4
  <2>7. x \o y \in Seq(S) /\ \A c : In(c, x) \/ In(c, y) => In(c, x \o y)
    BY <2>6, InConcat
  <2>8. one(e) = x \o y
    BY DEF x, y
  <2> HIDE DEF one
  <2> QED BY <2>3, <2>5, <2>7, <2>8
<1> HIDE DEF S, one
<1>2. DOMAIN v = 1..Len(v) /\ Len(v) \in Nat /\ \A k \in 1..Len(v) : v[k] \in Entries
  OBVIOUS
<1>3. s \in Seq(Seq(S)) /\ Len(s) = Len(v) /\ \A k \in 1..Len(v) : s[k] = one(v[k])
  <2>1. s = [k \in 1..Len(v) |-> one(v[k])]
    BY <1>2
  <2>2. \A k \in 1..Len(v) : one(v[k]) \in Seq(S)
    BY <1>1, <1>2
  <2> QED BY <1>2, <2>1, <2>2
<1>4. more = FlattenSeq(s)
  BY DEF one
<1> HIDE DEF s
<1>5. s \in Seq(Seq(S))
  BY <1>3
<1>6. FlattenSeq(s) \in Seq(S) /\ \A j \in 1..Len(s) : \A c : In(c, s[j]) => In(c, FlattenSeq(s))
  BY <1>5, FlattenHas
<1>7. \A j \in 1..Len(v) : \A c : In(c, one(v[j])) => In(c, more)
  BY <1>3, <1>4, <1>6
<1>8. \A j \in 1..Len(v) : /\ In(On("siocdifaddr", v[j]), one(v[j]))
                           /\ a => In(On("route_delete", v[j]), one(v[j]))
  BY <1>1, <1>2
<1> QED BY <1>2, <1>4, <1>6, <1>7, <1>8 DEF S

Matching(v, a, b) ==
  FlattenSeq([k \in DOMAIN v |-> IF v[k].addr = b THEN remove_route(v[k], a) ELSE <<>>])

LEMMA MatchingDeletions ==
  ASSUME NEW v \in Seq(Entries), NEW a, NEW b PROVE Matching(v, a, b) \in Seq(Deletions)
<1> DEFINE S == Deletions
           one(e) == IF e.addr = b THEN remove_route(e, a) ELSE <<>>
           s == [k \in DOMAIN v |-> one(v[k])]
<1>1. ASSUME NEW e \in Entries PROVE one(e) \in Seq(S)
  <2>1. On("route_delete", e) \in S
    BY DEF Deletions
  <2> HIDE DEF S
  <2> QED BY <2>1 DEF remove_route
<1> HIDE DEF S, one
<1>2. DOMAIN v = 1..Len(v) /\ Len(v) \in Nat /\ \A k \in 1..Len(v) : v[k] \in Entries
  OBVIOUS
<1>3. s \in Seq(Seq(S))
  <2>1. s = [k \in 1..Len(v) |-> one(v[k])]
    BY <1>2
  <2>2. \A k \in 1..Len(v) : one(v[k]) \in Seq(S)
    BY <1>1, <1>2
  <2> QED BY <1>2, <2>1, <2>2
<1>4. Matching(v, a, b) = FlattenSeq(s)
  BY DEF one, Matching
<1> HIDE DEF s
<1> QED BY <1>3, <1>4, FlattenHas DEF S

(* The addresses a list is about.                                          *)
Listed(t) == IF Target(t) = {} THEN <<>> ELSE ifs[CHOOSE u \in Target(t) : TRUE].v4

LEMMA ListedIs ==
  ASSUME KernelInv, UnitInv, ThreadInv, NEW t \in Thread, ~Idle(t)
  PROVE  /\ Listed(t) \in Seq(Entries)
         /\ dev.unit \in Target(t) => Listed(t) = ifs[dev.unit].v4
<1>1. CASE Target(t) = {}
  BY <1>1 DEF Listed
<1>2. CASE Target(t) # {}
  <2> DEFINE w == CHOOSE u \in Target(t) : TRUE
  <2>1. w \in Target(t)
    BY <1>2
  <2>2. Listed(t) = ifs[w].v4
    BY <1>2 DEF Listed
  <2> HIDE DEF w
  <2>3. w = dev.unit /\ w \in Unit
    BY <2>1, TargetIs
  <2>4. ifs[w].v4 \in Seq(Entries)
    BY <2>3 DEF KernelInv, Interface
  <2> QED BY <2>2, <2>3, <2>4
<1> QED BY <1>1, <1>2

(* Behind the list come the deletions.                                     *)
LEMMA ListStep ==
  ASSUME KernelInv, UnitInv, ThreadInv, LockInv, NEW t \in Thread, ~Idle(t), os' = os,
         dev' = dev, ~IsRead(th[t].op),
         NEW more \in Seq(Deletions), th' = [th EXCEPT ![t] = Continue(t, more)]
  PROVE  /\ ThreadInv' /\ LockInv' /\ Onward(t)
         /\ \A u \in Thread : u # t => th'[u] = th[u]
         /\ \/ th'[t] = [IdleThread EXCEPT !.ok = TRUE] /\ more \o Tail(th[t].todo) = <<>>
            \/ th'[t] = [th[t] EXCEPT !.todo = more \o Tail(th[t].todo)]
<1> DEFINE x == Continue(t, more)
<1>1. Running(t) /\ DOMAIN th[t] = ThreadFields
  BY NowIs
<1>2. Deletions \subseteq Calls(th[t].op)
  BY DEF Calls
<1>3. more \in Seq(Calls(th[t].op))
  <2> DEFINE S == Calls(th[t].op)
             D == Deletions
  <2>1. D \subseteq S /\ more \in Seq(D)
    BY <1>2
  <2> HIDE DEF S, D
  <2>2. more \in Seq(S)
    BY <2>1
  <2> QED BY <2>2 DEF S
<1>4. /\ DOMAIN x = ThreadFields
      /\ \/ /\ x = [IdleThread EXCEPT !.ok = TRUE]
            /\ more \o Tail(th[t].todo) = <<>>
         \/ /\ x = [th[t] EXCEPT !.todo = more \o Tail(th[t].todo)]
            /\ more \o Tail(th[t].todo) \in Seq(Calls(th[t].op))
            /\ more \o Tail(th[t].todo) # <<>>
  BY <1>1, <1>3, Continued
<1> DEFINE rest == more \o Tail(th[t].todo)
<1> HIDE DEF x, rest
<1>5. \/ x.op = NoOp
      \/ /\ x.op = th[t].op /\ x.todo \in Seq(Calls(th[t].op)) /\ x.todo # <<>>
         /\ x.req \in {None, dev.unit}
         /\ x.had = th[t].had /\ x.warned = th[t].warned
  <2>1. CASE x = [IdleThread EXCEPT !.ok = TRUE]
    BY <2>1 DEF IdleThread
  <2>2. CASE /\ x = [th[t] EXCEPT !.todo = rest]
             /\ rest \in Seq(Calls(th[t].op)) /\ rest # <<>>
    BY <1>1, <2>2 DEF Running, ThreadFields
  <2> QED BY <1>4, <2>1, <2>2 DEF rest
<1>6. th' = [th EXCEPT ![t] = x]
  BY DEF x
<1>7. ThreadInv' /\ LockInv'
  BY <1>4, <1>5, <1>6, ThreadStep
<1>8. th'[t] = x /\ \A u \in Thread : u # t => th'[u] = th[u]
  BY <1>6 DEF ThreadInv
<1>9. Onward(t)
  BY <1>5, <1>8 DEF Onward
<1> QED BY <1>4, <1>7, <1>8, <1>9

(* What a route is taken for.                                              *)
LEMMA RoutesStep ==
  ASSUME KernelInv, UnitInv, ThreadInv, NEW t \in Thread, Route(t)
  PROVE  /\ ~Idle(t) /\ UNCHANGED <<os, fds, dev, raw>> /\ Advance(t)
         /\ Present(dev.unit) /\ dev.unit \in Unit /\ KernelInv'
         /\ DOMAIN ifs' = Unit /\ ifs'[dev.unit].v4 = ifs[dev.unit].v4
         /\ Now(t).call = "route_delete" =>
              ifs'[dev.unit].routes = {r \in ifs[dev.unit].routes : ~SameNet(r, Now(t).entry)}
         /\ Now(t).call # "route_delete" =>
              /\ Now(t).entry \in Entries
              /\ \A r \in ifs'[dev.unit].routes :
                   r \in ifs[dev.unit].routes \/ r = RouteOf(Now(t).entry)
              /\ \E r \in ifs'[dev.unit].routes : SameNet(r, Now(t).entry)
<1>0. ~Idle(t) /\ UNCHANGED <<os, fds, dev, raw>> /\ Advance(t)
  BY DEF Route, At
<1> DEFINE e == Now(t).entry
           old(u) == ifs[u].routes
           new(u) == IF Now(t).call = "route_delete" THEN {r \in old(u) : ~SameNet(r, e)}
                     ELSE IF \E r \in old(u) : SameNet(r, e) THEN old(u)
                     ELSE old(u) \cup {RouteOf(e)}
<1>1. PICK u \in Target(t) : ifs' = [ifs EXCEPT ![u].routes = new(u)]
  BY DEF Route
<1>2. u = dev.unit /\ u \in Unit /\ Present(u)
  BY <1>0, TargetIs
<1>3. /\ DOMAIN ifs[u] = {"name", "open", "v4", "v6", "routes", "mtu", "up", "sifhead"}
      /\ ifs[u].v4 \in Seq(Entries)
      /\ \A i, j \in DOMAIN ifs[u].v4 : ifs[u].v4[i].addr = ifs[u].v4[j].addr => i = j
      /\ \A r \in ifs[u].routes : \E x \in Entries : r = RouteOf(x)
  BY <1>2 DEF KernelInv, Interface
<1>4. Now(t).call # "route_delete" => e \in Entries
  <2>1. ASSUME Now(t).call = "route_add" PROVE e \in Entries
    <3>1. Now(t) \in Calls(th[t].op) /\ th[t].op \in Op
      BY <1>0, NowIs
    <3>2. th[t].op \in V4Op /\ e = Entry(th[t].op)
      BY <2>1, <3>1, CallCases
    <3> QED BY <3>2 DEF Entries
  <2> QED BY <2>1 DEF Route, At
<1>5. \A r \in new(u) : r \in old(u) \/ (Now(t).call # "route_delete" /\ r = RouteOf(e))
  OBVIOUS
<1>6. Now(t).call # "route_delete" => \E r \in new(u) : SameNet(r, e)
  BY OwnRoute
<1>7. Now(t).call = "route_delete" => new(u) = {r \in old(u) : ~SameNet(r, e)}
  OBVIOUS
<1> DEFINE g == [ifs[u] EXCEPT !.routes = new(u)]
<1>8. ifs' = [ifs EXCEPT ![u] = g]
  BY <1>1, <1>2 DEF KernelInv
<1>9. g.routes = new(u) /\ g.v4 = ifs[u].v4 /\ g.name = ifs[u].name
      /\ DOMAIN g = {"name", "open", "v4", "v6", "routes", "mtu", "up", "sifhead"}
  <2> HIDE DEF new
  <2> QED BY <1>3
<1> HIDE DEF new, g
<1>10. Interface(g)
  <2>1. \A r \in g.routes : \E x \in Entries : r = RouteOf(x)
    BY <1>3, <1>4, <1>5, <1>9
  <2> QED BY <1>3, <1>9, <2>1 DEF Interface
<1>11. KernelInv'
  BY <1>0, <1>8, <1>9, <1>10, InterfaceStep
<1>12. DOMAIN ifs' = Unit /\ ifs'[u] = g
  BY <1>2, <1>8 DEF KernelInv
<1> QED BY <1>0, <1>2, <1>4, <1>5, <1>6, <1>7, <1>9, <1>11, <1>12

(* What an ioctl does to the interface.                                    *)
LEMMA IoctlStep ==
  ASSUME NamesApart, KernelInv, UnitInv, ThreadInv, NEW t \in Thread, Ioctl(t)
  PROVE  /\ ~Idle(t) /\ UNCHANGED <<os, fds, dev, raw>> /\ Advance(t)
         /\ Present(dev.unit) /\ dev.unit \in Unit /\ KernelInv'
         /\ DOMAIN ifs' = Unit
         /\ ifs'[dev.unit] = Written(ifs[dev.unit], Now(t), th[t].op)
<1>0. ~Idle(t) /\ UNCHANGED <<os, fds, dev, raw>> /\ Advance(t) /\ Now(t).call \in ByName
  BY DEF Ioctl
<1>1. PICK u \in Target(t) : ifs' = [ifs EXCEPT ![u] = Written(@, Now(t), th[t].op)]
  BY DEF Ioctl
<1>2. u = dev.unit /\ u \in Unit /\ Present(u)
  BY <1>0, TargetIs
<1>3. Now(t) \in Calls(th[t].op) /\ th[t].op \in Op /\ Running(t)
  BY <1>0, NowIs
<1> DEFINE g == Written(ifs[u], Now(t), th[t].op)
<1>4. /\ Interface(g)
      /\ \/ g.name = ifs[u].name
         \/ Now(t).call = "siocsifname" /\ g.name = th[t].op.arg
  BY <1>0, <1>2, <1>3, WrittenInterface DEF KernelInv
<1>5. ifs' = [ifs EXCEPT ![u] = g]
  BY <1>1, <1>2 DEF KernelInv
<1> HIDE DEF g
<1>6. g.name = ifs[u].name \/ (os # "macos" /\ g.name \notin Unit)
  <2>1. ASSUME Now(t).call = "siocsifname", g.name = th[t].op.arg
        PROVE  os # "macos" /\ g.name \notin Unit
    <3>1. th[t].op.kind = "set_name"
      BY <1>3, <2>1, CallCases
    <3>2. Offered(th[t].op)
      BY <1>3 DEF Running
    <3>3. os # "macos"
      BY <3>1, <3>2 DEF Offered
    <3> QED BY <1>3, <2>1, <3>1, <3>3 DEF NamesApart
  <2> QED BY <1>4, <2>1
<1>7. KernelInv'
  BY <1>0, <1>4, <1>5, <1>6, InterfaceStep
<1> QED BY <1>0, <1>2, <1>5, <1>7 DEF KernelInv, g

LEMMA DeleteAllStep ==
  ASSUME KernelInv, UnitInv, ThreadInv, NEW t \in Thread, DeleteAll(t)
  PROVE  /\ ~Idle(t) /\ UNCHANGED <<os, fds, dev, raw>> /\ KernelInv'
         /\ \/ ifs[dev.unit].v4 = <<>> /\ Advance(t) /\ ifs' = ifs
            \/ th' = th
<1>0. ~Idle(t) /\ UNCHANGED <<os, fds, dev, raw>>
  BY DEF DeleteAll, At
<1>1. PICK u \in Target(t) :
        IF ifs[u].v4 = <<>> THEN Advance(t) /\ UNCHANGED ifs
        ELSE ifs' = [ifs EXCEPT ![u].v4 = Tail(@)] /\ UNCHANGED th
  BY DEF DeleteAll
<1>2. u = dev.unit /\ u \in Unit
  BY <1>0, TargetIs
<1>3. CASE ifs[u].v4 = <<>>
  BY <1>0, <1>1, <1>2, <1>3, KernelFrame
<1>4. CASE ifs[u].v4 # <<>>
  <2>1. /\ DOMAIN ifs[u] = {"name", "open", "v4", "v6", "routes", "mtu", "up", "sifhead"}
        /\ ifs[u].v4 \in Seq(Entries)
        /\ \A i, j \in DOMAIN ifs[u].v4 : ifs[u].v4[i].addr = ifs[u].v4[j].addr => i = j
        /\ \A r \in ifs[u].routes : \E x \in Entries : r = RouteOf(x)
    BY <1>2 DEF KernelInv, Interface
  <2> DEFINE w == Tail(ifs[u].v4)
             g == [ifs[u] EXCEPT !.v4 = w]
  <2>2. w \in Seq(Entries) /\ \A i, j \in DOMAIN w : w[i].addr = w[j].addr => i = j
    BY <1>4, <2>1, TailEffect
  <2>3. ifs' = [ifs EXCEPT ![u] = g] /\ th' = th
    BY <1>1, <1>2, <1>4 DEF KernelInv
  <2> HIDE DEF w
  <2>4. Interface(g) /\ g.name = ifs[u].name
    BY <2>1, <2>2 DEF Interface
  <2> HIDE DEF g
  <2>5. KernelInv'
    BY <1>0, <2>3, <2>4, InterfaceStep
  <2> QED BY <1>0, <2>3, <2>5
<1> QED BY <1>3, <1>4

(* Every step of an operation leaves the interfaces and the threads as     *)
(* they have to be.                                                        *)
LEMMA OperatingStep ==
  ASSUME NamesApart, KernelInv, UnitInv, ThreadInv, LockInv,
         NEW t \in Thread, Operating(t)
  PROVE  /\ KernelInv' /\ UnitInv' /\ ThreadInv' /\ LockInv'
         /\ Idle(t) \/ Onward(t)
         /\ \A u \in Thread : u # t => th'[u] = th[u]
<1>1. UnitInv'
  <2>1. /\ fds' = fds /\ raw' = raw
        /\ dev' = dev \/ dev' = [dev EXCEPT !.associate_route = th[t].op.arg]
    BY OperatingEffect
  <2>2. dev'.phase = dev.phase /\ dev'.unit = dev.unit /\ dev'.inner = dev.inner
    <3>1. CASE dev' = dev
      BY <3>1
    <3>2. CASE dev' = [dev EXCEPT !.associate_route = th[t].op.arg]
      BY <3>2
    <3> QED BY <2>1, <3>1, <3>2
  <2> QED BY <2>1, <2>2 DEF UnitInv
<1> DEFINE Goal == /\ KernelInv' /\ ThreadInv' /\ LockInv'
                   /\ Idle(t) \/ Onward(t)
                   /\ \A u \in Thread : u # t => th'[u] = th[u]
<1>2. ASSUME NEW o \in Op, Call(t, o) PROVE Goal
  <2>1. KernelInv'
    BY <1>2, KernelFrame DEF Call
  <2>2. ThreadInv' /\ LockInv'
    BY <1>2, CallThreads
  <2>3. \A u \in Thread : u # t => th'[u] = th[u]
    BY <1>2 DEF Call, ThreadInv
  <2>4. Idle(t)
    BY <1>2 DEF Call
  <2> QED BY <2>1, <2>2, <2>3, <2>4
<1>3. ASSUME Name(t) PROVE Goal
  <2>1. KernelInv'
    BY <1>3, KernelFrame DEF Name
  <2> QED BY <1>3, <2>1, NameStep
<1>4. ASSUME Ioctl(t) PROVE Goal
  BY <1>4, IoctlStep, AdvanceStep
<1>5. ASSUME DeleteAll(t) PROVE Goal
  <2>1. /\ ~Idle(t) /\ UNCHANGED <<os, dev>> /\ KernelInv' /\ (Advance(t) \/ th' = th)
    BY <1>5, DeleteAllStep
  <2>2. CASE Advance(t)
    BY <2>1, <2>2, AdvanceStep
  <2>3. CASE th' = th
    <3>1. ThreadInv' /\ LockInv'
      BY <2>1, <2>3 DEF ThreadInv, LockInv, Idle, Running, Offered
    <3> QED BY <2>1, <2>3, <3>1 DEF Onward
  <2> QED BY <2>1, <2>2, <2>3
<1>6. ASSUME ~Idle(t), Now(t).call \in {"list_all", "list_matching"} PROVE ~IsRead(th[t].op)
  <2>1. Now(t) \in Calls(th[t].op) /\ th[t].op \in Op
    BY <1>6, NowIs
  <2> QED BY <1>6, <2>1, CallCases
<1>7. ASSUME ListAll(t) PROVE Goal
  <2> DEFINE v4 == Listed(t)
             more == FlattenSeq([k \in DOMAIN v4 |->
                       <<On("siocdifaddr", v4[k])>> \o remove_route(v4[k], th[t].assoc)])
  <2>1. ~Idle(t) /\ UNCHANGED <<os, ifs, dev>> /\ Now(t).call = "list_all"
        /\ th' = [th EXCEPT ![t] = Continue(t, more)]
    BY <1>7 DEF ListAll, At, Listed
  <2>2. v4 \in Seq(Entries)
    BY <2>1, ListedIs
  <2> HIDE DEF v4
  <2>3. more \in Seq(Deletions)
    BY <2>2, ListedDeletions
  <2> HIDE DEF more
  <2>4. KernelInv' /\ ~IsRead(th[t].op)
    BY <1>6, <2>1, KernelFrame
  <2> QED BY <2>1, <2>3, <2>4, ListStep
<1>8. ASSUME ListMatching(t) PROVE Goal
  <2> DEFINE v4 == Listed(t)
             more == Matching(v4, th[t].assoc, th[t].op.addr)
  <2>1. ~Idle(t) /\ UNCHANGED <<os, ifs, dev>> /\ Now(t).call = "list_matching"
        /\ th' = [th EXCEPT ![t] = Continue(t, more)]
    BY <1>8 DEF ListMatching, At, Listed, Matching
  <2>2. v4 \in Seq(Entries)
    BY <2>1, ListedIs
  <2> HIDE DEF v4
  <2>3. more \in Seq(Deletions)
    BY <2>2, MatchingDeletions
  <2> HIDE DEF more
  <2>4. KernelInv' /\ ~IsRead(th[t].op)
    BY <1>6, <2>1, KernelFrame
  <2> QED BY <2>1, <2>3, <2>4, ListStep
<1>9. ASSUME ListFails(t) \/ RouteFails(t) PROVE Goal
  <2>1. KernelInv' /\ Onward(t)
    BY <1>9, WarnedStep, KernelFrame DEF Onward
  <2> QED BY <1>9, <2>1, WarnedStep
<1>10. ASSUME Route(t) PROVE Goal
  BY <1>10, RoutesStep, AdvanceStep
<1>11. ASSUME SetSifhead(t) PROVE Goal
  <2>1. ~Idle(t) /\ UNCHANGED <<os, dev>> /\ Advance(t)
        /\ ifs' = [ifs EXCEPT ![dev.unit].sifhead = TRUE]
    BY <1>11 DEF SetSifhead, At
  <2>2. dev.unit \in Unit
    BY <2>1, NowIs DEF UnitInv
  <2> DEFINE g == [ifs[dev.unit] EXCEPT !.sifhead = TRUE]
  <2>3. ifs' = [ifs EXCEPT ![dev.unit] = g]
    BY <2>1, <2>2 DEF KernelInv
  <2>4. Interface(g) /\ g.name = ifs[dev.unit].name
    BY <2>2 DEF KernelInv, Interface
  <2> HIDE DEF g
  <2>5. KernelInv'
    BY <2>1, <2>3, <2>4, InterfaceStep
  <2> QED BY <2>1, <2>5, AdvanceStep
<1>12. ASSUME SetAssociateRoute(t) PROVE Goal
  <2>1. ~Idle(t) /\ UNCHANGED <<os, ifs>> /\ Advance(t)
        /\ dev' = [dev EXCEPT !.associate_route = th[t].op.arg]
    BY <1>12 DEF SetAssociateRoute, At
  <2>2. dev'.phase = dev.phase /\ dev'.unit = dev.unit
    BY <2>1
  <2> QED BY <2>1, <2>2, KernelFrame, AdvanceStep
<1>13. ASSUME Fails(t) PROVE Goal
  <2>1. KernelInv'
    BY <1>13, FailsStep, KernelFrame
  <2>2. Onward(t)
    BY <1>13, FailsStep DEF Onward, IdleThread
  <2> QED BY <1>13, <2>1, <2>2, FailsStep
<1> QED BY <1>1, <1>2, <1>3, <1>4, <1>5, <1>7, <1>8, <1>9, <1>10, <1>11, <1>12, <1>13
        DEF Operating

-----------------------------------------------------------------------------
(* set_network_address. *)

LEMMA EmptySeq ==
  ASSUME NEW S, NEW v \in Seq(S), DOMAIN v = {} PROVE v = <<>>
<1>1. ASSUME v # <<>> PROVE FALSE
  <2>1. Len(v) \in Nat /\ Len(v) >= 1
    BY <1>1, TailOf
  <2>2. 1 \in DOMAIN v
    BY <2>1
  <2> QED BY <2>2
<1> QED BY <1>1

LEMMA SetNetworkFacts ==
  ASSUME KernelInv, UnitInv, ThreadInv, NetworkInv, NEW t \in Thread,
         th[t].op.kind = "set_network_address"
  PROVE  /\ ~Idle(t) /\ th[t].op \in V4Op /\ Entry(th[t].op) \in Entries
         /\ ~IsRead(th[t].op) /\ th[t].had \subseteq Entries
         /\ DOMAIN th[t] = ThreadFields
         /\ th[t].todo \in Seq(Calls(th[t].op)) /\ th[t].todo # <<>>
         /\ Len(th[t].todo) \in Nat
         /\ Now(t) = th[t].todo[1]
         /\ dev.unit \in Unit
<1>1. ~Idle(t)
  BY DEF Idle, NoOp
<1>2. Running(t) /\ DOMAIN th[t] = ThreadFields /\ th[t].op \in Op /\ Now(t) = th[t].todo[1]
  BY <1>1, NowIs
<1>3. th[t].op \in V4Op
  BY <1>2 DEF Running, V4Op, Refused, GivesV4
<1>4. th[t].todo \in Seq(Calls(th[t].op)) /\ th[t].todo # <<>>
  BY <1>2 DEF Running
<1>5. dev.unit \in Unit
  BY <1>2 DEF Running, UnitInv
<1>6. th[t].had \subseteq Entries
  BY DEF NetworkInv, Network
<1>7. Len(th[t].todo) \in Nat
  BY <1>4
<1> QED BY <1>1, <1>2, <1>3, <1>4, <1>5, <1>6, <1>7 DEF IsRead, Entries

(* The first of the calls tells how far it is.                             *)
LEMMA StageCalls ==
  ASSUME NEW t, Now(t) = th[t].todo[1], Len(th[t].todo) \in Nat
  PROVE  /\ RemovingAt(t, 1) => Now(t).call = Removal
         /\ \A n \in 2..3 : RemovingAt(t, n) => Now(t).call = "name"
         /\ DeletingAt(t, 0) => Now(t).call = "name"
         /\ \A n \in 1..Len(th[t].todo) : DeletingAt(t, n) => Now(t) \in Deletions
         /\ Adding(t) => Now(t).call = "siocaifaddr"
         /\ Added(t) => Now(t).call = "route_add"
<1>1. C("name").call = "name" /\ C(Removal).call = Removal
  BY DEF C
<1>2. On("siocaifaddr", Entry(th[t].op)).call = "siocaifaddr"
      /\ On("route_add", Entry(th[t].op)).call = "route_add"
  BY DEF On
<1>3. RemovingAt(t, 1) => Now(t).call = Removal
  BY <1>1 DEF RemovingAt
<1>4. ASSUME NEW n \in 2..3, RemovingAt(t, n) PROVE Now(t).call = "name"
  <2>1. 1 \in 1 .. n - 1
    OBVIOUS
  <2> QED BY <1>1, <1>4, <2>1 DEF RemovingAt
<1>5. ASSUME DeletingAt(t, 0) PROVE Now(t).call = "name"
  <2>1. th[t].todo[0 + 1] = C("name") /\ 0 + 1 = 1
    BY <1>5 DEF DeletingAt, Ahead
  <2> QED BY <1>1, <2>1
<1>6. ASSUME NEW n \in 1..Len(th[t].todo), DeletingAt(t, n) PROVE Now(t) \in Deletions
  <2>1. 1 \in 1..n
    OBVIOUS
  <2> QED BY <1>6, <2>1 DEF DeletingAt
<1> QED BY <1>2, <1>3, <1>4, <1>5, <1>6 DEF Adding, Added

LEMMA DeletionCalls ==
  ASSUME NEW c \in Deletions
  PROVE  \/ c.call = "siocdifaddr" /\ c = On("siocdifaddr", c.entry) /\ c.entry \in Entries
         \/ c.call = "route_delete" /\ c = On("route_delete", c.entry) /\ c.entry \in Entries
BY DEF Deletions, On

(* One call less.                                                          *)
LEMMA AheadShift ==
  ASSUME NEW t, NEW S, th[t].todo \in Seq(S), th'[t].todo = Tail(th[t].todo),
         th'[t].op = th[t].op, th'[t].assoc = th[t].assoc,
         NEW n \in Nat \ {0}, Ahead(t, n)
  PROVE  /\ Ahead(t, n - 1)'
         /\ Len(th'[t].todo) \in Nat /\ n - 1 \in 0..Len(th'[t].todo)
         /\ \A k \in 1 .. n - 1 : th'[t].todo[k] = th[t].todo[k + 1]
<1> DEFINE m == IF th[t].assoc THEN 3 ELSE 2
           s == th[t].todo
<1>1. /\ Len(s) = n + m /\ s[n + 1] = C("name")
      /\ s[n + 2] = On("siocaifaddr", Entry(th[t].op))
      /\ th[t].assoc => s[n + 3] = On("route_add", Entry(th[t].op))
  BY DEF Ahead
<1>2. m \in 2..3 /\ (th[t].assoc => m = 3)
  OBVIOUS
<1>3. s \in Seq(S)
  OBVIOUS
<1>4. th'[t].todo = Tail(s)
  OBVIOUS
<1> HIDE DEF s
<1>5. s # <<>>
  BY <1>1, <1>2, <1>3
<1>6. Len(Tail(s)) = Len(s) - 1 /\ \A k \in 1 .. Len(s) - 1 : Tail(s)[k] = s[k + 1]
  BY <1>3, <1>5, TailOf
<1>7. Len(Tail(s)) = (n - 1) + m
  <2> HIDE DEF m
  <2> QED BY <1>1, <1>2, <1>6
<1>8. Tail(s)[n] = s[n + 1] /\ Tail(s)[n + 1] = s[n + 2]
  <2> HIDE DEF m
  <2>1. n \in 1 .. Len(s) - 1 /\ n + 1 \in 1 .. Len(s) - 1 /\ (n + 1) + 1 = n + 2
    BY <1>1, <1>2
  <2> QED BY <1>6, <2>1
<1>9. ASSUME th[t].assoc PROVE Tail(s)[n + 2] = s[n + 3]
  <2>1. m = 3
    BY <1>2, <1>9
  <2> HIDE DEF m
  <2>2. n + 2 \in 1 .. Len(s) - 1 /\ (n + 2) + 1 = n + 3
    BY <1>1, <2>1
  <2> QED BY <1>6, <2>2
<1>10. (n - 1) + 1 = n /\ (n - 1) + 2 = n + 1 /\ (n - 1) + 3 = n + 2
  OBVIOUS
<1>11. Ahead(t, n - 1)'
  BY <1>1, <1>4, <1>7, <1>8, <1>9, <1>10 DEF Ahead
<1>12. ASSUME NEW k \in 1 .. n - 1 PROVE Tail(s)[k] = s[k + 1]
  <2> HIDE DEF m
  <2>1. k \in 1 .. Len(s) - 1
    BY <1>1, <1>2
  <2> QED BY <1>6, <2>1
<1>13. Len(Tail(s)) \in Nat /\ n - 1 \in 0..Len(Tail(s))
  <2> HIDE DEF m
  <2> QED BY <1>2, <1>7
<1> QED BY <1>4, <1>11, <1>12, <1>13 DEF s

(* What the last step leaves.                                              *)
Exact(t) ==
  LET e == Entry(th[t].op)
      f == ifs'[dev.unit]
  IN  /\ f.v4 = <<e>>
      /\ th[t].assoc => \E r \in f.routes : SameNet(r, e)
      /\ th[t].assoc /\ os = "macos" =>
           \A r \in f.routes : \A h \in th[t].had : SameNet(r, h) => SameNet(r, e)

(* It returns, with that unless something was logged, or goes on.          *)
Outcome(t) ==
  \/ th'[t].op = NoOp /\ (th'[t].ok /\ ~Warned(t) => Exact(t))
  \/ th'[t].op = th[t].op /\ Network(t)'

(* Once something was logged nothing more is said.                         *)
LEMMA WarnedOutcome ==
  ASSUME NEW t, th[t].warned, th[t].had \subseteq Entries, Onward(t)
  PROVE  Outcome(t)
BY DEF Onward, Outcome, Warned, Network

(* The call itself.                                                        *)
LEMMA CallOutcome ==
  ASSUME KernelInv, UnitInv, ThreadInv, NEW t \in Thread, NEW o \in Op, Call(t, o),
         th'[t].op.kind = "set_network_address"
  PROVE  Network(t)'
<1> DEFINE a == dev.associate_route
           x == IF Refused(o) THEN IdleThread
                ELSE [IdleThread EXCEPT !.op = o, !.todo = Script(o, a), !.assoc = a,
                                        !.had = ToSet(ifs[dev.unit].v4)]
<1>0. dev.phase = "ready" /\ UNCHANGED <<os, ifs, dev>>
  BY DEF Call
<1>1. th'[t] = x
  BY DEF Call, ThreadInv
<1>2. /\ th'[t].op = o /\ th'[t].todo = Script(o, a) /\ th'[t].assoc = a
      /\ th'[t].had = ToSet(ifs[dev.unit].v4) /\ ~Refused(o)
  <2>1. ~Refused(o)
    BY <1>1 DEF IdleThread, NoOp
  <2>2. th'[t] = [IdleThread EXCEPT !.op = o, !.todo = Script(o, a), !.assoc = a,
                                    !.had = ToSet(ifs[dev.unit].v4)]
    BY <1>1, <2>1
  <2> HIDE DEF a, x
  <2> QED BY <2>1, <2>2 DEF IdleThread
<1>3. o.kind = "set_network_address" /\ o \in V4Op
  BY <1>2 DEF V4Op, Refused, GivesV4
<1>4. Script(o, a) = set_network_address(o, a)
  BY <1>3 DEF Script
<1> DEFINE s == set_network_address(o, a)
<1>5. /\ Len(s) = Names + 1 + (IF a THEN 3 ELSE 2)
      /\ \A k \in 1..Names : s[k] = C("name")
      /\ s[Names + 1] = C(Removal)
      /\ s[Names + 2] = C("name")
      /\ s[Names + 3] = On("siocaifaddr", Entry(o))
      /\ a => s[Names + 4] = On("route_add", Entry(o))
  BY <1>3, SetNetworkScript
<1>6. dev.unit \in Unit
  BY <1>0 DEF UnitInv
<1>7. ToSet(ifs[dev.unit].v4) \subseteq Entries
  <2>1. ifs[dev.unit].v4 \in Seq(Entries)
    BY <1>6 DEF KernelInv, Interface
  <2> QED BY <2>1 DEF ToSet
<1>8. th'[t].todo = s
  BY <1>2, <1>4
<1> HIDE DEF a, x, s
<1>9. Names \in 1..2 /\ (os = "macos" => Names = 2)
  BY DEF Names
<1>10. (Names + 1) + 1 = Names + 2 /\ (Names + 1) + 2 = Names + 3
       /\ (Names + 1) + 3 = Names + 4 /\ (Names + 1) - 1 = Names
  BY <1>9
<1>11. Ahead(t, Names + 1)'
  <2>1. Names' = Names
    BY <1>0 DEF Names
  <2> QED BY <1>2, <1>5, <1>8, <1>10, <2>1 DEF Ahead
<1>12. RemovingAt(t, Names + 1)'
  <2>1. Names' = Names /\ Removal' = Removal
    BY <1>0 DEF Names, Removal
  <2>2. os = "macos" => ~(Names + 1 < 3)
    BY <1>9
  <2> QED BY <1>0, <1>2, <1>5, <1>8, <1>10, <1>11, <2>1, <2>2 DEF RemovingAt
<1>13. Removing(t)'
  <2>1. Names + 1 \in 1..3 /\ Names' = Names
    BY <1>0, <1>9 DEF Names
  <2> QED BY <1>12, <2>1 DEF Removing
<1> QED BY <1>2, <1>7, <1>13 DEF Network

(* The name is asked for: once or twice before the removal, and again      *)
(* behind it.                                                              *)
LEMMA NameOutcome ==
  ASSUME KernelInv, UnitInv, ThreadInv, LockInv, NetworkInv, NEW t \in Thread, Name(t),
         th[t].op.kind = "set_network_address"
  PROVE  Outcome(t)
<1>0. UNCHANGED <<os, ifs, dev>> /\ Now(t).call = "name"
  BY DEF Name, At
<1>1. /\ ~Idle(t) /\ th[t].op \in V4Op /\ th[t].had \subseteq Entries
      /\ DOMAIN th[t] = ThreadFields /\ th[t].todo \in Seq(Calls(th[t].op))
      /\ Len(th[t].todo) \in Nat /\ Now(t) = th[t].todo[1] /\ dev.unit \in Unit
  BY SetNetworkFacts
<1>2. \/ th'[t].op = NoOp /\ Len(th[t].todo) = 1
      \/ /\ th'[t] = [th[t] EXCEPT !.todo = Tail(th[t].todo), !.req = th'[t].req]
         /\ os = "macos" /\ Present(dev.unit) => th'[t].req = dev.unit
         /\ Len(th[t].todo) > 1
  BY NameStep
<1>3. CASE th'[t].op = NoOp /\ Len(th[t].todo) = 1
  <2>1. ASSUME NEW n \in Nat PROVE ~Ahead(t, n)
    <3>1. (IF th[t].assoc THEN 3 ELSE 2) \in 2..3
      OBVIOUS
    <3>2. n + (IF th[t].assoc THEN 3 ELSE 2) # 1
      BY <3>1
    <3> QED BY <1>3, <3>2 DEF Ahead
  <2>2. ~Removing(t) /\ ~Deleting(t)
    BY <2>1 DEF Removing, Deleting, RemovingAt, DeletingAt
  <2>3. ~Adding(t) /\ ~Added(t)
    BY <1>0, <1>1, StageCalls
  <2>4. th[t].warned
    BY <2>2, <2>3 DEF NetworkInv, Network
  <2> QED BY <1>1, <1>3, <2>4, WarnedOutcome DEF Onward
<1>4. CASE /\ th'[t] = [th[t] EXCEPT !.todo = Tail(th[t].todo), !.req = th'[t].req]
           /\ os = "macos" /\ Present(dev.unit) => th'[t].req = dev.unit
  <2>1. /\ th'[t].op = th[t].op /\ th'[t].todo = Tail(th[t].todo)
        /\ th'[t].assoc = th[t].assoc /\ th'[t].had = th[t].had
        /\ th'[t].warned = th[t].warned
    BY <1>1, <1>4 DEF ThreadFields
  <2>2. ASSUME th[t].warned PROVE Outcome(t)
    BY <1>1, <2>1, <2>2, WarnedOutcome DEF Onward
  <2>3. ASSUME NEW n \in 2..3, RemovingAt(t, n) PROVE Removing(t)'
    <3>1. n \in Nat \ {0} /\ n - 1 \in 1..3 /\ (n - 1) + 1 = n /\ n - 1 # n
      OBVIOUS
    <3>2. Ahead(t, n)
      BY <2>3 DEF RemovingAt
    <3>3. Ahead(t, n - 1)' /\ \A k \in 1 .. n - 1 : th'[t].todo[k] = th[t].todo[k + 1]
      BY <1>1, <2>1, <3>1, <3>2, AheadShift
    <3>4. th'[t].todo[n - 1] = C(Removal)
      <4>1. n - 1 \in 1 .. n - 1
        OBVIOUS
      <4>2. th'[t].todo[n - 1] = th[t].todo[n]
        BY <3>1, <3>3, <4>1
      <4> QED BY <2>3, <4>2 DEF RemovingAt
    <3>5. ASSUME NEW k \in 1 .. (n - 1) - 1 PROVE th'[t].todo[k] = C("name")
      <4>1. k \in 1 .. n - 1 /\ k + 1 \in 1 .. n - 1
        OBVIOUS
      <4>2. th'[t].todo[k] = th[t].todo[k + 1]
        BY <3>3, <4>1
      <4> QED BY <2>3, <4>1, <4>2 DEF RemovingAt
    <3>6. Removal' = Removal /\ Present(dev.unit)' = Present(dev.unit)
      BY <1>0 DEF Removal, Present
    <3>7. os = "macos" => th[t].had = ToSet(ifs[dev.unit].v4)
      BY <2>3 DEF RemovingAt
    <3> DEFINE m == n - 1
    <3>8. /\ m \in 1..3 /\ Ahead(t, m)' /\ th'[t].todo[m] = C(Removal)
          /\ \A k \in 1 .. m - 1 : th'[t].todo[k] = C("name")
      BY <3>1, <3>3, <3>4, <3>5
    <3> HIDE DEF m
    <3>9. RemovingAt(t, m)'
      BY <1>0, <1>4, <2>1, <3>6, <3>7, <3>8 DEF RemovingAt, Present
    <3> QED BY <3>8, <3>9 DEF Removing
  <2>4. ASSUME DeletingAt(t, 0) PROVE Adding(t)'
    <3>1. Ahead(t, 0)
      BY <2>4 DEF DeletingAt
    <3> DEFINE m == IF th[t].assoc THEN 3 ELSE 2
               s == th[t].todo
    <3>2. /\ Len(s) = 0 + m /\ s[0 + 2] = On("siocaifaddr", Entry(th[t].op))
          /\ th[t].assoc => s[0 + 3] = On("route_add", Entry(th[t].op))
      BY <3>1 DEF Ahead
    <3>3. m \in 2..3 /\ (th[t].assoc => m = 3)
      OBVIOUS
    <3> HIDE DEF s
    <3>4. s \in Seq(Calls(th[t].op)) /\ s # <<>>
      <4>1. s \in Seq(Calls(th[t].op))
        BY <1>1 DEF s
      <4> HIDE DEF m
      <4>2. Len(s) # 0
        BY <3>2, <3>3
      <4> QED BY <4>1, <4>2
    <3>5. /\ Len(Tail(s)) = Len(s) - 1
          /\ \A k \in 1 .. Len(s) - 1 : Tail(s)[k] = s[k + 1]
      BY <3>4, TailOf
    <3>6. Tail(s)[1] = On("siocaifaddr", Entry(th[t].op))
      <4> HIDE DEF m
      <4>1. 1 \in 1 .. Len(s) - 1 /\ 1 + 1 = 0 + 2
        BY <3>2, <3>3
      <4>2. Tail(s)[1] = s[0 + 2]
        BY <3>5, <4>1
      <4> QED BY <3>2, <4>2
    <3>7. ASSUME th[t].assoc PROVE Tail(s)[2] = On("route_add", Entry(th[t].op))
      <4>0. m = 3
        BY <3>3, <3>7
      <4> HIDE DEF m
      <4>1. 2 \in 1 .. Len(s) - 1 /\ 2 + 1 = 0 + 3
        BY <3>2, <4>0
      <4>2. Tail(s)[2] = s[0 + 3]
        BY <3>5, <4>1
      <4> QED BY <3>2, <3>7, <4>2
    <3>8. Len(Tail(s)) = IF th[t].assoc THEN 2 ELSE 1
      <4>1. CASE th[t].assoc
        BY <3>2, <3>5, <4>1
      <4>2. CASE ~th[t].assoc
        BY <3>2, <3>5, <4>2
      <4> QED BY <4>1, <4>2
    <3>9. ASSUME Present(dev.unit) PROVE ifs[dev.unit].v4 = <<>> /\ Stale(t) = {}
      <4>1. /\ \A i \in DOMAIN ifs[dev.unit].v4 : \E k \in 1..0 :
                 th[t].todo[k] = On("siocdifaddr", ifs[dev.unit].v4[i])
            /\ \A r \in Stale(t) : \E k \in 1..0 : \E h \in Entries :
                 th[t].todo[k] = On("route_delete", h) /\ SameNet(r, h)
        BY <2>4, <3>9 DEF DeletingAt
      <4>2. DOMAIN ifs[dev.unit].v4 = {} /\ Stale(t) = {}
        BY <4>1
      <4>3. ifs[dev.unit].v4 \in Seq(Entries)
        BY <1>1 DEF KernelInv, Interface
      <4> DEFINE v == ifs[dev.unit].v4
      <4>4. v \in Seq(Entries) /\ DOMAIN v = {}
        BY <4>2, <4>3
      <4> HIDE DEF v
      <4>5. v = <<>>
        BY <4>4, EmptySeq
      <4> QED BY <4>2, <4>5 DEF v
    <3>10. Stale(t)' = Stale(t) /\ Present(dev.unit)' = Present(dev.unit)
      BY <1>0, <2>1 DEF Stale, Present
    <3>11. th'[t].todo = Tail(s)
      BY <2>1 DEF s
    <3> HIDE DEF m
    <3> QED BY <1>0, <2>1, <3>6, <3>7, <3>8, <3>9, <3>10, <3>11 DEF Adding, Present
  <2>5. ASSUME ~th[t].warned PROVE Network(t)'
    <3>1. Removing(t) \/ Deleting(t) \/ Adding(t) \/ Added(t)
      BY <2>5 DEF NetworkInv, Network
    <3>2. ~Adding(t) /\ ~Added(t)
      BY <1>0, <1>1, StageCalls
    <3>3. ASSUME NEW n \in 1..3, RemovingAt(t, n) PROVE n \in 2..3
      <4>1. ~RemovingAt(t, 1)
        BY <1>0, <1>1, StageCalls DEF Removal
      <4> QED BY <3>3, <4>1
    <3>4. ASSUME NEW n \in 0..Len(th[t].todo), DeletingAt(t, n) PROVE n = 0
      <4>1. ASSUME n # 0 PROVE FALSE
        <5>1. n \in 1..Len(th[t].todo)
          BY <1>1, <4>1
        <5>2. Now(t) \in Deletions
          BY <1>1, <3>4, <5>1, StageCalls
        <5> QED BY <1>0, <5>2, DeletionCalls
      <4> QED BY <4>1
    <3>5. Removing(t)' \/ Adding(t)'
      <4>1. CASE Removing(t)
        <5>1. PICK n \in 1..3 : RemovingAt(t, n)
          BY <4>1 DEF Removing
        <5> QED BY <2>3, <3>3, <5>1
      <4>2. CASE Deleting(t)
        <5>1. PICK n \in 0..Len(th[t].todo) : DeletingAt(t, n)
          BY <4>2 DEF Deleting
        <5> QED BY <2>4, <3>4, <5>1
      <4> QED BY <3>1, <3>2, <4>1, <4>2
    <3> QED BY <1>1, <2>1, <3>5 DEF Network
  <2> QED BY <2>1, <2>2, <2>5 DEF Outcome
<1> QED BY <1>2, <1>3, <1>4

(* One deletion less: what it was about is not there any more.             *)
LEMMA DeletingShift ==
  ASSUME NEW t, NEW S, th[t].todo \in Seq(S), th'[t].todo = Tail(th[t].todo),
         th'[t].op = th[t].op, th'[t].assoc = th[t].assoc, th'[t].had = th[t].had,
         UNCHANGED <<os, dev>>, Now(t) = th[t].todo[1], Present(dev.unit),
         NEW n \in Nat \ {0}, DeletingAt(t, n),
         \A i \in DOMAIN ifs'[dev.unit].v4 : \E j \in DOMAIN ifs[dev.unit].v4 :
           /\ ifs'[dev.unit].v4[i] = ifs[dev.unit].v4[j]
           /\ On("siocdifaddr", ifs[dev.unit].v4[j]) # Now(t),
         \A r \in ifs'[dev.unit].routes :
           /\ r \in ifs[dev.unit].routes
           /\ \A h \in Entries : SameNet(r, h) => On("route_delete", h) # Now(t)
  PROVE  Deleting(t)'
<1>1. /\ Ahead(t, n) /\ \A k \in 1..n : th[t].todo[k] \in Deletions
      /\ \A i \in DOMAIN ifs[dev.unit].v4 : \E k \in 1..n :
           th[t].todo[k] = On("siocdifaddr", ifs[dev.unit].v4[i])
      /\ \A r \in Stale(t) : \E k \in 1..n : \E h \in Entries :
           th[t].todo[k] = On("route_delete", h) /\ SameNet(r, h)
  BY DEF DeletingAt
<1> DEFINE m == n - 1
<1>2. /\ Ahead(t, m)' /\ m \in 0..Len(th'[t].todo)
      /\ \A k \in 1..m : th'[t].todo[k] = th[t].todo[k + 1]
  BY <1>1, AheadShift
<1>3. \A k \in 1..m : k + 1 \in 1..n
  OBVIOUS
<1>4. \A k \in 1..n : k # 1 => k - 1 \in 1..m /\ (k - 1) + 1 = k
  OBVIOUS
<1> HIDE DEF m
<1>5. \A k \in 1..m : th'[t].todo[k] \in Deletions
  BY <1>1, <1>2, <1>3
<1>6. ASSUME NEW k \in 1..n, th[t].todo[k] # Now(t)
      PROVE  \E l \in 1..m : th'[t].todo[l] = th[t].todo[k]
  <2>1. k # 1
    BY <1>6
  <2> QED BY <1>2, <1>4, <2>1
<1>7. ASSUME NEW i \in DOMAIN ifs'[dev.unit].v4
      PROVE  \E l \in 1..m : th'[t].todo[l] = On("siocdifaddr", ifs'[dev.unit].v4[i])
  <2>1. PICK j \in DOMAIN ifs[dev.unit].v4 :
          /\ ifs'[dev.unit].v4[i] = ifs[dev.unit].v4[j]
          /\ On("siocdifaddr", ifs[dev.unit].v4[j]) # Now(t)
    OBVIOUS
  <2>2. PICK k \in 1..n : th[t].todo[k] = On("siocdifaddr", ifs[dev.unit].v4[j])
    BY <1>1
  <2>3. PICK l \in 1..m : th'[t].todo[l] = th[t].todo[k]
    BY <1>6, <2>1, <2>2
  <2> QED BY <2>1, <2>2, <2>3
<1>8. ASSUME NEW r \in Stale(t)'
      PROVE  \E l \in 1..m : \E h \in Entries :
               th'[t].todo[l] = On("route_delete", h) /\ SameNet(r, h)
  <2>1. r \in ifs'[dev.unit].routes /\ r \in Stale(t)
    BY <1>8 DEF Stale
  <2>2. PICK k \in 1..n, h \in Entries : th[t].todo[k] = On("route_delete", h) /\ SameNet(r, h)
    BY <1>1, <2>1
  <2>3. PICK l \in 1..m : th'[t].todo[l] = th[t].todo[k]
    BY <1>6, <2>1, <2>2
  <2> QED BY <2>2, <2>3
<1>9. DeletingAt(t, m)'
  BY <1>2, <1>5, <1>7, <1>8 DEF DeletingAt
<1> QED BY <1>2, <1>9 DEF Deleting

(* An address goes, or the new one comes.                                  *)
LEMMA IoctlOutcome ==
  ASSUME NamesApart, KernelInv, UnitInv, ThreadInv, LockInv, NetworkInv, NEW t \in Thread,
         Ioctl(t), th[t].op.kind = "set_network_address", ~th[t].warned
  PROVE  Outcome(t)
<1> DEFINE f == ifs[dev.unit]
           g == ifs'[dev.unit]
<1>0. /\ UNCHANGED <<os, dev>> /\ Advance(t) /\ Present(dev.unit)
      /\ g = Written(f, Now(t), th[t].op)
  BY IoctlStep
<1>1. /\ ~Idle(t) /\ th[t].op \in V4Op /\ th[t].had \subseteq Entries
      /\ DOMAIN th[t] = ThreadFields /\ th[t].todo \in Seq(Calls(th[t].op))
      /\ th[t].todo # <<>>
      /\ Len(th[t].todo) \in Nat /\ Now(t) = th[t].todo[1] /\ dev.unit \in Unit
  BY SetNetworkFacts
<1>2. \/ th'[t] = [IdleThread EXCEPT !.ok = TRUE] /\ Len(th[t].todo) = 1
      \/ /\ th'[t] = [th[t] EXCEPT !.todo = Tail(th[t].todo)]
         /\ Len(th[t].todo) > 1
  BY <1>0, <1>1, AdvanceStep
<1>3. Now(t).call \in ByName
  BY DEF Ioctl
<1>4. /\ DOMAIN f = {"name", "open", "v4", "v6", "routes", "mtu", "up", "sifhead"}
      /\ f.v4 \in Seq(Entries)
      /\ \A i, j \in DOMAIN f.v4 : f.v4[i].addr = f.v4[j].addr => i = j
  BY <1>1 DEF KernelInv, Interface
<1>5. th'[t] = [th[t] EXCEPT !.todo = Tail(th[t].todo)] =>
        /\ th'[t].op = th[t].op /\ th'[t].todo = Tail(th[t].todo)
        /\ th'[t].assoc = th[t].assoc /\ th'[t].had = th[t].had
        /\ th'[t].warned = th[t].warned
  BY <1>1 DEF ThreadFields
<1>6. ~Removing(t) /\ ~Added(t)
  <2>1. \A n \in 1..3 : n = 1 \/ n \in 2..3
    OBVIOUS
  <2>2. \A n \in 1..3 : ~RemovingAt(t, n)
    BY <1>1, <1>3, <2>1, StageCalls DEF ByName, Removal
  <2>3. ~Added(t)
    BY <1>1, <1>3, StageCalls DEF ByName
  <2> QED BY <2>2, <2>3 DEF Removing
<1>7. Deleting(t) \/ Adding(t)
  BY <1>6 DEF NetworkInv, Network
<1>8. CASE Deleting(t)
  <2>1. PICK n \in 0..Len(th[t].todo) : DeletingAt(t, n)
    BY <1>8 DEF Deleting
  <2>2. n # 0
    BY <1>1, <1>3, <2>1, StageCalls DEF ByName
  <2>3. n \in 1..Len(th[t].todo) /\ n \in Nat \ {0}
    BY <1>1, <2>2
  <2>4. Now(t) \in Deletions
    BY <1>1, <2>1, <2>3, StageCalls
  <2> DEFINE e == Now(t).entry
  <2>5. Now(t).call = "siocdifaddr" /\ Now(t) = On("siocdifaddr", e) /\ e \in Entries
    BY <1>3, <2>4, DeletionCalls DEF ByName
  <2>6. Len(th[t].todo) # 1
    <3>1. Len(th[t].todo) = n + (IF th[t].assoc THEN 3 ELSE 2)
      BY <2>1 DEF DeletingAt, Ahead
    <3>2. (IF th[t].assoc THEN 3 ELSE 2) \in 2..3
      OBVIOUS
    <3> QED BY <2>3, <3>1, <3>2
  <2>7. /\ th'[t].op = th[t].op /\ th'[t].todo = Tail(th[t].todo)
        /\ th'[t].assoc = th[t].assoc /\ th'[t].had = th[t].had
        /\ th'[t].warned = th[t].warned
    BY <1>2, <1>5, <2>6
  <2> DEFINE w == Without(f.v4, e.addr)
  <2>8. g = [f EXCEPT !.v4 = w]
    BY <1>0, <2>5 DEF Written
  <2>9. \A i \in DOMAIN w : \E j \in DOMAIN f.v4 : w[i] = f.v4[j] /\ f.v4[j].addr # e.addr
    BY <1>4, WithoutEffect
  <2> HIDE DEF w
  <2>10. g.v4 = w /\ g.routes = f.routes
    BY <1>4, <2>8
  <2> HIDE DEF f, g, e
  <2>11. \A i \in DOMAIN g.v4 : \E j \in DOMAIN f.v4 :
           g.v4[i] = f.v4[j] /\ On("siocdifaddr", f.v4[j]) # Now(t)
    <3>1. ASSUME NEW i \in DOMAIN g.v4
          PROVE  \E j \in DOMAIN f.v4 :
                   g.v4[i] = f.v4[j] /\ On("siocdifaddr", f.v4[j]) # Now(t)
      <4>1. PICK j \in DOMAIN f.v4 : w[i] = f.v4[j] /\ f.v4[j].addr # e.addr
        BY <2>9, <2>10
      <4>2. On("siocdifaddr", f.v4[j]) # On("siocdifaddr", e)
        BY <4>1 DEF On
      <4> QED BY <2>5, <2>10, <4>1, <4>2
    <3> QED BY <3>1
  <2>12. \A r \in g.routes : r \in f.routes /\
           \A h \in Entries : SameNet(r, h) => On("route_delete", h) # Now(t)
    <3>1. \A h : On("route_delete", h).call = "route_delete"
      BY DEF On
    <3> QED BY <2>5, <2>10, <3>1
  <2>13. Deleting(t)'
    BY <1>0, <1>1, <2>1, <2>3, <2>7, <2>11, <2>12, DeletingShift DEF f, g
  <2> QED BY <1>1, <2>7, <2>13 DEF Outcome, Network
<1>9. CASE Adding(t)
  <2> DEFINE e == Entry(th[t].op)
  <2>1. /\ th[t].todo[1] = On("siocaifaddr", e)
        /\ Len(th[t].todo) = (IF th[t].assoc THEN 2 ELSE 1)
        /\ th[t].assoc => th[t].todo[2] = On("route_add", e)
        /\ f.v4 = <<>> /\ Stale(t) = {}
    BY <1>0, <1>9 DEF Adding
  <2>2. Now(t).call = "siocaifaddr" /\ Now(t).entry = e
    BY <1>1, <2>1 DEF On
  <2>3. g = [f EXCEPT !.v4 = Append(Without(f.v4, e.addr), e)]
    BY <1>0, <2>2 DEF Written
  <2>4. Without(<<>>, e.addr) = <<>>
    BY DEF Without, Has
  <2> HIDE DEF e, f, g
  <2>5. g.v4 = <<e>> /\ g.routes = f.routes
    <3> DEFINE w == Without(f.v4, e.addr)
    <3>1. w = <<>>
      BY <2>1, <2>4
    <3> HIDE DEF w
    <3>2. g = [f EXCEPT !.v4 = Append(w, e)]
      BY <2>3 DEF w
    <3>3. Append(w, e) = <<e>>
      BY <3>1
    <3> QED BY <1>4, <3>2, <3>3
  <2>6. CASE th'[t] = [IdleThread EXCEPT !.ok = TRUE] /\ Len(th[t].todo) = 1
    <3>1. ~th[t].assoc
      BY <2>1, <2>6
    <3>2. Exact(t)
      BY <2>5, <3>1 DEF Exact, e, g
    <3>3. th'[t].op = NoOp
      BY <2>6 DEF IdleThread
    <3> QED BY <3>2, <3>3 DEF Outcome
  <2>7. CASE th'[t] = [th[t] EXCEPT !.todo = Tail(th[t].todo)] /\ Len(th[t].todo) > 1
    <3>1. th[t].assoc /\ Len(th[t].todo) = 2
      BY <2>1, <2>7
    <3>2. Len(Tail(th[t].todo)) = 1 /\ Tail(th[t].todo)[1] = th[t].todo[2]
      <4> DEFINE s == th[t].todo
      <4>1. s \in Seq(Calls(th[t].op)) /\ s # <<>> /\ Len(s) = 2
        BY <1>1, <3>1
      <4> HIDE DEF s
      <4>2. /\ Len(Tail(s)) = Len(s) - 1
            /\ \A k \in 1 .. Len(s) - 1 : Tail(s)[k] = s[k + 1]
        BY <4>1, TailOf
      <4>3. 1 \in 1 .. Len(s) - 1
        BY <4>1
      <4>4. Tail(s)[1] = s[1 + 1]
        BY <4>2, <4>3, Zenon
      <4>5. 1 + 1 = 2 /\ 2 - 1 = 1
        OBVIOUS
      <4>6. Tail(s)[1] = s[2]
        BY <4>4, <4>5, Zenon
      <4>7. Len(Tail(s)) = 1
        BY <4>1, <4>2, <4>5, Zenon
      <4> QED BY <4>6, <4>7, Zenon DEF s
    <3>3. /\ th'[t].op = th[t].op /\ th'[t].todo = Tail(th[t].todo)
          /\ th'[t].assoc = th[t].assoc /\ th'[t].had = th[t].had
      BY <1>5, <2>7
    <3>4. Stale(t)' = {}
      BY <1>0, <2>1, <2>5, <3>3 DEF Stale, f, g
    <3>5. Added(t)'
      BY <1>0, <2>1, <2>5, <3>1, <3>2, <3>3, <3>4 DEF Added, e, g
    <3> QED BY <1>1, <3>3, <3>5 DEF Outcome, Network
  <2> QED BY <1>2, <2>6, <2>7
<1> QED BY <1>7, <1>8, <1>9

(* FreeBSD: the loop over the addresses goes on, or comes to its end.      *)
LEMMA DeleteAllOutcome ==
  ASSUME KernelInv, UnitInv, ThreadInv, LockInv, NetworkInv, NEW t \in Thread,
         DeleteAll(t), th[t].op.kind = "set_network_address", ~th[t].warned
  PROVE  Outcome(t)
<1>0. /\ UNCHANGED <<os, dev>>
      /\ \/ ifs[dev.unit].v4 = <<>> /\ Advance(t) /\ ifs' = ifs
         \/ th' = th
  BY DeleteAllStep
<1>1. /\ ~Idle(t) /\ th[t].op \in V4Op /\ th[t].had \subseteq Entries
      /\ DOMAIN th[t] = ThreadFields /\ th[t].todo \in Seq(Calls(th[t].op))
      /\ Len(th[t].todo) \in Nat /\ Now(t) = th[t].todo[1] /\ dev.unit \in Unit
  BY SetNetworkFacts
<1>2. Now(t).call = "siocdifaddr_loop"
  BY DEF DeleteAll, At
<1>3. RemovingAt(t, 1)
  <2>1. ~Adding(t) /\ ~Added(t) /\ \A n \in 2..3 : ~RemovingAt(t, n)
    BY <1>1, <1>2, StageCalls
  <2>2. ~Deleting(t)
    <3>1. ASSUME NEW n \in 0..Len(th[t].todo), DeletingAt(t, n) PROVE FALSE
      <4>1. CASE n = 0
        BY <1>1, <1>2, <3>1, <4>1, StageCalls
      <4>2. CASE n # 0
        <5>1. n \in 1..Len(th[t].todo)
          BY <1>1, <4>2
        <5>2. Now(t) \in Deletions
          BY <1>1, <3>1, <5>1, StageCalls
        <5> QED BY <1>2, <5>2, DeletionCalls
      <4> QED BY <4>1, <4>2
    <3> QED BY <3>1 DEF Deleting
  <2>3. PICK n \in 1..3 : RemovingAt(t, n)
    BY <2>1, <2>2 DEF NetworkInv, Network, Removing
  <2>4. n = 1 \/ n \in 2..3
    OBVIOUS
  <2> QED BY <2>1, <2>3, <2>4
<1>4. os = "freebsd"
  <2>1. Now(t).call = Removal
    BY <1>1, <1>3, StageCalls
  <2> QED BY <1>2, <2>1 DEF Removal
<1>5. Ahead(t, 1)
  BY <1>3 DEF RemovingAt
<1>6. CASE th' = th
  <2>1. Ahead(t, 1)' /\ Removal' = Removal
    BY <1>0, <1>5, <1>6 DEF Ahead, Removal
  <2>2. RemovingAt(t, 1)'
    BY <1>0, <1>3, <1>4, <1>6, <2>1 DEF RemovingAt
  <2>3. Removing(t)'
    <3>1. 1 \in 1..3
      OBVIOUS
    <3> QED BY <2>2, <3>1 DEF Removing
  <2> QED BY <1>1, <1>6, <2>3 DEF Outcome, Network
<1>7. CASE ifs[dev.unit].v4 = <<>> /\ Advance(t) /\ ifs' = ifs
  <2>1. \/ th'[t] = [IdleThread EXCEPT !.ok = TRUE] /\ Len(th[t].todo) = 1
        \/ th'[t] = [th[t] EXCEPT !.todo = Tail(th[t].todo)]
    BY <1>0, <1>1, <1>7, AdvanceStep
  <2>2. Len(th[t].todo) # 1
    <3>1. (IF th[t].assoc THEN 3 ELSE 2) \in 2..3
      OBVIOUS
    <3>2. 1 + (IF th[t].assoc THEN 3 ELSE 2) # 1
      BY <3>1
    <3> QED BY <1>5, <3>2 DEF Ahead
  <2>3. /\ th'[t].op = th[t].op /\ th'[t].todo = Tail(th[t].todo)
        /\ th'[t].assoc = th[t].assoc /\ th'[t].had = th[t].had
    BY <1>1, <2>1, <2>2 DEF ThreadFields
  <2>4. Ahead(t, 0)' /\ 0 \in 0..Len(th'[t].todo)
    <3>1. 1 \in Nat \ {0} /\ 1 - 1 = 0
      OBVIOUS
    <3>2. Ahead(t, 1 - 1)' /\ 1 - 1 \in 0..Len(th'[t].todo)
      BY <1>1, <1>5, <2>3, <3>1, AheadShift
    <3> QED BY <3>1, <3>2
  <2>5. DeletingAt(t, 0)'
    <3>1. Stale(t)' = {}
      BY <1>0, <1>4 DEF Stale
    <3>2. DOMAIN ifs'[dev.unit].v4 = {}
      BY <1>7
    <3>3. \A k \in 1..0 : th'[t].todo[k] \in Deletions
      OBVIOUS
    <3> QED BY <1>0, <2>4, <3>1, <3>2, <3>3 DEF DeletingAt
  <2>6. Deleting(t)'
    BY <2>4, <2>5 DEF Deleting
  <2> QED BY <1>1, <2>3, <2>6 DEF Outcome, Network
<1> QED BY <1>0, <1>6, <1>7

(* macOS: the list is made.                                                *)
LEMMA ListAllOutcome ==
  ASSUME KernelInv, UnitInv, ThreadInv, LockInv, NetworkInv, NEW t \in Thread,
         ListAll(t), th[t].op.kind = "set_network_address", ~th[t].warned
  PROVE  Outcome(t)
<1> DEFINE v4 == Listed(t)
           more == FlattenSeq([k \in DOMAIN v4 |->
                     <<On("siocdifaddr", v4[k])>> \o remove_route(v4[k], th[t].assoc)])
           s == th[t].todo
<1>0. /\ ~Idle(t) /\ UNCHANGED <<os, ifs, dev>> /\ Now(t).call = "list_all"
      /\ th' = [th EXCEPT ![t] = Continue(t, more)]
  BY DEF ListAll, At, Listed
<1>1. /\ th[t].op \in V4Op /\ th[t].had \subseteq Entries /\ ~IsRead(th[t].op)
      /\ DOMAIN th[t] = ThreadFields /\ s \in Seq(Calls(th[t].op)) /\ s # <<>>
      /\ Len(s) \in Nat /\ Now(t) = s[1] /\ dev.unit \in Unit
  BY SetNetworkFacts
<1>2. v4 \in Seq(Entries) /\ (dev.unit \in Target(t) => v4 = ifs[dev.unit].v4)
  BY <1>0, ListedIs
<1> HIDE DEF v4
<1>3. /\ more \in Seq(Deletions)
      /\ \A i \in DOMAIN v4 : In(On("siocdifaddr", v4[i]), more)
      /\ th[t].assoc => \A i \in DOMAIN v4 : In(On("route_delete", v4[i]), more)
  BY <1>2, ListedDeletions
<1> HIDE DEF more
<1>4. \/ th'[t] = [IdleThread EXCEPT !.ok = TRUE] /\ more \o Tail(s) = <<>>
      \/ th'[t] = [th[t] EXCEPT !.todo = more \o Tail(s)]
  BY <1>0, <1>1, <1>3, ListStep
<1>5. RemovingAt(t, 1)
  <2>1. ~Adding(t) /\ ~Added(t) /\ \A n \in 2..3 : ~RemovingAt(t, n)
    BY <1>0, <1>1, StageCalls
  <2>2. ~Deleting(t)
    <3>1. ASSUME NEW n \in 0..Len(s), DeletingAt(t, n) PROVE FALSE
      <4>1. CASE n = 0
        BY <1>0, <1>1, <3>1, <4>1, StageCalls
      <4>2. CASE n # 0
        <5>1. n \in 1..Len(s)
          BY <1>1, <4>2
        <5>2. Now(t) \in Deletions
          BY <1>1, <3>1, <5>1, StageCalls
        <5> QED BY <1>0, <5>2, DeletionCalls
      <4> QED BY <4>1, <4>2
    <3> QED BY <3>1 DEF Deleting
  <2>3. PICK n \in 1..3 : RemovingAt(t, n)
    BY <2>1, <2>2 DEF NetworkInv, Network, Removing
  <2>4. n = 1 \/ n \in 2..3
    OBVIOUS
  <2> QED BY <2>1, <2>3, <2>4
<1>6. os = "macos"
  <2>1. Now(t).call = Removal
    BY <1>1, <1>5, StageCalls
  <2> QED BY <1>0, <2>1 DEF Removal, KernelInv
<1>7. /\ Ahead(t, 1) /\ th[t].had = ToSet(ifs[dev.unit].v4)
      /\ Present(dev.unit) => th[t].req = dev.unit
  BY <1>5, <1>6 DEF RemovingAt
<1>8. Present(dev.unit) => v4 = ifs[dev.unit].v4
  BY <1>0, <1>2, <1>6, <1>7, TargetFound
<1> DEFINE y == Tail(s)
           m == IF th[t].assoc THEN 3 ELSE 2
<1>9. /\ Len(s) = 1 + m /\ s[1 + 1] = C("name")
      /\ s[1 + 2] = On("siocaifaddr", Entry(th[t].op))
      /\ th[t].assoc => s[1 + 3] = On("route_add", Entry(th[t].op))
  BY <1>7 DEF Ahead
<1>10. m \in 2..3 /\ (th[t].assoc => m = 3)
  OBVIOUS
<1>11. s \in Seq(Calls(th[t].op)) /\ s # <<>>
  BY <1>1
<1> HIDE DEF s
<1>12. y \in Seq(Calls(th[t].op)) /\ Len(y) = Len(s) - 1
       /\ \A k \in 1 .. Len(s) - 1 : y[k] = s[k + 1]
  BY <1>11, TailOf
<1>13. /\ Len(y) = m /\ y[1] = C("name")
       /\ y[2] = On("siocaifaddr", Entry(th[t].op))
       /\ th[t].assoc => y[3] = On("route_add", Entry(th[t].op))
  <2> HIDE DEF m, y
  <2>1. Len(y) = m
    BY <1>9, <1>10, <1>12
  <2>2. y[1] = C("name") /\ y[2] = On("siocaifaddr", Entry(th[t].op))
    <3>1. 1 \in 1 .. Len(s) - 1 /\ 2 \in 1 .. Len(s) - 1 /\ 2 + 1 = 1 + 2
      BY <1>9, <1>10
    <3>2. y[1] = s[1 + 1] /\ y[2] = s[1 + 2]
      BY <1>12, <3>1
    <3> QED BY <1>9, <3>2
  <2>3. ASSUME th[t].assoc PROVE y[3] = On("route_add", Entry(th[t].op))
    <3>1. 3 \in 1 .. Len(s) - 1 /\ 3 + 1 = 1 + 3
      BY <1>9, <1>10, <2>3
    <3>2. y[3] = s[1 + 3]
      BY <1>12, <3>1
    <3> QED BY <1>9, <2>3, <3>2
  <2> QED BY <2>1, <2>2, <2>3
<1> DEFINE S == Calls(th[t].op)
<1>14. more \in Seq(S) /\ y \in Seq(S) /\ Len(more) \in Nat
  <2> DEFINE D == Deletions
  <2>1. D \subseteq S /\ more \in Seq(D)
    BY <1>1, <1>3 DEF Calls
  <2> HIDE DEF S, D
  <2>2. more \in Seq(S) /\ Len(more) \in Nat
    BY <2>1
  <2> QED BY <1>12, <2>2 DEF S
<1> HIDE DEF y, S
<1>14a. PICK n \in Nat : n = Len(more)
  BY <1>14
<1>15. Len(more \o y) = n + m
  <2> HIDE DEF m
  <2>1. Len(more \o y) = Len(more) + Len(y)
    BY <1>14, ConcatType
  <2> QED BY <1>13, <1>14a, <2>1
<1>16. \A k \in 1..n : (more \o y)[k] = more[k]
  BY <1>14a, <1>14, ConcatFront
<1>17. \A k \in 1..m : (more \o y)[n + k] = y[k]
  <2> HIDE DEF m
  <2>1. \A k \in 1..Len(y) : (more \o y)[Len(more) + k] = y[k]
    BY <1>14, ConcatBack
  <2> QED BY <1>14a, <1>13, <2>1
<1>18. more \o y # <<>>
  <2> HIDE DEF m
  <2>1. Len(more \o y) # 0
    BY <1>10, <1>14, <1>15
  <2> QED BY <2>1
<1>19. /\ th'[t].op = th[t].op /\ th'[t].todo = more \o y
       /\ th'[t].assoc = th[t].assoc /\ th'[t].had = th[t].had
  BY <1>1, <1>4, <1>18 DEF ThreadFields, y
<1>20. Ahead(t, n)'
  <2>1. 1 \in 1..m /\ 2 \in 1..m /\ (th[t].assoc => 3 \in 1..m)
    BY <1>10
  <2>2. /\ (more \o y)[n + 1] = C("name")
        /\ (more \o y)[n + 2] = On("siocaifaddr", Entry(th[t].op))
        /\ th[t].assoc => (more \o y)[n + 3] = On("route_add", Entry(th[t].op))
    <3> HIDE DEF m
    <3> QED BY <1>13, <1>17, <2>1
  <2> QED BY <1>15, <1>19, <2>2 DEF Ahead
<1>21. n \in 0..Len(th'[t].todo)
  <2> HIDE DEF m
  <2> QED BY <1>10, <1>15, <1>19
<1>22. \A k \in 1..n : th'[t].todo[k] \in Deletions
  <2> HIDE DEF m
  <2>1. \A k \in 1..n : more[k] \in Deletions
    BY <1>14a, <1>3
  <2> QED BY <1>16, <1>19, <2>1
<1>23. ASSUME NEW c, In(c, more) PROVE \E k \in 1..n : th'[t].todo[k] = c
  <2>1. PICK k \in 1..n : more[k] = c
    BY <1>14a, <1>23 DEF In
  <2> HIDE DEF m
  <2> QED BY <1>16, <1>19, <2>1
<1>24. ASSUME Present(dev.unit), NEW i \in DOMAIN ifs[dev.unit].v4
       PROVE  \E k \in 1..n : th'[t].todo[k] = On("siocdifaddr", ifs[dev.unit].v4[i])
  <2> HIDE DEF m
  <2> QED BY <1>3, <1>8, <1>23, <1>24
<1>25. ASSUME Present(dev.unit), NEW r \in Stale(t)
       PROVE  \E k \in 1..n : \E h \in Entries :
                th'[t].todo[k] = On("route_delete", h) /\ SameNet(r, h)
  <2>1. PICK h \in th[t].had : SameNet(r, h)
    BY <1>25 DEF Stale
  <2>2. th[t].assoc
    BY <1>25 DEF Stale
  <2>3. PICK i \in DOMAIN ifs[dev.unit].v4 : ifs[dev.unit].v4[i] = h
    BY <1>7 DEF ToSet
  <2> HIDE DEF m
  <2>4. In(On("route_delete", h), more)
    BY <1>3, <1>8, <1>25, <2>2, <2>3
  <2>5. PICK k \in 1..n : th'[t].todo[k] = On("route_delete", h)
    BY <1>23, <2>4
  <2> QED BY <1>1, <2>1, <2>5
<1>26. DeletingAt(t, n)'
  <2>1. Stale(t)' = Stale(t) /\ Present(dev.unit)' = Present(dev.unit)
    BY <1>0, <1>19 DEF Stale, Present
  <2> HIDE DEF m
  <2> QED BY <1>0, <1>20, <1>22, <1>24, <1>25, <2>1 DEF DeletingAt, Present
<1>27. Deleting(t)'
  BY <1>21, <1>26 DEF Deleting
<1> QED BY <1>1, <1>19, <1>27 DEF Outcome, Network

(* A route goes, or the one to the new network comes.                      *)
LEMMA RouteOutcome ==
  ASSUME KernelInv, UnitInv, ThreadInv, LockInv, NetworkInv, NEW t \in Thread,
         Route(t), th[t].op.kind = "set_network_address", ~th[t].warned
  PROVE  Outcome(t)
<1> DEFINE f == ifs[dev.unit]
           g == ifs'[dev.unit]
<1>0. /\ UNCHANGED <<os, dev>> /\ Advance(t) /\ Present(dev.unit)
      /\ g.v4 = f.v4
      /\ Now(t).call = "route_delete" => g.routes = {r \in f.routes : ~SameNet(r, Now(t).entry)}
      /\ Now(t).call # "route_delete" =>
           /\ \A r \in g.routes : r \in f.routes \/ r = RouteOf(Now(t).entry)
           /\ \E r \in g.routes : SameNet(r, Now(t).entry)
  BY RoutesStep
<1>1. /\ ~Idle(t) /\ th[t].op \in V4Op /\ th[t].had \subseteq Entries
      /\ DOMAIN th[t] = ThreadFields /\ th[t].todo \in Seq(Calls(th[t].op))
      /\ th[t].todo # <<>>
      /\ Len(th[t].todo) \in Nat /\ Now(t) = th[t].todo[1] /\ dev.unit \in Unit
  BY SetNetworkFacts
<1>2. \/ th'[t] = [IdleThread EXCEPT !.ok = TRUE] /\ Len(th[t].todo) = 1
      \/ /\ th'[t] = [th[t] EXCEPT !.todo = Tail(th[t].todo)]
         /\ Len(th[t].todo) > 1
  BY <1>0, <1>1, AdvanceStep
<1>3. Now(t).call \in {"route_add", "route_delete"}
  BY DEF Route, At
<1>4. ~Removing(t) /\ ~Adding(t)
  <2>1. \A n \in 1..3 : n = 1 \/ n \in 2..3
    OBVIOUS
  <2>2. \A n \in 1..3 : ~RemovingAt(t, n)
    BY <1>1, <1>3, <2>1, StageCalls DEF Removal
  <2>3. ~Adding(t)
    BY <1>1, <1>3, StageCalls
  <2> QED BY <2>2, <2>3 DEF Removing
<1>5. Deleting(t) \/ Added(t)
  BY <1>4 DEF NetworkInv, Network
<1>6. CASE Deleting(t)
  <2>1. PICK n \in 0..Len(th[t].todo) : DeletingAt(t, n)
    BY <1>6 DEF Deleting
  <2>2. n # 0
    BY <1>1, <1>3, <2>1, StageCalls
  <2>3. n \in 1..Len(th[t].todo) /\ n \in Nat \ {0}
    BY <1>1, <2>2
  <2>4. Now(t) \in Deletions
    BY <1>1, <2>1, <2>3, StageCalls
  <2> DEFINE e == Now(t).entry
  <2>5. Now(t).call = "route_delete" /\ Now(t) = On("route_delete", e) /\ e \in Entries
    BY <1>3, <2>4, DeletionCalls
  <2>6. Len(th[t].todo) # 1
    <3>1. Len(th[t].todo) = n + (IF th[t].assoc THEN 3 ELSE 2)
      BY <2>1 DEF DeletingAt, Ahead
    <3>2. (IF th[t].assoc THEN 3 ELSE 2) \in 2..3
      OBVIOUS
    <3> QED BY <2>3, <3>1, <3>2
  <2>7. /\ th'[t].op = th[t].op /\ th'[t].todo = Tail(th[t].todo)
        /\ th'[t].assoc = th[t].assoc /\ th'[t].had = th[t].had
    BY <1>1, <1>2, <2>6 DEF ThreadFields
  <2>8. g.routes = {r \in f.routes : ~SameNet(r, e)}
    BY <1>0, <2>5
  <2> HIDE DEF f, g, e
  <2>9. \A i \in DOMAIN g.v4 : \E j \in DOMAIN f.v4 :
          g.v4[i] = f.v4[j] /\ On("siocdifaddr", f.v4[j]) # Now(t)
    <3>1. \A h : On("siocdifaddr", h).call = "siocdifaddr"
      BY DEF On
    <3> QED BY <1>0, <2>5, <3>1
  <2>10. \A r \in g.routes : r \in f.routes /\
           \A h \in Entries : SameNet(r, h) => On("route_delete", h) # Now(t)
    <3>1. \A h : On("route_delete", h).entry = h
      BY DEF On
    <3>2. \A h : On("route_delete", h) = Now(t) => h = e
      BY <2>5, <3>1
    <3> QED BY <2>8, <3>2
  <2>11. Deleting(t)'
    BY <1>0, <1>1, <2>1, <2>3, <2>7, <2>9, <2>10, DeletingShift DEF f, g
  <2> QED BY <1>1, <2>7, <2>11 DEF Outcome, Network
<1>7. CASE Added(t)
  <2> DEFINE e == Entry(th[t].op)
  <2>1. /\ th[t].assoc /\ Len(th[t].todo) = 1 /\ th[t].todo[1] = On("route_add", e)
        /\ f.v4 = <<e>> /\ Stale(t) = {}
    BY <1>7 DEF Added
  <2>2. Now(t).call = "route_add" /\ Now(t).entry = e
    BY <1>1, <2>1 DEF On
  <2>3. th'[t].op = NoOp
    BY <1>2, <2>1 DEF IdleThread
  <2>4. /\ g.v4 = <<e>> /\ \E r \in g.routes : SameNet(r, e)
        /\ \A r \in g.routes : r \in f.routes \/ r = RouteOf(e)
    <3> HIDE DEF f, g, e
    <3> QED BY <1>0, <2>1, <2>2
  <2>5. ASSUME os = "macos", NEW r \in g.routes, NEW h \in th[t].had, SameNet(r, h)
        PROVE  SameNet(r, e)
    <3>1. CASE r \in f.routes
      <4>1. r \in Stale(t)
        BY <2>1, <2>5, <3>1 DEF Stale
      <4> QED BY <2>1, <4>1
    <3>2. CASE r = RouteOf(e)
      BY <3>2, OwnRoute
    <3> QED BY <2>4, <3>1, <3>2
  <2>6. Exact(t)
    BY <2>4, <2>5 DEF Exact
  <2> QED BY <2>3, <2>6 DEF Outcome
<1> QED BY <1>5, <1>6, <1>7

(* Calls that set_network_address does not make before something is logged. *)
LEMMA StageNow ==
  ASSUME KernelInv, UnitInv, ThreadInv, NetworkInv, NEW t \in Thread,
         th[t].op.kind = "set_network_address", ~th[t].warned
  PROVE  Now(t).call \in {"name", "siocdifaddr_loop", "list_all", "siocdifaddr",
                          "route_delete", "siocaifaddr", "route_add"}
<1>1. Now(t) = th[t].todo[1] /\ Len(th[t].todo) \in Nat
  BY SetNetworkFacts
<1>2. CASE Removing(t)
  <2>1. PICK n \in 1..3 : RemovingAt(t, n)
    BY <1>2 DEF Removing
  <2>2. n = 1 \/ n \in 2..3
    OBVIOUS
  <2> QED BY <1>1, <2>1, <2>2, StageCalls DEF Removal
<1>3. CASE Deleting(t)
  <2>1. PICK n \in 0..Len(th[t].todo) : DeletingAt(t, n)
    BY <1>3 DEF Deleting
  <2>2. CASE n = 0
    BY <1>1, <2>1, <2>2, StageCalls
  <2>3. CASE n # 0
    <3>1. n \in 1..Len(th[t].todo)
      BY <1>1, <2>3
    <3>2. Now(t) \in Deletions
      BY <1>1, <2>1, <3>1, StageCalls
    <3> QED BY <3>2, DeletionCalls
  <2> QED BY <2>2, <2>3
<1>4. CASE Adding(t) \/ Added(t)
  BY <1>1, <1>4, StageCalls
<1> QED BY <1>2, <1>3, <1>4 DEF NetworkInv, Network

(* Every step of set_network_address.                                      *)
LEMMA SetNetworkStep ==
  ASSUME NamesApart, KernelInv, UnitInv, ThreadInv, LockInv, NetworkInv,
         NEW t \in Thread, Operating(t), th[t].op.kind = "set_network_address"
  PROVE  Outcome(t)
<1>1. ~Idle(t) /\ th[t].had \subseteq Entries
  BY SetNetworkFacts
<1>2. Onward(t)
  BY <1>1, OperatingStep
<1>3. CASE th[t].warned
  BY <1>1, <1>2, <1>3, WarnedOutcome
<1>4. CASE ~th[t].warned
  <2>1. Now(t).call \in {"name", "siocdifaddr_loop", "list_all", "siocdifaddr",
                         "route_delete", "siocaifaddr", "route_add"}
    BY <1>4, StageNow
  <2>2. ASSUME NEW o \in Op, Call(t, o) PROVE Outcome(t)
    BY <1>1, <2>2 DEF Call
  <2>3. CASE Name(t)
    BY <2>3, NameOutcome
  <2>4. CASE Ioctl(t)
    BY <1>4, <2>4, IoctlOutcome
  <2>5. CASE DeleteAll(t)
    BY <1>4, <2>5, DeleteAllOutcome
  <2>6. CASE ListAll(t)
    BY <1>4, <2>6, ListAllOutcome
  <2>7. CASE Route(t)
    BY <1>4, <2>7, RouteOutcome
  <2>8. CASE ListMatching(t) \/ SetSifhead(t) \/ SetAssociateRoute(t)
    BY <2>1, <2>8 DEF ListMatching, SetSifhead, SetAssociateRoute, At
  <2>9. CASE ListFails(t) \/ RouteFails(t)
    BY <1>1, <2>9, WarnedStep DEF Outcome, Warned, Network
  <2>10. CASE Fails(t)
    BY <2>10, FailsStep DEF Outcome, IdleThread
  <2> QED BY <2>2, <2>3, <2>4, <2>5, <2>6, <2>7, <2>8, <2>9, <2>10 DEF Operating
<1> QED BY <1>3, <1>4

-----------------------------------------------------------------------------
(* The inductive invariant. *)

LEMMA InitNInv == ASSUME Init PROVE NInv
<1>1. os \in {"freebsd", "macos"}
  BY BoundsAssumption DEF Init
<1>2. KernelInv
  <2>1. PICK b \in SUBSET Unit :
          ifs = [u \in Unit |-> IF u \in b THEN [Absent EXCEPT !.name = u, !.open = TRUE]
                                           ELSE Absent]
    BY DEF Init
  <2>2. None \notin Unit
    BY ConfigAssumption
  <2>3. ASSUME NEW u \in Unit
        PROVE  /\ Interface(ifs[u])
               /\ ifs[u].name \in {u, None}
    <3>1. CASE u \in b
      <4>1. ifs[u] = [Absent EXCEPT !.name = u, !.open = TRUE]
        BY <2>1, <3>1
      <4>2. ifs[u].name = u
        BY <4>1 DEF Absent
      <4> QED BY <4>1, <4>2, AbsentInterface
    <3>2. CASE u \notin b
      <4>1. ifs[u] = Absent
        BY <2>1, <3>2
      <4>2. ifs[u].name = None
        BY <4>1 DEF Absent
      <4> QED BY <4>1, <4>2, AbsentInterface
    <3> QED BY <3>1, <3>2
  <2>4. DOMAIN ifs = Unit
    BY <2>1
  <2> QED BY <1>1, <2>2, <2>3, <2>4 DEF KernelInv
<1>3. UnitInv
  BY DEF Init, UnitInv, NoDev, Closed
<1>4. \A t \in Thread : th[t] = IdleThread
  BY DEF Init
<1>5. ThreadInv /\ LockInv
  <2>1. DOMAIN th = Thread
    BY DEF Init
  <2>2. DOMAIN IdleThread = {"op", "todo", "req", "assoc", "had", "warned", "ok"}
        /\ IdleThread.op = NoOp
    BY DEF IdleThread
  <2> QED BY <1>4, <2>1, <2>2 DEF ThreadInv, LockInv, Idle
<1>6. NetworkInv
  <2>1. IdleThread.op.kind = "none"
    BY DEF IdleThread, NoOp
  <2> QED BY <1>4, <2>1 DEF NetworkInv
<1> QED BY <1>2, <1>3, <1>5, <1>6 DEF NInv

(* While one thread writes, no other one is in set_network_address.        *)
LEMMA OthersNetwork ==
  ASSUME NamesApart, KernelInv, UnitInv, ThreadInv, LockInv, NetworkInv,
         NEW t \in Thread, Operating(t), NEW u \in Thread, u # t
  PROVE  th'[u].op.kind = "set_network_address" => Network(u)'
<1>1. th'[u] = th[u]
  BY OperatingStep
<1>2. ASSUME th[u].op.kind = "set_network_address" PROVE FALSE
  <2>1. ~Idle(u) /\ ~IsRead(th[u].op)
    BY <1>2, SetNetworkFacts
  <2>2. Idle(t)
    BY <2>1 DEF LockInv
  <2>3. PICK o \in Op : Call(t, o)
    BY <2>2 DEF Operating, Name, Ioctl, DeleteAll, ListAll, ListMatching, ListFails, Route,
                RouteFails, SetSifhead, SetAssociateRoute, Fails, At
  <2>4. MayLock(t, o)
    BY <2>3 DEF Call
  <2> QED BY <2>1, <2>4 DEF MayLock
<1> QED BY <1>1, <1>2

LEMMA OperatingNetwork ==
  ASSUME NamesApart, KernelInv, UnitInv, ThreadInv, LockInv, NetworkInv,
         NEW t \in Thread, Operating(t)
  PROVE  NetworkInv'
<1>1. ASSUME th'[t].op.kind = "set_network_address" PROVE Network(t)'
  <2>1. CASE Idle(t)
    <3>1. PICK o \in Op : Call(t, o)
      BY <2>1 DEF Operating, Name, Ioctl, DeleteAll, ListAll, ListMatching, ListFails, Route,
                  RouteFails, SetSifhead, SetAssociateRoute, Fails, At
    <3> QED BY <1>1, <3>1, CallOutcome
  <2>2. CASE ~Idle(t)
    <3>1. Onward(t)
      BY <2>2, OperatingStep
    <3>2. th'[t].op # NoOp
      BY <1>1 DEF NoOp
    <3>3. th[t].op.kind = "set_network_address"
      BY <1>1, <3>1, <3>2 DEF Onward
    <3>4. Outcome(t)
      BY <3>3, SetNetworkStep
    <3> QED BY <3>2, <3>4 DEF Outcome
  <2> QED BY <2>1, <2>2
<1> QED BY <1>1, OthersNetwork DEF NetworkInv

LEMMA NextNInv == ASSUME NamesApart, IInv, NInv, [Next]_vars PROVE NInv'
<1>0. KernelInv /\ UnitInv /\ ThreadInv /\ LockInv /\ NetworkInv
  BY DEF NInv
<1>1. CASE Making
  <2>1. KernelInv' /\ UnitInv' /\ dev.phase # "ready" /\ th' = th
    BY <1>0, <1>1, MakingKernel
  <2> QED BY <1>0, <2>1, QuietStep DEF NInv
<1>2. CASE Ending
  <2>1. KernelInv' /\ UnitInv' /\ (AllIdle \/ dev.phase # "ready") /\ th' = th
    BY <1>0, <1>2, EndingKernel
  <2> QED BY <1>0, <2>1, QuietStep DEF NInv
<1>3. ASSUME NEW t \in Thread, Operating(t) PROVE NInv'
  <2>1. KernelInv' /\ UnitInv' /\ ThreadInv' /\ LockInv'
    BY <1>0, <1>3, OperatingStep
  <2> QED BY <1>0, <1>3, <2>1, OperatingNetwork DEF NInv
<1>4. CASE FileOpens \/ FileCloses
  <2>1. KernelInv' /\ UnitInv' /\ UNCHANGED <<os, ifs, dev, th>>
    BY <1>0, <1>4, FilesKernel
  <2> QED BY <1>0, <2>1, FrameStep DEF NInv
<1>5. CASE UNCHANGED vars
  <2>1. UNCHANGED <<os, ifs, dev, th>> /\ UNCHANGED <<fds, raw>>
    BY <1>5 DEF vars
  <2>2. KernelInv'
    BY <1>0, <2>1, KernelFrame
  <2>3. UnitInv'
    BY <1>0, <2>1 DEF UnitInv
  <2> QED BY <1>0, <2>1, <2>2, <2>3, FrameStep DEF NInv
<1> QED BY <1>1, <1>2, <1>3, <1>4, <1>5 DEF Next

(* The step with which set_network_address returns.                        *)
LEMMA ExactStep ==
  ASSUME NamesApart, IInv, NInv, [Next]_vars, NEW t \in Thread PROVE LeavesExact(t)
<1>0. KernelInv /\ UnitInv /\ ThreadInv /\ LockInv /\ NetworkInv
  BY DEF NInv
<1> SUFFICES ASSUME Returns(t), th[t].op.kind = "set_network_address", ~Warned(t)
             PROVE  LET e == Wanted(th[t].op)
                        g == ifs[dev.unit]'
                    IN  /\ g.v4 = <<e>>
                        /\ th[t].assoc => \E r \in g.routes : Leads(r, e)
                        /\ th[t].assoc /\ os = "macos" =>
                             \A r \in g.routes : \A h \in th[t].had :
                               Leads(r, h) => Leads(r, e)
  BY DEF LeavesExact
<1>1. /\ th'[t].op = NoOp /\ th'[t].ok /\ th'[t] # th[t]
      /\ th[t].op.kind = "set_network_address"
  BY DEF Returns, Idle
<1>2. /\ ~Idle(t) /\ th[t].op \in V4Op /\ Entry(th[t].op) \in Entries
      /\ th[t].had \subseteq Entries /\ dev.unit \in Unit
  BY <1>0, SetNetworkFacts
<1>3. Operating(t)
  <2>1. th' # th
    BY <1>1
  <2>2. ~Making
    BY <1>0, <2>1, MakingKernel
  <2>3. ~Ending
    BY <1>0, <2>1, EndingKernel
  <2>4. ~FileOpens /\ ~FileCloses /\ ~UNCHANGED vars
    BY <2>1 DEF FileOpens, FileCloses, vars
  <2>5. PICK u \in Thread : Operating(u)
    BY <2>2, <2>3, <2>4 DEF Next
  <2>6. u = t
    BY <1>0, <1>1, <2>5, OperatingStep
  <2> QED BY <2>5, <2>6
<1>4. Exact(t)
  <2>1. Outcome(t)
    BY <1>0, <1>1, <1>3, SetNetworkStep
  <2>2. th[t].op # NoOp
    BY <1>1 DEF NoOp
  <2> QED BY <1>1, <2>1, <2>2 DEF Outcome
<1>5. KernelInv' /\ dev'.unit = dev.unit
  <2>1. KernelInv'
    BY <1>0, <1>3, OperatingStep
  <2>2. dev' = dev \/ dev' = [dev EXCEPT !.associate_route = th[t].op.arg]
    BY <1>3, OperatingEffect
  <2>3. dev'.unit = dev.unit
    <3>1. CASE dev' = dev
      BY <3>1
    <3>2. CASE dev' = [dev EXCEPT !.associate_route = th[t].op.arg]
      BY <3>2
    <3> QED BY <2>2, <3>1, <3>2
  <2> QED BY <2>1, <2>3
<1> DEFINE e == Entry(th[t].op)
           g == ifs'[dev.unit]
<1>6. e = Wanted(th[t].op)
  BY <1>2, EntryRight
<1>7. \A r \in g.routes : \E x \in Entries : r = RouteOf(x)
  BY <1>2, <1>5 DEF KernelInv, Interface
<1>8. ifs[dev.unit]' = g
  BY <1>5
<1>9. /\ g.v4 = <<e>>
      /\ th[t].assoc => \E r \in g.routes : SameNet(r, e)
      /\ th[t].assoc /\ os = "macos" =>
           \A r \in g.routes : \A h \in th[t].had : SameNet(r, h) => SameNet(r, e)
  BY <1>4 DEF Exact
<1> HIDE DEF e, g
<1>10. ASSUME NEW r \in g.routes, NEW h \in Entries PROVE Leads(r, h) <=> SameNet(r, h)
  <2>1. PICK x \in Entries : r = RouteOf(x)
    BY <1>7
  <2> QED BY <2>1, LeadsIsSameNet
<1>11. e \in Entries
  BY <1>2 DEF e
<1>12. th[t].assoc => \E r \in g.routes : Leads(r, e)
  BY <1>9, <1>10, <1>11
<1>13. th[t].assoc /\ os = "macos" =>
         \A r \in g.routes : \A h \in th[t].had : Leads(r, h) => Leads(r, e)
  BY <1>2, <1>9, <1>10, <1>11
<1> QED BY <1>6, <1>8, <1>9, <1>12, <1>13

(* Every operation on the interface is at some call of its script under    *)
(* op_lock, the kernel has only what was asked for, and what a thread in   *)
(* set_network_address has still to remove or to add is what is left.      *)
THEOREM NetworkInvariance == NamesApart => (Spec => []NInv)
<1> SUFFICES ASSUME NamesApart PROVE Spec => []NInv
  OBVIOUS
<1>1. Init => NInv
  BY InitNInv
<1>2. IInv /\ NInv /\ [Next]_vars => NInv'
  BY NextNInv
<1> QED BY <1>1, <1>2, Invariance, PTL DEF Spec

(* NetworkAddressExact: a set_network_address that returns Ok leaves the   *)
(* interface with the address asked for and no other, with its route if    *)
(* routes are associated, and on macOS with no route of an address that it *)
(* removed, however the calls of other threads fall between its own, for   *)
(* addresses of any width.                                                 *)
THEOREM NetworkAddressIsExact == NamesApart => (Spec => NetworkAddressExact)
<1> SUFFICES ASSUME NamesApart PROVE Spec => NetworkAddressExact
  OBVIOUS
<1>1. IInv /\ NInv /\ [Next]_vars => [\A t \in Thread : LeavesExact(t)]_vars
  BY ExactStep
<1>2. Spec => []NInv
  BY NetworkInvariance
<1> QED BY <1>1, <1>2, Invariance, PTL DEF Spec, NetworkAddressExact
=============================================================================
