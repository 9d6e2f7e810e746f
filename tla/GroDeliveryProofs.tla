-------------------------- MODULE GroDeliveryProofs --------------------------
(***************************************************************************)
(* Proofs about what send_multiple does with the packets, for every batch, *)
(* device, offset and number of calls: coalescing neither loses nor        *)
(* duplicates one, never hides a wrong checksum, leaves every buffer with  *)
(* the header its content needs, and the whole call delivers the batch as  *)
(* BatchDelivery promises; the kernel's segmentation of a coalesced buffer *)
(* gives back what went into it, and the datagrams of a flow keep their    *)
(* order.                                                                  *)
(*                                                                         *)
(* The inductive invariant DInv adds to IInv where each packet is          *)
(* (OnceInv), what an item says of the buffer it points at (ShapeInv),     *)
(* which buffers already have their header (HeaderInv), that a buffer of   *)
(* several packets has verified ones only, and what the write loop has     *)
(* remembered (OutcomeInv).  The last two sections add what an item knows  *)
(* of the packets in its buffer (GroupInv) and where the datagrams of a    *)
(* flow are (OrderInv).                                                    *)
(***************************************************************************)
EXTENDS GroBatchProofs

-----------------------------------------------------------------------------
(* The parts of the inductive invariant. *)

InGro == pc \in {"gro", "scan"}

(* The packets of P are in the buffers W of b, each in exactly one place,  *)
(* and nothing else is; no such buffer is empty.                           *)
Placed(b, W, P) ==
  /\ \A x \in W : b[x].segs # <<>>
  /\ \A x \in W : \A k \in DOMAIN b[x].segs : b[x].segs[k] \in P
  /\ \A i \in P : \E x \in W : \E k \in DOMAIN b[x].segs : b[x].segs[k] = i
  /\ \A x, y \in W : \A j \in DOMAIN b[x].segs, k \in DOMAIN b[y].segs :
       b[x].segs[j] = b[y].segs[k] => x = y /\ j = k

(* The packets the call has handled: all of them once it writes. *)
Handled == IF pc = "write" THEN DOMAIN pkts ELSE 1..pkt_i - 1

OnceInv == Busy => Placed(bufs, ToSet(to_write), Handled)

(* Only a device with virtio headers coalesces, and only to the end. *)
DeviceInv ==
  /\ InGro => dev.vnet_hdr
  /\ pc = "write" /\ dev.vnet_hdr => pkt_i = Len(pkts) + 1

(* num_merged tells whether the buffer holds one packet or several; behind *)
(* several, offset bytes of its capacity are left.                         *)
Shape(item) ==
  LET b == bufs[item.bufs_index]
  IN  /\ item.num_merged = 0 => b.segs = <<b.head>>
      /\ item.num_merged > 0 => Len(b.segs) > 1 /\ b.len + offset <= b.cap

ShapeInv == InGro => \A item \in AllItems : Shape(item)

(* A buffer that no item points at has its final header. *)
HeaderInv ==
  InGro =>
    \A x \in ToSet(to_write) :
      \/ \E item \in AllItems : item.bufs_index = x
      \/ bufs[x].vnet = "none" /\ Len(bufs[x].segs) = 1

(* Nothing is written before the loop is over, at most every buffer once,  *)
(* and EBADFD ends the call.                                               *)
OutcomeInv ==
  /\ Len(outcome) <= Len(to_write)
  /\ InGro => outcome = <<>>
  /\ pc = "write" => \A v \in DOMAIN outcome : outcome[v] # "badfd"

DInv ==
  /\ IInv
  /\ OnceInv
  /\ DeviceInv
  /\ ShapeInv
  /\ HeaderInv
  /\ NoBadChecksumMerged
  /\ HeadersWritten
  /\ OutcomeInv

-----------------------------------------------------------------------------
(* Placing one more packet. *)

(* new holds p in one place, and old in the others. *)
AddsOne(new, old, p) ==
  \E q \in DOMAIN new : \E m \in [DOMAIN new \ {q} -> DOMAIN old] :
    /\ new[q] = p
    /\ \A k \in DOMAIN new \ {q} : new[k] = old[m[k]]
    /\ \A j, k \in DOMAIN new \ {q} : m[j] = m[k] => j = k
    /\ \A i \in DOMAIN old : \E k \in DOMAIN new \ {q} : m[k] = i

(* Appending a packet. *)
LEMMA AddsBehind ==
  ASSUME NEW s \in Seq(Nat), NEW p \in Nat
  PROVE  AddsOne(Append(s, p), s, p)
<1> DEFINE n == Len(s) + 1
           new == Append(s, p)
           m == [k \in DOMAIN new \ {n} |-> k]
<1>1. DOMAIN new = 1..n /\ DOMAIN s = 1..Len(s) /\ Len(s) \in Nat
  OBVIOUS
<1>2. new[n] = p /\ \A k \in 1..Len(s) : new[k] = s[k]
  OBVIOUS
<1> HIDE DEF new
<1>0. n \in DOMAIN new /\ new[n] = p
  BY <1>1, <1>2
<1>3. DOMAIN new \ {n} = DOMAIN s
  BY <1>1
<1>4. m \in [DOMAIN new \ {n} -> DOMAIN s]
  BY <1>3
<1>5. \A k \in DOMAIN new \ {n} : m[k] = k
  OBVIOUS
<1> HIDE DEF n, m
<1>6. \A k \in DOMAIN new \ {n} : new[k] = s[m[k]]
  BY <1>1, <1>2, <1>3, <1>5
<1>7. \A j, k \in DOMAIN new \ {n} : m[j] = m[k] => j = k
  BY <1>5
<1>8. \A i \in DOMAIN s : \E k \in DOMAIN new \ {n} : m[k] = i
  BY <1>3, <1>5
<1>9. AddsOne(new, s, p)
  BY <1>0, <1>4, <1>6, <1>7, <1>8, Zenon DEF AddsOne
<1> QED BY <1>9 DEF new

(* Putting a packet in front. *)
LEMMA AddsBefore ==
  ASSUME NEW s \in Seq(Nat), NEW p \in Nat
  PROVE  AddsOne(<<p>> \o s, s, p)
<1> DEFINE new == <<p>> \o s
           m == [k \in DOMAIN new \ {1} |-> k - 1]
<1>1. DOMAIN new = 1..Len(s) + 1 /\ DOMAIN s = 1..Len(s) /\ Len(s) \in Nat
  OBVIOUS
<1>2. new[1] = p /\ \A k \in 2..Len(s) + 1 : new[k] = s[k - 1]
  OBVIOUS
<1> HIDE DEF new
<1>3. 1 \in DOMAIN new /\ DOMAIN new \ {1} = 2..Len(s) + 1
  BY <1>1
<1>4. m \in [DOMAIN new \ {1} -> DOMAIN s]
  BY <1>1, <1>3
<1>5. \A k \in DOMAIN new \ {1} : m[k] = k - 1
  OBVIOUS
<1> HIDE DEF m
<1>6. \A i \in DOMAIN s : \E k \in DOMAIN new \ {1} : m[k] = i
  <2> SUFFICES ASSUME NEW i \in DOMAIN s
               PROVE  i + 1 \in DOMAIN new \ {1} /\ m[i + 1] = i
    OBVIOUS
  <2> QED BY <1>1, <1>3, <1>5
<1>7. \A j, k \in DOMAIN new \ {1} : m[j] = m[k] => j = k
  BY <1>1, <1>3, <1>5
<1>8. \A k \in DOMAIN new \ {1} : new[k] = s[m[k]]
  BY <1>2, <1>3, <1>5
<1>9. AddsOne(new, s, p)
  BY <1>2, <1>3, <1>4, <1>6, <1>7, <1>8, Zenon DEF AddsOne
<1> QED BY <1>9 DEF new

(* Buffers with the same content place the same packets. *)
LEMMA PlacedSame ==
  ASSUME NEW b, NEW c, NEW W, NEW P, Placed(b, W, P),
         \A x \in W : c[x].segs = b[x].segs
  PROVE  Placed(c, W, P)
  BY DEF Placed

(* One buffer takes one packet more. *)
LEMMA PlacedInto ==
  ASSUME NEW b, NEW c, NEW W, NEW P, Placed(b, W, P),
         NEW p, p \notin P, NEW z \in W,
         AddsOne(c[z].segs, b[z].segs, p),
         \A x \in W : x # z => c[x].segs = b[x].segs
  PROVE  Placed(c, W, P \cup {p})
<1> DEFINE new == c[z].segs
           old == b[z].segs
<1>1. PICK q \in DOMAIN new : \E m \in [DOMAIN new \ {q} -> DOMAIN old] :
        /\ new[q] = p
        /\ \A k \in DOMAIN new \ {q} : new[k] = old[m[k]]
        /\ \A j, k \in DOMAIN new \ {q} : m[j] = m[k] => j = k
        /\ \A i \in DOMAIN old : \E k \in DOMAIN new \ {q} : m[k] = i
  BY DEF AddsOne
<1>2. PICK m \in [DOMAIN new \ {q} -> DOMAIN old] :
        /\ new[q] = p
        /\ \A k \in DOMAIN new \ {q} : new[k] = old[m[k]]
        /\ \A j, k \in DOMAIN new \ {q} : m[j] = m[k] => j = k
        /\ \A i \in DOMAIN old : \E k \in DOMAIN new \ {q} : m[k] = i
  BY <1>1
<1>4. \A k \in DOMAIN new \ {q} :
        m[k] \in DOMAIN b[z].segs /\ new[k] = b[z].segs[m[k]] /\ new[k] \in P /\ new[k] # p
  BY <1>2 DEF Placed
<1>5. \A x \in W : c[x].segs # <<>>
  BY <1>1 DEF Placed
<1>6. \A x \in W : \A k \in DOMAIN c[x].segs : c[x].segs[k] \in P \cup {p}
  BY <1>2, <1>4 DEF Placed
<1>7. ASSUME NEW i \in P
      PROVE  \E x \in W : \E k \in DOMAIN c[x].segs : c[x].segs[k] = i
  <2>1. PICK x \in W : \E k \in DOMAIN b[x].segs : b[x].segs[k] = i
    BY DEF Placed
  <2>2. PICK k \in DOMAIN b[x].segs : b[x].segs[k] = i
    BY <2>1
  <2>3. CASE x # z
    BY <2>2, <2>3
  <2>4. CASE x = z
    <3>1. k \in DOMAIN old /\ old[k] = i
      BY <2>2, <2>4
    <3>2. PICK j \in DOMAIN new \ {q} : m[j] = k
      BY <1>2, <3>1
    <3>3. new[j] = i
      BY <1>2, <3>1, <3>2
    <3> QED BY <3>2, <3>3
  <2> QED BY <2>3, <2>4
<1>8. \A i \in P \cup {p} :
        \E x \in W : \E k \in DOMAIN c[x].segs : c[x].segs[k] = i
  BY <1>2, <1>7
<1>9. ASSUME NEW x \in W, NEW y \in W,
             NEW j \in DOMAIN c[x].segs, NEW k \in DOMAIN c[y].segs,
             c[x].segs[j] = c[y].segs[k]
      PROVE  x = y /\ j = k
  <2>1. CASE x # z /\ y # z
    BY <1>9, <2>1 DEF Placed
  <2>2. CASE x = z /\ y # z
    <3>1. c[y].segs = b[y].segs /\ y \in W /\ c[y].segs[k] \in P
      BY <2>2 DEF Placed
    <3>2. j # q
      BY <1>2, <1>9, <2>2, <3>1
    <3>3. m[j] \in DOMAIN b[z].segs /\ b[z].segs[m[j]] = b[y].segs[k]
      BY <1>4, <1>9, <2>2, <3>1, <3>2
    <3> QED BY <2>2, <3>1, <3>3 DEF Placed
  <2>3. CASE x # z /\ y = z
    <3>1. c[x].segs = b[x].segs /\ x \in W /\ c[x].segs[j] \in P
      BY <2>3 DEF Placed
    <3>2. k # q
      BY <1>2, <1>9, <2>3, <3>1
    <3>3. m[k] \in DOMAIN b[z].segs /\ b[z].segs[m[k]] = b[x].segs[j]
      BY <1>4, <1>9, <2>3, <3>1, <3>2
    <3> QED BY <2>3, <3>1, <3>3 DEF Placed
  <2>4. CASE x = z /\ y = z
    <3>1. CASE j = q \/ k = q
      BY <1>2, <1>4, <1>9, <2>4, <3>1
    <3>2. CASE j # q /\ k # q
      <4>1. /\ m[j] \in DOMAIN b[z].segs /\ m[k] \in DOMAIN b[z].segs
            /\ b[z].segs[m[j]] = b[z].segs[m[k]]
        BY <1>4, <1>9, <2>4, <3>2
      <4>2. m[j] = m[k]
        BY <4>1 DEF Placed
      <4> QED BY <1>2, <2>4, <3>2, <4>2
    <3> QED BY <3>1, <3>2
  <2> QED BY <2>1, <2>2, <2>3, <2>4
<1> QED BY <1>5, <1>6, <1>8, <1>9 DEF Placed

(* A new buffer of one packet. *)
LEMMA PlacedNew ==
  ASSUME NEW b, NEW c, NEW W, NEW P, Placed(b, W, P),
         NEW p, p \notin P, NEW z, z \notin W, c[z].segs = <<p>>,
         \A x \in W : c[x].segs = b[x].segs
  PROVE  Placed(c, W \cup {z}, P \cup {p})
<1> DEFINE X == W \cup {z}
           Q == P \cup {p}
<1>1. DOMAIN <<p>> = {1} /\ <<p>>[1] = p /\ <<p>> # <<>>
  OBVIOUS
<1>2. \A x \in X : (x \in W /\ c[x].segs = b[x].segs) \/ x = z
  OBVIOUS
<1>3. \A x \in X : c[x].segs # <<>> /\ \A k \in DOMAIN c[x].segs : c[x].segs[k] \in Q
  BY <1>1, <1>2 DEF Placed
<1>4. \A i \in Q : \E x \in X : \E k \in DOMAIN c[x].segs : c[x].segs[k] = i
  <2>1. \A i \in P : \E x \in X : \E k \in DOMAIN c[x].segs : c[x].segs[k] = i
    BY DEF Placed
  <2>2. z \in X /\ 1 \in DOMAIN c[z].segs /\ c[z].segs[1] = p
    BY <1>1
  <2> QED BY <2>1, <2>2
<1>5. ASSUME NEW x \in X, NEW y \in X,
             NEW j \in DOMAIN c[x].segs, NEW k \in DOMAIN c[y].segs,
             c[x].segs[j] = c[y].segs[k]
      PROVE  x = y /\ j = k
  <2>1. CASE x \in W /\ y \in W
    BY <1>5, <2>1 DEF Placed
  <2>2. CASE x = z \/ y = z
    <3>1. \A v \in W : \A m \in DOMAIN c[v].segs : c[v].segs[m] # p
      BY DEF Placed
    <3>2. \A m \in DOMAIN c[z].segs : m = 1 /\ c[z].segs[m] = p
      BY <1>1
    <3> QED BY <1>2, <1>5, <2>2, <3>1, <3>2
  <2> QED BY <1>2, <2>1, <2>2
<1> QED BY <1>3, <1>4, <1>5 DEF Placed

-----------------------------------------------------------------------------
(* The items of a table. *)

ItemsOf(t) == UNION {ToSet(t[f]) : f \in Flow}

(* An item of a table is at some place of some flow. *)
LEMMA InItems ==
  ASSUME NEW t, NEW item
  PROVE  item \in ItemsOf(t) <=>
           \E f \in Flow : \E k \in DOMAIN t[f] : t[f][k] = item
  BY DEF ItemsOf, ToSet

(* The items of both tables. *)
LEMMA AllItemsSplit == AllItems = ItemsOf(tcp_gro_table) \cup ItemsOf(udp_gro_table)
  BY DEF AllItems, ItemsOf

(* Inserting an item. *)
LEMMA ItemsInsert ==
  ASSUME NEW t, NEW f \in Flow, NEW item, NEW n, NEW u,
         DOMAIN u[f] = DOMAIN t[f] \cup {n}, u[f][n] = item,
         \A k \in DOMAIN t[f] : k # n /\ u[f][k] = t[f][k],
         \A g \in Flow : g # f => u[g] = t[g]
  PROVE  ItemsOf(u) = ItemsOf(t) \cup {item}
<1>1. ASSUME NEW x \in ItemsOf(u) PROVE x \in ItemsOf(t) \cup {item}
  <2>0. PICK g \in Flow : \E k \in DOMAIN u[g] : u[g][k] = x
    BY <1>1 DEF ItemsOf, ToSet
  <2>1. PICK k \in DOMAIN u[g] : u[g][k] = x
    BY <2>0
  <2>2. (k \in DOMAIN t[g] /\ u[g][k] = t[g][k]) \/ u[g][k] = item
    OBVIOUS
  <2> QED BY <2>1, <2>2, InItems
<1>2. ASSUME NEW x \in ItemsOf(t) PROVE x \in ItemsOf(u)
  <2>0. PICK g \in Flow : \E k \in DOMAIN t[g] : t[g][k] = x
    BY <1>2 DEF ItemsOf, ToSet
  <2>1. PICK k \in DOMAIN t[g] : t[g][k] = x
    BY <2>0
  <2>2. k \in DOMAIN u[g] /\ u[g][k] = t[g][k]
    OBVIOUS
  <2> QED BY <2>1, <2>2, InItems
<1>3. item \in ItemsOf(u)
  <2>1. n \in DOMAIN u[f] /\ u[f][n] = item
    OBVIOUS
  <2> QED BY <2>1, InItems
<1> QED BY <1>1, <1>2, <1>3

(* Replacing an item by one that differs from all of them. *)
LEMMA ItemsReplace ==
  ASSUME NEW t, Distinct(t), NEW f \in Flow, NEW k \in DOMAIN t[f],
         NEW item, NEW u,
         DOMAIN u[f] = DOMAIN t[f], u[f][k] = item,
         \A j \in DOMAIN t[f] : j # k => u[f][j] = t[f][j],
         \A g \in Flow : g # f => u[g] = t[g]
  PROVE  ItemsOf(u) = (ItemsOf(t) \ {t[f][k]}) \cup {item}
<1>1. DOMAIN u[f] = DOMAIN t[f] /\ u[f][k] = item
  OBVIOUS
<1>2. ASSUME NEW g \in Flow, NEW j \in DOMAIN u[g], ~(g = f /\ j = k)
      PROVE  /\ j \in DOMAIN t[g] /\ u[g][j] = t[g][j]
             /\ t[g][j] # t[f][k]
  <2>1. j \in DOMAIN t[g] /\ u[g][j] = t[g][j]
    BY <1>2
  <2> QED BY <1>2, <2>1 DEF Distinct
<1>3. ASSUME NEW x \in ItemsOf(u) PROVE x \in (ItemsOf(t) \ {t[f][k]}) \cup {item}
  <2>0. PICK g \in Flow : \E j \in DOMAIN u[g] : u[g][j] = x
    BY <1>3 DEF ItemsOf, ToSet
  <2>1. PICK j \in DOMAIN u[g] : u[g][j] = x
    BY <2>0
  <2> QED BY <1>1, <1>2, <2>1, InItems
<1>4. ASSUME NEW x \in ItemsOf(t), x # t[f][k] PROVE x \in ItemsOf(u)
  <2>0. PICK g \in Flow : \E j \in DOMAIN t[g] : t[g][j] = x
    BY <1>4 DEF ItemsOf, ToSet
  <2>1. PICK j \in DOMAIN t[g] : t[g][j] = x
    BY <2>0
  <2>2. j \in DOMAIN u[g] /\ u[g][j] = t[g][j]
    BY <1>4, <2>1
  <2> QED BY <2>1, <2>2, InItems
<1>5. item \in ItemsOf(u)
  BY <1>1, InItems
<1> QED BY <1>3, <1>4, <1>5

(* Removing an item. *)
LEMMA ItemsRemove ==
  ASSUME NEW S, NEW t \in [Flow -> Seq(S)], Distinct(t), NEW f \in Flow,
         NEW k \in DOMAIN t[f],
         NEW u, u[f] = RemoveAt(t[f], k), \A g \in Flow : g # f => u[g] = t[g]
  PROVE  ItemsOf(u) = ItemsOf(t) \ {t[f][k]}
<1> DEFINE s == t[f]
           r == RemoveAt(s, k)
<1>1. s \in Seq(S) /\ k \in DOMAIN s
  OBVIOUS
<1> HIDE DEF s
<1>2. r \in Seq(S) /\ Len(r) = Len(s) - 1
      /\ \A i \in 1..Len(s) - 1 : r[i] = IF i < k THEN s[i] ELSE s[i + 1]
  BY <1>1, RemoveSeq
<1> HIDE DEF r
<1>3. DOMAIN r = 1..Len(s) - 1 /\ DOMAIN s = 1..Len(s) /\ Len(s) \in Nat
  BY <1>1, <1>2
<1>4. \A i \in DOMAIN r : \E j \in DOMAIN s : j # k /\ r[i] = s[j]
  <2> SUFFICES ASSUME NEW i \in DOMAIN r
               PROVE  \E j \in DOMAIN s : j # k /\ r[i] = s[j]
    OBVIOUS
  <2>1. CASE i < k
    BY <1>1, <1>2, <1>3, <2>1
  <2>2. CASE ~(i < k)
    <3>1. i + 1 \in DOMAIN s /\ i + 1 # k /\ r[i] = s[i + 1]
      BY <1>1, <1>2, <1>3, <2>2
    <3> QED BY <3>1
  <2> QED BY <2>1, <2>2
<1>5. \A j \in DOMAIN s : j # k => \E i \in DOMAIN r : r[i] = s[j]
  <2> SUFFICES ASSUME NEW j \in DOMAIN s, j # k
               PROVE  \E i \in DOMAIN r : r[i] = s[j]
    OBVIOUS
  <2>1. CASE j < k
    <3>1. j \in DOMAIN r /\ r[j] = s[j]
      BY <1>1, <1>2, <1>3, <2>1
    <3> QED BY <3>1
  <2>2. CASE ~(j < k)
    <3>1. j - 1 \in DOMAIN r /\ ~(j - 1 < k) /\ (j - 1) + 1 = j
      BY <1>1, <1>3, <2>2
    <3>2. r[j - 1] = s[j]
      BY <1>2, <1>3, <3>1
    <3> QED BY <3>1, <3>2
  <2> QED BY <2>1, <2>2
<1>6. u[f] = r /\ t[f] = s /\ \A g \in Flow : g # f => u[g] = t[g]
  BY DEF r, s
<1>7. \A g \in Flow : \A j \in DOMAIN t[g] : ~(g = f /\ j = k) => t[g][j] # s[k]
  BY <1>1, <1>6 DEF Distinct
<1>8. ASSUME NEW x \in ItemsOf(u) PROVE x \in ItemsOf(t) /\ x # s[k]
  <2>0. PICK g \in Flow : \E i \in DOMAIN u[g] : u[g][i] = x
    BY <1>8 DEF ItemsOf, ToSet
  <2>1. PICK i \in DOMAIN u[g] : u[g][i] = x
    BY <2>0
  <2>2. \E j \in DOMAIN t[g] : ~(g = f /\ j = k) /\ t[g][j] = x
    BY <1>4, <1>6, <2>1
  <2> QED BY <1>7, <2>2, InItems
<1>9. ASSUME NEW x \in ItemsOf(t), x # s[k] PROVE x \in ItemsOf(u)
  <2>0. PICK g \in Flow : \E j \in DOMAIN t[g] : t[g][j] = x
    BY <1>9 DEF ItemsOf, ToSet
  <2>1. PICK j \in DOMAIN t[g] : t[g][j] = x
    BY <2>0
  <2>2. \E i \in DOMAIN u[g] : u[g][i] = x
    BY <1>5, <1>6, <1>9, <2>1
  <2> QED BY <2>2, InItems
<1> QED BY <1>6, <1>8, <1>9

-----------------------------------------------------------------------------
(* The items of both tables, and what the actions do to them. *)

(* Where an item points, from the invariant. *)
LEMMA ItemPoints ==
  ASSUME IInv, NEW a \in AllItems
  PROVE  a.bufs_index \in Passed /\ a.bufs_index \in ToSet(to_write)
<1>1. \/ \E f \in Flow : \E k \in DOMAIN tcp_gro_table[f] : tcp_gro_table[f][k] = a
      \/ \E f \in Flow : \E k \in DOMAIN udp_gro_table[f] : udp_gro_table[f][k] = a
  BY DEF AllItems, ToSet
<1> QED BY <1>1 DEF IInv, ItemInv, TableInv, PointsInto

(* Two items do not point at the same buffer. *)
LEMMA ItemUnique ==
  ASSUME IInv, NEW a \in AllItems, NEW b \in AllItems,
         a.bufs_index = b.bufs_index
  PROVE  a = b
<1>1. \/ \E f \in Flow : \E k \in DOMAIN tcp_gro_table[f] : tcp_gro_table[f][k] = a
      \/ \E f \in Flow : \E k \in DOMAIN udp_gro_table[f] : udp_gro_table[f][k] = a
  BY DEF AllItems, ToSet
<1>2. \/ \E f \in Flow : \E k \in DOMAIN tcp_gro_table[f] : tcp_gro_table[f][k] = b
      \/ \E f \in Flow : \E k \in DOMAIN udp_gro_table[f] : udp_gro_table[f][k] = b
  BY DEF AllItems, ToSet
<1> QED BY <1>1, <1>2 DEF IInv, TableInv, Distinct, Disjoint

(* The item a scan is at is an item of the TCP table only. *)
LEMMA TcpItemIn ==
  ASSUME IInv, Scanning
  PROVE  TcpItem \in ItemsOf(tcp_gro_table) /\ TcpItem \in AllItems
         /\ TcpItem \notin ItemsOf(udp_gro_table)
<1>1. Pkt.flow \in Flow /\ item_i \in DOMAIN TcpItems
  BY ScanFacts, PktFacts DEF IInv
<1>2. TcpItem \in ItemsOf(tcp_gro_table)
  BY <1>1 DEF TcpItem, TcpItems, ItemsOf, ToSet
<1>3. ASSUME NEW f \in Flow, NEW k \in DOMAIN udp_gro_table[f]
      PROVE  udp_gro_table[f][k] # TcpItem
  BY <1>1 DEF IInv, TableInv, Disjoint, TcpItem, TcpItems
<1> QED BY <1>2, <1>3, AllItemsSplit DEF ItemsOf, ToSet

(* The same for the item udp_gro looks at. *)
LEMMA UdpItemIn ==
  ASSUME IInv, UdpEligible, UdpTry
  PROVE  UdpItem \in ItemsOf(udp_gro_table) /\ UdpItem \in AllItems
         /\ UdpItem \notin ItemsOf(tcp_gro_table)
<1>1. Pkt.flow \in Flow /\ UdpLast \in DOMAIN UdpItems
  BY UdpFacts, PktFacts DEF IInv
<1>2. UdpItem \in ItemsOf(udp_gro_table)
  BY <1>1 DEF UdpItem, UdpItems, ItemsOf, ToSet
<1>3. ASSUME NEW f \in Flow, NEW k \in DOMAIN tcp_gro_table[f]
      PROVE  tcp_gro_table[f][k] # UdpItem
  BY <1>1 DEF IInv, TableInv, Disjoint, UdpItem, UdpItems
<1> QED BY <1>2, <1>3, AllItemsSplit DEF ItemsOf, ToSet

(* ScanInsert and UdpInsert add an item of one packet. *)
LEMMA InsertItems ==
  ASSUME IInv, ScanInsert \/ UdpInsert
  PROVE  \E item : /\ item.bufs_index = pkt_i /\ item.num_merged = 0
                   /\ AllItems' = AllItems \cup {item}
<1> USE DEF IInv
<1>0. /\ tcp_gro_table \in [Flow -> Seq(TcpGROItem)]
      /\ udp_gro_table \in [Flow -> Seq(UdpGROItem)]
  BY DEF TypeOK
<1>1. pkt_i \in DOMAIN pkts
  BY DEF ScanInsert, UdpInsert, UdpEligible, InLoop, LoopInv, TypeOK
<1>2. Pkt.flow \in Flow /\ Pkt.plen \in Nat /\ Pkt.seq \in Nat
      /\ Pkt.psh \in BOOLEAN /\ pkt_i \in Nat
  BY <1>1, PktFacts DEF TypeOK
<1>3. AllItems' = ItemsOf(tcp_gro_table') \cup ItemsOf(udp_gro_table')
  BY DEF AllItems, ItemsOf
<1>4. CASE ScanInsert
  <2> DEFINE item == NewTcpItem(Pkt, pkt_i)
  <2>1. item \in TcpGROItem /\ item.bufs_index = pkt_i /\ item.num_merged = 0
    BY <1>2 DEF NewTcpItem, TcpGROItem
  <2>2. /\ tcp_gro_table' = [tcp_gro_table EXCEPT ![Pkt.flow] =
                               Append(tcp_gro_table[Pkt.flow], item)]
        /\ udp_gro_table' = udp_gro_table
    BY <1>4 DEF ScanInsert
  <2> HIDE DEF item
  <2>3. ItemsOf(tcp_gro_table') = ItemsOf(tcp_gro_table) \cup {item}
    <3> DEFINE old == tcp_gro_table[Pkt.flow]
               new == tcp_gro_table'[Pkt.flow]
               n == Len(old) + 1
    <3>1. /\ DOMAIN new = DOMAIN old \cup {n} /\ new[n] = item
          /\ \A k \in DOMAIN old : k # n /\ new[k] = old[k]
      BY <1>0, <1>2, <2>1, <2>2
    <3>2. \A g \in Flow : g # Pkt.flow => tcp_gro_table'[g] = tcp_gro_table[g]
      BY <1>0, <1>2, <2>2
    <3> HIDE DEF n
    <3> QED BY <1>2, <3>1, <3>2, ItemsInsert
  <2> QED BY <1>3, <2>1, <2>2, <2>3, AllItemsSplit
<1>5. CASE UdpInsert
  <2> DEFINE item == NewUdpItem(Pkt, pkt_i)
  <2>0. KnownInvalid \in BOOLEAN
    BY DEF KnownInvalid
  <2>1. item \in UdpGROItem /\ item.bufs_index = pkt_i /\ item.num_merged = 0
    BY <1>2, <2>0 DEF NewUdpItem, UdpGROItem
  <2>2. /\ udp_gro_table' = [udp_gro_table EXCEPT ![Pkt.flow] =
                               Append(udp_gro_table[Pkt.flow], item)]
        /\ tcp_gro_table' = tcp_gro_table
    BY <1>5 DEF UdpInsert
  <2> HIDE DEF item
  <2>3. ItemsOf(udp_gro_table') = ItemsOf(udp_gro_table) \cup {item}
    <3> DEFINE old == udp_gro_table[Pkt.flow]
               new == udp_gro_table'[Pkt.flow]
               n == Len(old) + 1
    <3>1. /\ DOMAIN new = DOMAIN old \cup {n} /\ new[n] = item
          /\ \A k \in DOMAIN old : k # n /\ new[k] = old[k]
      BY <1>0, <1>2, <2>1, <2>2
    <3>2. \A g \in Flow : g # Pkt.flow => udp_gro_table'[g] = udp_gro_table[g]
      BY <1>0, <1>2, <2>2
    <3> HIDE DEF n
    <3> QED BY <1>2, <3>1, <3>2, ItemsInsert
  <2> QED BY <1>3, <2>1, <2>2, <2>3, AllItemsSplit
<1> QED BY <1>4, <1>5

(* ScanItemInvalid removes the item it is at. *)
LEMMA RemoveItems ==
  ASSUME IInv, ScanItemInvalid
  PROVE  AllItems' = AllItems \ {TcpItem}
<1> USE DEF IInv
<1>0. /\ tcp_gro_table \in [Flow -> Seq(TcpGROItem)]
      /\ Distinct(tcp_gro_table)
  BY DEF TypeOK, TableInv
<1>1. item_i \in DOMAIN tcp_gro_table[Pkt.flow] /\ pkt_i \in DOMAIN pkts
  BY ScanFacts DEF ScanItemInvalid, TcpItems
<1>2. Pkt.flow \in Flow
  BY <1>1, PktFacts
<1>3. /\ tcp_gro_table' = [tcp_gro_table EXCEPT ![Pkt.flow] =
                             RemoveAt(tcp_gro_table[Pkt.flow], item_i)]
      /\ udp_gro_table' = udp_gro_table
  BY DEF ScanItemInvalid
<1>4. ItemsOf(tcp_gro_table') = ItemsOf(tcp_gro_table) \ {TcpItem}
  <2>1. /\ tcp_gro_table'[Pkt.flow] = RemoveAt(tcp_gro_table[Pkt.flow], item_i)
        /\ \A g \in Flow : g # Pkt.flow => tcp_gro_table'[g] = tcp_gro_table[g]
    BY <1>0, <1>2, <1>3
  <2> QED BY <1>0, <1>1, <1>2, <2>1, ItemsRemove DEF TcpItem, TcpItems
<1>5. AllItems' = ItemsOf(tcp_gro_table') \cup ItemsOf(udp_gro_table')
  BY DEF AllItems, ItemsOf
<1>6. TcpItem \notin ItemsOf(udp_gro_table)
  BY TcpItemIn DEF ScanItemInvalid
<1> QED BY <1>3, <1>4, <1>5, <1>6, AllItemsSplit

(* A TCP merge replaces the item it is at. *)
TcpReplaced(item) ==
  /\ tcp_gro_table' = [tcp_gro_table EXCEPT ![Pkt.flow][item_i] = item]
  /\ udp_gro_table' = udp_gro_table

LEMMA TcpReplaceItems ==
  ASSUME IInv, Scanning, NEW item, TcpReplaced(item)
  PROVE  AllItems' = (AllItems \ {TcpItem}) \cup {item}
<1> USE DEF IInv
<1>0. /\ tcp_gro_table \in [Flow -> Seq(TcpGROItem)]
      /\ Distinct(tcp_gro_table)
  BY DEF TypeOK, TableInv
<1>1. item_i \in DOMAIN tcp_gro_table[Pkt.flow] /\ pkt_i \in DOMAIN pkts
  BY ScanFacts DEF TcpItems
<1>2. Pkt.flow \in Flow
  BY <1>1, PktFacts
<1>3. /\ tcp_gro_table' = [tcp_gro_table EXCEPT ![Pkt.flow] =
                            [tcp_gro_table[Pkt.flow] EXCEPT ![item_i] = item]]
      /\ udp_gro_table' = udp_gro_table
  BY DEF TcpReplaced
<1>4. ItemsOf(tcp_gro_table') = (ItemsOf(tcp_gro_table) \ {TcpItem}) \cup {item}
  <2> DEFINE old == tcp_gro_table[Pkt.flow]
             new == tcp_gro_table'[Pkt.flow]
  <2>1. /\ DOMAIN new = DOMAIN old /\ new[item_i] = item
        /\ \A j \in DOMAIN old : j # item_i => new[j] = old[j]
    BY <1>0, <1>1, <1>2, <1>3
  <2>2. \A g \in Flow : g # Pkt.flow => tcp_gro_table'[g] = tcp_gro_table[g]
    BY <1>0, <1>2, <1>3
  <2>3. TcpItem = old[item_i]
    BY DEF TcpItem, TcpItems
  <2>4. Distinct(tcp_gro_table) /\ item_i \in DOMAIN old
    BY <1>0, <1>1
  <2> QED BY <1>2, <2>1, <2>2, <2>3, <2>4, ItemsReplace
<1>5. AllItems' = ItemsOf(tcp_gro_table') \cup ItemsOf(udp_gro_table')
  BY DEF AllItems, ItemsOf
<1>6. TcpItem \notin ItemsOf(udp_gro_table)
  BY TcpItemIn
<1> QED BY <1>3, <1>4, <1>5, <1>6, AllItemsSplit

(* And a UDP merge the last one of its flow. *)
LEMMA UdpReplaceItems ==
  ASSUME IInv, UdpAppend
  PROVE  AllItems' = (AllItems \ {UdpItem})
                       \cup {[UdpItem EXCEPT !.num_merged = @ + 1]}
<1> USE DEF IInv
<1> DEFINE item == [UdpItem EXCEPT !.num_merged = @ + 1]
<1>0. /\ udp_gro_table \in [Flow -> Seq(UdpGROItem)]
      /\ Distinct(udp_gro_table)
  BY DEF TypeOK, TableInv
<1>1. UdpLast \in DOMAIN udp_gro_table[Pkt.flow] /\ pkt_i \in DOMAIN pkts
  BY UdpFacts DEF UdpAppend, UdpItems
<1>2. Pkt.flow \in Flow
  BY <1>1, PktFacts
<1>3. /\ udp_gro_table' = [udp_gro_table EXCEPT ![Pkt.flow] =
                            [udp_gro_table[Pkt.flow] EXCEPT ![UdpLast] = item]]
      /\ tcp_gro_table' = tcp_gro_table
  BY DEF UdpAppend, UdpItem, UdpItems
<1> HIDE DEF item
<1>4. ItemsOf(udp_gro_table') = (ItemsOf(udp_gro_table) \ {UdpItem}) \cup {item}
  <2> DEFINE old == udp_gro_table[Pkt.flow]
             new == udp_gro_table'[Pkt.flow]
  <2>1. /\ DOMAIN new = DOMAIN old /\ new[UdpLast] = item
        /\ \A j \in DOMAIN old : j # UdpLast => new[j] = old[j]
    BY <1>0, <1>1, <1>2, <1>3
  <2>2. \A g \in Flow : g # Pkt.flow => udp_gro_table'[g] = udp_gro_table[g]
    BY <1>0, <1>2, <1>3
  <2>3. UdpItem = old[UdpLast]
    BY DEF UdpItem, UdpItems
  <2>4. Distinct(udp_gro_table) /\ UdpLast \in DOMAIN old
    BY <1>0, <1>1
  <2> QED BY <1>2, <2>1, <2>2, <2>3, <2>4, ItemsReplace
<1>5. AllItems' = ItemsOf(tcp_gro_table') \cup ItemsOf(udp_gro_table')
  BY DEF AllItems, ItemsOf
<1>6. UdpItem \notin ItemsOf(tcp_gro_table)
  BY UdpItemIn DEF UdpAppend
<1> QED BY <1>3, <1>4, <1>5, <1>6, AllItemsSplit DEF item

-----------------------------------------------------------------------------
(* The kinds of steps inside handle_gro. *)

(* The buffer of the packet the loop is at. *)
LEMMA FreshBuf ==
  ASSUME IInv, InGro, pkt_i \in DOMAIN pkts
  PROVE  /\ pkt_i \in DOMAIN bufs /\ pkt_i \in Nat /\ bufs[pkt_i] \in Buffer
         /\ bufs[pkt_i] = CallerBuf(pkts, offset, pkt_i)
         /\ bufs[pkt_i].segs = <<pkt_i>> /\ bufs[pkt_i].head = pkt_i
<1>1. pkt_i \in DOMAIN bufs /\ pkt_i \in Nat /\ bufs[pkt_i] \in Buffer
  BY DEF IInv, TypeOK
<1>2. bufs[pkt_i] = CallerBuf(pkts, offset, pkt_i)
  BY <1>1 DEF IInv, FreshInv, InGro
<1> QED BY <1>1, <1>2 DEF CallerBuf

(* The buffers to write are buffers the loop has passed. *)
LEMMA WrittenFacts ==
  ASSUME IInv
  PROVE  /\ ToSet(to_write) \subseteq DOMAIN bufs
         /\ InGro => \A x \in ToSet(to_write) : x < pkt_i /\ x # pkt_i
<1>1. \A w \in DOMAIN to_write : to_write[w] \in DOMAIN bufs /\ to_write[w] \in Nat
  BY DEF IInv, TypeOK
<1>2. InGro => \A w \in DOMAIN to_write : to_write[w] < pkt_i
  BY DEF IInv, WriteInv, InGro
<1>3. pkt_i \in Nat
  BY DEF IInv, TypeOK
<1> QED BY <1>1, <1>2, <1>3 DEF ToSet

(* The packet is put into the buffer of item, which new replaces. *)
Grows(item, new) ==
  LET x == item.bufs_index
  IN  /\ InGro /\ pkt_i \in DOMAIN pkts
      /\ pc' = "gro" /\ pkt_i' = pkt_i + 1
      /\ UNCHANGED <<dev, pkts, offset, to_write, outcome>>
      /\ item \in AllItems
      /\ AllItems' = (AllItems \ {item}) \cup {new}
      /\ item.num_merged \in Nat
      /\ new.bufs_index = x /\ new.num_merged = item.num_merged + 1
      /\ Pkt.csum
      /\ item.num_merged = 0 => pkts[bufs[x].head].csum
      /\ DOMAIN bufs' = DOMAIN bufs
      /\ AddsOne(bufs'[x].segs, bufs[x].segs, pkt_i)
      /\ Len(bufs'[x].segs) = Len(bufs[x].segs) + 1
      /\ bufs'[x].len + offset <= bufs'[x].cap
      /\ \A j \in DOMAIN bufs \ {x, pkt_i} : bufs'[j] = bufs[j]
      /\ bufs'[pkt_i] \in {bufs[pkt_i], bufs[x]}

(* HasRoom leaves offset bytes behind what is appended. *)
LEMMA RoomLeft ==
  ASSUME TypeOK, NEW item, item.bufs_index \in DOMAIN bufs, Pkt.plen \in Nat,
         NEW b \in Buffer, HasRoom(b, CoalescedLen(Pkt, item))
  PROVE  (bufs[item.bufs_index].len + Pkt.plen) + offset <= b.cap
<1>1. bufs[item.bufs_index].len \in Nat /\ offset \in Nat /\ b.cap \in Nat
  BY BufFacts DEF TypeOK, Buffer
<1> QED BY <1>1 DEF HasRoom, CoalescedLen

(* Appending to an item's buffer. *)
LEMMA AppendGrows ==
  ASSUME IInv, ScanAppend
  PROVE  Grows(TcpItem, AppendedItem(TcpItem))
<1> USE DEF IInv
<1> DEFINE x == TcpItem.bufs_index
           new == AppendedItem(TcpItem)
           b == bufs[x]
           c == AppendedBuf(b)
<1>1. /\ pkt_i \in DOMAIN pkts /\ TcpItem \in TcpGROItem
      /\ x \in DOMAIN bufs /\ b \in Buffer /\ Scanning
      /\ TcpItem \in AllItems /\ x < pkt_i
  BY ScanFacts, TcpItemIn DEF ScanAppend, TcpMerge, ItemOk, Passed
<1>2. Pkt.plen \in Nat /\ pkt_i \in Nat /\ x \in Nat
  BY <1>1, PktFacts DEF TypeOK
<1>3. InGro /\ pc' = "gro" /\ pkt_i' = pkt_i + 1
      /\ UNCHANGED <<dev, pkts, offset, to_write, outcome>>
  BY DEF ScanAppend, TcpMerge, Scanning, Coalesced, NextPacket, call, InGro
<1>4. TcpReplaced(new)
  BY DEF ScanAppend, TcpReplaced
<1>5. AllItems' = (AllItems \ {TcpItem}) \cup {new}
  BY <1>1, <1>4, TcpReplaceItems
<1>6. TcpItem.num_merged \in Nat /\ new.bufs_index = x
      /\ new.num_merged = TcpItem.num_merged + 1
  BY <1>1 DEF AppendedItem, Merged, TcpGROItem
<1>7. Pkt.csum /\ (TcpItem.num_merged = 0 => pkts[b.head].csum)
  BY DEF ScanAppend, TcpMerge, ItemInvalidCSum
<1>8. c.segs = Append(b.segs, pkt_i) /\ c.len = b.len + Pkt.plen /\ c.cap = b.cap
  BY <1>1 DEF AppendedBuf, Buffer
<1>9. b.segs \in Seq(Nat)
  BY <1>1 DEF Buffer
<1>10. AddsOne(c.segs, b.segs, pkt_i) /\ Len(c.segs) = Len(b.segs) + 1
  BY <1>2, <1>8, <1>9, AddsBehind
<1>11. HasRoom(b, CoalescedLen(Pkt, TcpItem))
  BY DEF ScanAppend, TcpMerge, TcpTry, GrowingBuf
<1>12. c.len + offset <= c.cap
  BY <1>1, <1>2, <1>8, <1>11, RoomLeft
<1>13. bufs' = [bufs EXCEPT ![x] = c]
  BY DEF ScanAppend
<1> HIDE DEF c
<1>14. DOMAIN bufs' = DOMAIN bufs /\ bufs'[x] = c
       /\ \A j \in DOMAIN bufs \ {x} : bufs'[j] = bufs[j]
  BY <1>1, <1>13
<1>15. bufs'[pkt_i] = bufs[pkt_i]
  BY <1>1, <1>2, <1>14 DEF TypeOK
<1> HIDE DEF b, new
<1> QED BY <1>1, <1>3, <1>5, <1>6, <1>7, <1>10, <1>12, <1>14, <1>15
        DEF Grows, b, new

(* Prepending: the packet's own buffer takes the item's place. *)
LEMMA PrependGrows ==
  ASSUME IInv, ScanPrepend
  PROVE  Grows(TcpItem, PrependedItem(TcpItem))
<1> USE DEF IInv
<1> DEFINE x == TcpItem.bufs_index
           new == PrependedItem(TcpItem)
           b == bufs[x]
           own == bufs[pkt_i]
           c == PrependedBuf(own, b)
<1>1. /\ pkt_i \in DOMAIN pkts /\ TcpItem \in TcpGROItem
      /\ x \in DOMAIN bufs /\ b \in Buffer /\ Scanning
      /\ TcpItem \in AllItems /\ x < pkt_i /\ IsTcp(Pkt)
  BY ScanFacts, TcpItemIn DEF ScanPrepend, TcpMerge, ItemOk, Passed
<1>2. Pkt.plen \in Nat /\ pkt_i \in Nat /\ x \in Nat
  BY <1>1, PktFacts DEF TypeOK
<1>3. InGro /\ pc' = "gro" /\ pkt_i' = pkt_i + 1
      /\ UNCHANGED <<dev, pkts, offset, to_write, outcome>>
  BY DEF ScanPrepend, TcpMerge, Scanning, Coalesced, NextPacket, call, InGro
<1>4. TcpReplaced(new)
  BY DEF ScanPrepend, TcpReplaced
<1>5. AllItems' = (AllItems \ {TcpItem}) \cup {new}
  BY <1>1, <1>4, TcpReplaceItems
<1>6. TcpItem.num_merged \in Nat /\ new.bufs_index = x
      /\ new.num_merged = TcpItem.num_merged + 1
  BY <1>1 DEF PrependedItem, Merged, TcpGROItem
<1>7. Pkt.csum /\ (TcpItem.num_merged = 0 => pkts[b.head].csum)
  BY DEF ScanPrepend, TcpMerge, ItemInvalidCSum
<1>8. own \in Buffer /\ own.segs = <<pkt_i>> /\ pkt_i \in DOMAIN bufs
      /\ own = CallerBuf(pkts, offset, pkt_i)
  BY <1>1, <1>3, FreshBuf
<1>9. own.len = offset + HdrLen + Pkt.plen
  BY <1>1, <1>8 DEF CallerBuf, BufLen, IsTcp, Pkt
<1>10. /\ c.segs = <<pkt_i>> \o b.segs /\ c.cap = own.cap
       /\ c.len = own.len + (b.len - offset - HdrLen)
  BY <1>8 DEF PrependedBuf, Buffer, Payload
<1>11. b.segs \in Seq(Nat)
  BY <1>1 DEF Buffer
<1>12. AddsOne(c.segs, b.segs, pkt_i) /\ Len(c.segs) = Len(b.segs) + 1
  BY <1>2, <1>10, <1>11, AddsBefore
<1>13. HasRoom(own, CoalescedLen(Pkt, TcpItem))
  BY DEF ScanPrepend, TcpMerge, TcpTry, GrowingBuf, CanPrepend, CanAppend
<1>14. (b.len + Pkt.plen) + offset <= own.cap
  BY <1>1, <1>2, <1>8, <1>13, RoomLeft
<1>15. c.len + offset <= c.cap
  <2>1. b.len \in Nat /\ offset \in Nat /\ HdrLen \in Nat
    BY <1>1, SizeAssumption DEF Buffer, TypeOK
  <2>2. c.len = b.len + Pkt.plen
    <3> HIDE DEF c, b, own
    <3> QED BY <1>2, <1>9, <1>10, <2>1
  <2> QED BY <1>10, <1>14, <2>2
<1>16. bufs' = [bufs EXCEPT ![x] = c, ![pkt_i] = b]
  BY DEF ScanPrepend, SwapIn
<1> HIDE DEF c, b
<1>17. DOMAIN bufs' = DOMAIN bufs /\ bufs'[x] = c /\ bufs'[pkt_i] = b
       /\ \A j \in DOMAIN bufs \ {x, pkt_i} : bufs'[j] = bufs[j]
  BY <1>1, <1>2, <1>8, <1>16
<1> HIDE DEF new
<1> QED BY <1>1, <1>3, <1>5, <1>6, <1>7, <1>12, <1>15, <1>17
        DEF Grows, b, new

(* Appending a datagram. *)
LEMMA UdpAppendGrows ==
  ASSUME IInv, UdpAppend
  PROVE  Grows(UdpItem, [UdpItem EXCEPT !.num_merged = @ + 1])
<1> USE DEF IInv
<1> DEFINE x == UdpItem.bufs_index
           new == [UdpItem EXCEPT !.num_merged = @ + 1]
           b == bufs[x]
           c == [b EXCEPT !.segs = Append(@, pkt_i), !.len = @ + Pkt.plen]
<1>1. /\ pkt_i \in DOMAIN pkts /\ UdpItem \in UdpGROItem
      /\ x \in DOMAIN bufs /\ b \in Buffer
      /\ UdpItem \in AllItems /\ x < pkt_i
  BY UdpFacts, UdpItemIn DEF UdpAppend, ItemOk, Passed
<1>2. Pkt.plen \in Nat /\ pkt_i \in Nat /\ x \in Nat
  BY <1>1, PktFacts DEF TypeOK
<1>3. InGro /\ pc' = "gro" /\ pkt_i' = pkt_i + 1
      /\ UNCHANGED <<dev, pkts, offset, to_write, outcome>>
  BY DEF UdpAppend, UdpEligible, InLoop, Coalesced, NextPacket, call, InGro
<1>5. AllItems' = (AllItems \ {UdpItem}) \cup {new}
  BY UdpReplaceItems
<1>6. UdpItem.num_merged \in Nat /\ new.bufs_index = x
      /\ new.num_merged = UdpItem.num_merged + 1
  BY <1>1 DEF UdpGROItem
<1>7. Pkt.csum /\ (UdpItem.num_merged = 0 => pkts[b.head].csum)
  BY DEF UdpAppend, UdpItemInvalid, ItemInvalidCSum
<1>8. c.segs = Append(b.segs, pkt_i) /\ c.len = b.len + Pkt.plen /\ c.cap = b.cap
  BY <1>1 DEF Buffer
<1>9. b.segs \in Seq(Nat)
  BY <1>1 DEF Buffer
<1>10. AddsOne(c.segs, b.segs, pkt_i) /\ Len(c.segs) = Len(b.segs) + 1
  BY <1>2, <1>8, <1>9, AddsBehind
<1>11. HasRoom(b, CoalescedLen(Pkt, UdpItem))
  BY DEF UdpAppend, UdpTry
<1>12. c.len + offset <= c.cap
  BY <1>1, <1>2, <1>8, <1>11, RoomLeft
<1>13. bufs' = [bufs EXCEPT ![x] = c]
  BY <1>1 DEF UdpAppend, TypeOK
<1> HIDE DEF c
<1>14. DOMAIN bufs' = DOMAIN bufs /\ bufs'[x] = c
       /\ \A j \in DOMAIN bufs \ {x} : bufs'[j] = bufs[j]
  BY <1>1, <1>13
<1>15. bufs'[pkt_i] = bufs[pkt_i]
  BY <1>1, <1>2, <1>14 DEF TypeOK
<1> HIDE DEF b, new
<1> QED BY <1>1, <1>3, <1>5, <1>6, <1>7, <1>10, <1>12, <1>14, <1>15
        DEF Grows, b, new

(* The packet's buffer is to be written; it has its header, or an item.    *)
Pushed ==
  /\ InGro /\ pkt_i \in DOMAIN pkts
  /\ pc' = "gro" /\ pkt_i' = pkt_i + 1
  /\ UNCHANGED <<dev, pkts, offset, outcome>>
  /\ to_write' = Append(to_write, pkt_i)
  /\ DOMAIN bufs' = DOMAIN bufs
  /\ \A j \in DOMAIN bufs \ {pkt_i} : bufs'[j] = bufs[j]
  /\ bufs'[pkt_i].segs = <<pkt_i>> /\ bufs'[pkt_i].head = pkt_i
  /\ \/ AllItems' = AllItems /\ bufs'[pkt_i].vnet = "none"
     \/ \E item : /\ item.bufs_index = pkt_i /\ item.num_merged = 0
                  /\ AllItems' = AllItems \cup {item}

(* An item of one packet is removed, its buffer gets a header. *)
Removed ==
  /\ InGro /\ pc' = "scan"
  /\ UNCHANGED <<dev, pkts, offset, to_write, outcome, pkt_i>>
  /\ \E item \in AllItems :
       /\ AllItems' = AllItems \ {item}
       /\ item.num_merged = 0
       /\ bufs' = [bufs EXCEPT ![item.bufs_index].vnet = "none"]

(* No buffer and no table changes. *)
Still ==
  /\ UNCHANGED <<dev, pkts, offset, bufs, tables, to_write, pkt_i>>
  /\ InGro' => InGro
  /\ pc' = "write" => pc = "write"

(* Noop pushes the packet with a header. *)
LEMMA NoopPushes ==
  ASSUME IInv, InGro, pkt_i \in DOMAIN pkts, Noop
  PROVE  Pushed
<1>1. /\ pkt_i \in DOMAIN bufs /\ bufs[pkt_i] \in Buffer
      /\ bufs[pkt_i].segs = <<pkt_i>> /\ bufs[pkt_i].head = pkt_i
  BY FreshBuf
<1>2. bufs' = [bufs EXCEPT ![pkt_i] = [bufs[pkt_i] EXCEPT !.vnet = "none"]]
  BY DEF Noop
<1>3. /\ DOMAIN bufs' = DOMAIN bufs
      /\ \A j \in DOMAIN bufs \ {pkt_i} : bufs'[j] = bufs[j]
      /\ bufs'[pkt_i] = [bufs[pkt_i] EXCEPT !.vnet = "none"]
  BY <1>1, <1>2
<1>4. /\ bufs'[pkt_i].segs = <<pkt_i>> /\ bufs'[pkt_i].head = pkt_i
      /\ bufs'[pkt_i].vnet = "none"
  BY <1>1, <1>3 DEF Buffer
<1>5. AllItems' = AllItems
  BY DEF Noop, tables, AllItems
<1>6. /\ pc' = "gro" /\ pkt_i' = pkt_i + 1 /\ to_write' = Append(to_write, pkt_i)
      /\ UNCHANGED <<dev, pkts, offset, outcome>>
  BY DEF Noop, NextPacket, call
<1> QED BY <1>3, <1>4, <1>5, <1>6 DEF Pushed

(* An insert pushes the packet with an item. *)
LEMMA InsertPushes ==
  ASSUME IInv, ScanInsert \/ UdpInsert
  PROVE  Pushed
<1>1. InGro /\ pkt_i \in DOMAIN pkts
  BY DEF ScanInsert, UdpInsert, UdpEligible, InLoop, IInv, LoopInv, TypeOK, InGro
<1>2. bufs[pkt_i].segs = <<pkt_i>> /\ bufs[pkt_i].head = pkt_i
  BY <1>1, FreshBuf
<1>3. /\ pc' = "gro" /\ pkt_i' = pkt_i + 1 /\ to_write' = Append(to_write, pkt_i)
      /\ UNCHANGED <<dev, pkts, offset, outcome, bufs>>
  BY DEF ScanInsert, UdpInsert, TableInsert, NextPacket, call
<1>4. \E item : /\ item.bufs_index = pkt_i /\ item.num_merged = 0
                /\ AllItems' = AllItems \cup {item}
  BY InsertItems
<1> QED BY <1>1, <1>2, <1>3, <1>4 DEF Pushed

(* ScanItemInvalid removes an item that was never merged. *)
LEMMA InvalidRemoves ==
  ASSUME IInv, ScanItemInvalid
  PROVE  Removed
<1>1. AllItems' = AllItems \ {TcpItem} /\ TcpItem \in AllItems
  BY RemoveItems, TcpItemIn DEF ScanItemInvalid
<1>2. /\ InGro /\ pc' = "scan" /\ TcpItem.num_merged = 0
      /\ UNCHANGED <<dev, pkts, offset, to_write, outcome, pkt_i>>
      /\ bufs' = [bufs EXCEPT ![TcpItem.bufs_index].vnet = "none"]
  BY DEF ScanItemInvalid, Scanning, ItemInvalidCSum, ZeroHeader, call, InGro
<1> QED BY <1>1, <1>2 DEF Removed

(* Every step inside a call is of one of these kinds. *)
LEMMA StepKinds ==
  ASSUME IInv, InCall
  PROVE  \/ Still \/ Pushed \/ Removed \/ GroAccount
         \/ \E item, new : Grows(item, new)
<1>1. CASE GroNoop
  <2>1. InGro /\ pkt_i \in DOMAIN pkts /\ Noop
    BY <1>1 DEF GroNoop, InLoop, IInv, LoopInv, TypeOK, InGro
  <2> QED BY <2>1, NoopPushes
<1>2. CASE ScanPktInvalid
  <2>1. InGro /\ pkt_i \in DOMAIN pkts /\ Noop
    BY <1>2, ScanFacts DEF ScanPktInvalid, Scanning, IInv, InGro
  <2> QED BY <2>1, NoopPushes
<1>3. CASE ScanInsert \/ UdpInsert
  BY <1>3, InsertPushes
<1>4. CASE ScanItemInvalid
  BY <1>4, InvalidRemoves
<1>5. CASE ScanAppend
  BY <1>5, AppendGrows
<1>6. CASE ScanPrepend
  BY <1>6, PrependGrows
<1>7. CASE UdpAppend
  BY <1>7, UdpAppendGrows
<1>8. CASE GroInvalidOffset \/ TcpLookup \/ ScanSkip
  BY <1>8 DEF GroInvalidOffset, TcpLookup, ScanSkip, Scanning, InLoop, Return,
              Still, InGro, call
<1>9. CASE WritingOut \/ Cancel
  BY <1>9 DEF WritingOut, WriteInvalidOffset, Write, WriteBadFd, Finish,
              Cancel, Writing, Return, Still, InGro, unchangedByWrite, call
<1>10. CASE UNCHANGED vars
  BY <1>10 DEF vars, Still, InGro, tables
<1> QED BY <1>1, <1>2, <1>3, <1>4, <1>5, <1>6, <1>7, <1>8, <1>9, <1>10
        DEF InCall, Running, Coalescing

-----------------------------------------------------------------------------
(* Each kind keeps the parts of the invariant about packets. *)

(* to_write with one more element, as a set. *)
LEMMA ToSetAppend ==
  ASSUME NEW S, NEW s \in Seq(S), NEW x
  PROVE  ToSet(Append(s, x)) = ToSet(s) \cup {x}
<1>1. DOMAIN Append(s, x) = DOMAIN s \cup {Len(s) + 1}
  OBVIOUS
<1>2. /\ Append(s, x)[Len(s) + 1] = x
      /\ \A k \in DOMAIN s : Append(s, x)[k] = s[k]
  OBVIOUS
<1> QED BY <1>1, <1>2 DEF ToSet

(* What the five parts have in common. *)
PacketInv == OnceInv /\ DeviceInv /\ ShapeInv /\ HeaderInv
             /\ NoBadChecksumMerged /\ HeadersWritten

(* A step that changes no buffer and no table. *)
LEMMA StillKeeps ==
  ASSUME IInv, PacketInv, Still, TypeOK'
  PROVE  PacketInv'
<1>1. Busy' => Busy
  BY DEF Still, Busy, TypeOK, InGro
<1>2. AllItems' = AllItems
  BY DEF Still, AllItems, tables
<1>3. OnceInv'
  <2> SUFFICES ASSUME Busy' PROVE Placed(bufs', ToSet(to_write'), Handled')
    BY DEF OnceInv
  <2>1. Handled' = Handled
    BY DEF Still, Handled, TypeOK, InGro, Busy
  <2> QED BY <1>1, <1>2, <2>1 DEF PacketInv, OnceInv, Still
<1>4. DeviceInv'
  BY DEF PacketInv, DeviceInv, Still
<1>5. ShapeInv'
  BY <1>2 DEF PacketInv, ShapeInv, Shape, Still
<1>6. HeaderInv'
  BY <1>2 DEF PacketInv, HeaderInv, Still
<1>7. NoBadChecksumMerged'
  BY <1>1, <1>2 DEF PacketInv, NoBadChecksumMerged, Still
<1>8. HeadersWritten'
  BY DEF PacketInv, HeadersWritten, Emitted, Still
<1> QED BY <1>3, <1>4, <1>5, <1>6, <1>7, <1>8 DEF PacketInv

(* A packet is pushed. *)
LEMMA PushedKeeps ==
  ASSUME IInv, PacketInv, Pushed
  PROVE  PacketInv'
<1>1. /\ InGro /\ pkt_i \in DOMAIN pkts /\ pkt_i \in DOMAIN bufs /\ pkt_i \in Nat /\ pkt_i >= 1
      /\ pc' = "gro" /\ pkt_i' = pkt_i + 1
      /\ UNCHANGED <<dev, pkts, offset, outcome>>
      /\ DOMAIN bufs' = DOMAIN bufs
  BY DEF Pushed, IInv, TypeOK
<1>2. /\ ToSet(to_write') = ToSet(to_write) \cup {pkt_i}
      /\ ToSet(to_write) \subseteq DOMAIN bufs /\ pkt_i \notin ToSet(to_write)
  <2>1. to_write \in Seq(DOMAIN pkts) /\ to_write' = Append(to_write, pkt_i)
    BY DEF Pushed, IInv, TypeOK
  <2> QED BY <1>1, <2>1, ToSetAppend, WrittenFacts
<1>3. /\ \A j \in DOMAIN bufs : j # pkt_i => bufs'[j] = bufs[j]
      /\ bufs'[pkt_i].segs = <<pkt_i>> /\ bufs'[pkt_i].head = pkt_i
  BY DEF Pushed
<1>4. OnceInv'
  <2>1. Placed(bufs, ToSet(to_write), 1..pkt_i - 1)
    BY <1>1 DEF PacketInv, OnceInv, Busy, Handled, InGro
  <2>2. pkt_i \notin 1..pkt_i - 1
    BY <1>1
  <2>3. Handled' = (1..pkt_i - 1) \cup {pkt_i}
    BY <1>1 DEF Handled
  <2>4. \A x \in ToSet(to_write) : bufs'[x].segs = bufs[x].segs
    BY <1>2, <1>3
  <2>5. Placed(bufs', ToSet(to_write) \cup {pkt_i}, (1..pkt_i - 1) \cup {pkt_i})
    BY <1>2, <1>3, <2>1, <2>2, <2>4, PlacedNew
  <2> QED BY <1>2, <2>3, <2>5 DEF OnceInv
<1>5. DeviceInv'
  BY <1>1 DEF PacketInv, DeviceInv, InGro
<1>6. \A a \in AllItems : /\ a.bufs_index # pkt_i /\ a.bufs_index \in DOMAIN bufs
                          /\ bufs'[a.bufs_index] = bufs[a.bufs_index] /\ Shape(a)
  BY <1>1, <1>2, <1>3, ItemPoints DEF PacketInv, ShapeInv
<1>7. ShapeInv'
  <2> SUFFICES ASSUME NEW a \in AllItems' PROVE Shape(a)'
    BY DEF ShapeInv
  <2>1. CASE a \in AllItems
    BY <1>1, <1>6, <2>1 DEF Shape
  <2>2. CASE a \notin AllItems
    <3>1. a.bufs_index = pkt_i /\ a.num_merged = 0
      BY <2>2 DEF Pushed
    <3> QED BY <1>3, <3>1 DEF Shape
  <2> QED BY <2>1, <2>2
<1>8. HeaderInv'
  <2> SUFFICES ASSUME NEW x \in ToSet(to_write')
               PROVE  \/ \E item \in AllItems' : item.bufs_index = x
                      \/ bufs'[x].vnet = "none" /\ Len(bufs'[x].segs) = 1
    BY DEF HeaderInv
  <2>1. AllItems \subseteq AllItems'
    BY DEF Pushed
  <2>2. CASE x \in ToSet(to_write)
    BY <1>1, <1>2, <1>3, <2>1, <2>2 DEF PacketInv, HeaderInv
  <2>3. CASE x = pkt_i
    BY <1>3, <2>3 DEF Pushed
  <2> QED BY <1>2, <2>2, <2>3
<1>9. NoBadChecksumMerged'
  <2> SUFFICES ASSUME NEW i \in DOMAIN bufs, Len(bufs'[i].segs) > 1,
                      NEW k \in DOMAIN bufs'[i].segs
               PROVE  pkts[bufs'[i].segs[k]].csum
    BY <1>1 DEF NoBadChecksumMerged
  <2>1. i # pkt_i
    <3>1. Len(<<pkt_i>>) = 1
      OBVIOUS
    <3>2. Len(bufs'[pkt_i].segs) = 1
      BY <1>3, <3>1
    <3>3. ASSUME i = pkt_i PROVE FALSE
      <4>1. Len(bufs'[pkt_i].segs) > 1
        BY <3>3
      <4> QED BY <3>2, <4>1
    <3> QED BY <3>3
  <2> QED BY <1>1, <1>3, <2>1 DEF PacketInv, NoBadChecksumMerged, Busy, InGro
<1>10. HeadersWritten'
  BY <1>1 DEF HeadersWritten
<1> QED BY <1>4, <1>5, <1>7, <1>8, <1>9, <1>10 DEF PacketInv

(* An item is removed. *)
LEMMA RemovedKeeps ==
  ASSUME IInv, PacketInv, Removed
  PROVE  PacketInv'
<1>1. PICK item \in AllItems :
        /\ AllItems' = AllItems \ {item}
        /\ item.num_merged = 0
        /\ bufs' = [bufs EXCEPT ![item.bufs_index].vnet = "none"]
  BY DEF Removed
<1>2. /\ InGro /\ pc' = "scan"
      /\ UNCHANGED <<dev, pkts, offset, to_write, outcome, pkt_i>>
  BY DEF Removed
<1> DEFINE x == item.bufs_index
<1>3. /\ x \in DOMAIN bufs /\ x \in ToSet(to_write) /\ bufs[x] \in Buffer
      /\ ToSet(to_write) \subseteq DOMAIN bufs
  BY ItemPoints, WrittenFacts DEF IInv, TypeOK
<1>4. /\ DOMAIN bufs' = DOMAIN bufs
      /\ bufs'[x] = [bufs[x] EXCEPT !.vnet = "none"]
      /\ \A j \in DOMAIN bufs : j # x => bufs'[j] = bufs[j]
  BY <1>1, <1>3
<1>5. /\ bufs'[x].vnet = "none" /\ bufs'[x].segs = bufs[x].segs
      /\ bufs'[x].head = bufs[x].head
  BY <1>3, <1>4 DEF Buffer
<1>6. \A j \in DOMAIN bufs : bufs'[j].segs = bufs[j].segs
  BY <1>4, <1>5
<1>7. OnceInv'
  <2>1. Placed(bufs, ToSet(to_write), Handled) /\ Handled' = Handled
    BY <1>2 DEF PacketInv, OnceInv, Busy, Handled, InGro
  <2>2. Placed(bufs', ToSet(to_write), Handled)
    BY <1>3, <1>6, <2>1, PlacedSame
  <2> QED BY <1>2, <2>1, <2>2 DEF OnceInv
<1>8. DeviceInv'
  BY <1>2 DEF PacketInv, DeviceInv, InGro
<1>9. \A a \in AllItems' : a.bufs_index # x /\ a \in AllItems
                           /\ a.bufs_index \in DOMAIN bufs
  BY <1>1, <1>3, ItemUnique, ItemPoints
<1>10. ShapeInv'
  <2> SUFFICES ASSUME NEW a \in AllItems' PROVE Shape(a)'
    BY DEF ShapeInv
  <2>1. Shape(a) /\ bufs'[a.bufs_index] = bufs[a.bufs_index]
    BY <1>2, <1>4, <1>9 DEF PacketInv, ShapeInv
  <2> QED BY <1>2, <2>1 DEF Shape
<1>11. HeaderInv'
  <2> SUFFICES ASSUME NEW y \in ToSet(to_write)
               PROVE  \/ \E a \in AllItems' : a.bufs_index = y
                      \/ bufs'[y].vnet = "none" /\ Len(bufs'[y].segs) = 1
    BY <1>2 DEF HeaderInv
  <2>1. CASE y = x
    <3>1. bufs[x].segs = <<bufs[x].head>>
      BY <1>1, <1>2 DEF PacketInv, ShapeInv, Shape
    <3>2. Len(bufs[x].segs) = 1
      BY <3>1
    <3> QED BY <1>5, <2>1, <3>2
  <2>2. CASE y # x
    BY <1>1, <1>2, <1>3, <1>4, <2>2 DEF PacketInv, HeaderInv
  <2> QED BY <2>1, <2>2
<1>12. NoBadChecksumMerged'
  BY <1>2, <1>4, <1>6 DEF PacketInv, NoBadChecksumMerged, Busy, InGro
<1>13. HeadersWritten'
  BY <1>2 DEF HeadersWritten
<1> QED BY <1>7, <1>8, <1>10, <1>11, <1>12, <1>13 DEF PacketInv

(* A packet is merged into the buffer of an item. *)
LEMMA GrowsKeeps ==
  ASSUME IInv, PacketInv, NEW item, NEW new, Grows(item, new)
  PROVE  PacketInv'
<1> DEFINE x == item.bufs_index
<1>1. /\ InGro /\ pkt_i \in DOMAIN pkts
      /\ pc' = "gro" /\ pkt_i' = pkt_i + 1
      /\ UNCHANGED <<dev, pkts, offset, to_write, outcome>>
  BY DEF Grows
<1>2. /\ item \in AllItems /\ item.num_merged \in Nat
      /\ AllItems' = (AllItems \ {item}) \cup {new}
      /\ new.bufs_index = x /\ new.num_merged = item.num_merged + 1
      /\ Pkt.csum /\ (item.num_merged = 0 => pkts[bufs[x].head].csum)
  BY DEF Grows
<1>3. /\ DOMAIN bufs' = DOMAIN bufs
      /\ AddsOne(bufs'[x].segs, bufs[x].segs, pkt_i)
      /\ Len(bufs'[x].segs) = Len(bufs[x].segs) + 1
      /\ bufs'[x].len + offset <= bufs'[x].cap
      /\ \A j \in DOMAIN bufs \ {x, pkt_i} : bufs'[j] = bufs[j]
      /\ bufs'[pkt_i] \in {bufs[pkt_i], bufs[x]}
  BY DEF Grows
<1>4. /\ pkt_i \in Nat /\ pkt_i >= 1 /\ pkt_i \in DOMAIN bufs /\ bufs[pkt_i].segs = <<pkt_i>>
      /\ ToSet(to_write) \subseteq DOMAIN bufs /\ pkt_i \notin ToSet(to_write)
      /\ x \in ToSet(to_write) /\ x \in DOMAIN bufs /\ x # pkt_i
      /\ bufs[x] \in Buffer
  BY <1>1, <1>2, FreshBuf, WrittenFacts, ItemPoints DEF IInv, TypeOK
<1>5. Shape(item)
  BY <1>1, <1>2 DEF PacketInv, ShapeInv
<1>6. bufs[x].segs \in Seq(Nat)
  BY <1>4 DEF Buffer
<1>7. \A y \in ToSet(to_write) \ {x} : bufs'[y] = bufs[y]
  BY <1>3, <1>4
<1>8. OnceInv'
  <2>1. Placed(bufs, ToSet(to_write), 1..pkt_i - 1)
    BY <1>1 DEF PacketInv, OnceInv, Busy, Handled, InGro
  <2>2. pkt_i \notin 1..pkt_i - 1
    BY <1>4
  <2>3. Handled' = (1..pkt_i - 1) \cup {pkt_i}
    BY <1>1, <1>4 DEF Handled
  <2>4. \A y \in ToSet(to_write) : y # x => bufs'[y].segs = bufs[y].segs
    BY <1>7
  <2>5. Placed(bufs', ToSet(to_write), (1..pkt_i - 1) \cup {pkt_i})
    BY <1>3, <1>4, <2>1, <2>2, <2>4, PlacedInto
  <2> QED BY <1>1, <2>3, <2>5 DEF OnceInv
<1>9. DeviceInv'
  BY <1>1 DEF PacketInv, DeviceInv, InGro
<1>10. \A a \in AllItems \ {item} :
         /\ a.bufs_index \in DOMAIN bufs /\ Shape(a)
         /\ bufs'[a.bufs_index] = bufs[a.bufs_index]
  <2> SUFFICES ASSUME NEW a \in AllItems \ {item}
               PROVE  /\ a.bufs_index \in ToSet(to_write) \ {x} /\ Shape(a)
    BY <1>4, <1>7
  <2> QED BY <1>1, <1>2, ItemUnique, ItemPoints DEF PacketInv, ShapeInv
<1>11. Len(bufs[x].segs) \in Nat /\ Len(bufs[x].segs) >= 1
  <2>1. CASE item.num_merged = 0
    <3>1. bufs[x].segs = <<bufs[x].head>>
      BY <1>5, <2>1 DEF Shape
    <3> QED BY <3>1
  <2>2. CASE item.num_merged > 0
    BY <1>5, <1>6, <2>2 DEF Shape
  <2> QED BY <1>2, <2>1, <2>2
<1>12. ShapeInv'
  <2> SUFFICES ASSUME NEW a \in AllItems' PROVE Shape(a)'
    BY DEF ShapeInv
  <2>1. CASE a \in AllItems \ {item}
    BY <1>1, <1>10, <2>1 DEF Shape
  <2>2. CASE a = new
    <3>1. a.bufs_index = x /\ a.num_merged > 0 /\ a.num_merged # 0
      BY <1>2, <2>2
    <3>2. Len(bufs'[x].segs) > 1
      BY <1>3, <1>11
    <3> QED BY <1>1, <1>3, <3>1, <3>2 DEF Shape
  <2> QED BY <1>2, <2>1, <2>2
<1>13. HeaderInv'
  <2> SUFFICES ASSUME NEW y \in ToSet(to_write)
               PROVE  \/ \E a \in AllItems' : a.bufs_index = y
                      \/ bufs'[y].vnet = "none" /\ Len(bufs'[y].segs) = 1
    BY <1>1 DEF HeaderInv
  <2>1. CASE y = x
    BY <1>2, <2>1
  <2>2. CASE y # x
    BY <1>1, <1>2, <1>7, <2>2 DEF PacketInv, HeaderInv
  <2> QED BY <2>1, <2>2
<1>14. NoBadChecksumMerged'
  <2> SUFFICES ASSUME NEW i \in DOMAIN bufs, Len(bufs'[i].segs) > 1,
                      NEW k \in DOMAIN bufs'[i].segs
               PROVE  pkts[bufs'[i].segs[k]].csum
    BY <1>1, <1>3 DEF NoBadChecksumMerged
  <2>1. \A j \in DOMAIN bufs : Len(bufs[j].segs) > 1 =>
          \A m \in DOMAIN bufs[j].segs : pkts[bufs[j].segs[m]].csum
    BY <1>1 DEF PacketInv, NoBadChecksumMerged, Busy, InGro
  <2>2. CASE i # x /\ i # pkt_i
    BY <1>3, <2>1, <2>2
  <2>3. CASE i = pkt_i
    BY <1>3, <1>4, <2>1, <2>3
  <2>4. CASE i = x
    <3>1. \A m \in DOMAIN bufs[x].segs : pkts[bufs[x].segs[m]].csum
      <4>1. CASE item.num_merged = 0
        BY <1>2, <1>5, <4>1 DEF Shape
      <4>2. CASE item.num_merged > 0
        BY <1>4, <1>5, <2>1, <4>2 DEF Shape
      <4> QED BY <1>2, <4>1, <4>2
    <3>2. \/ bufs'[x].segs[k] = pkt_i
          \/ \E m \in DOMAIN bufs[x].segs : bufs'[x].segs[k] = bufs[x].segs[m]
      BY <1>3, <2>4 DEF AddsOne
    <3> QED BY <1>2, <2>4, <3>1, <3>2 DEF Pkt
  <2> QED BY <2>2, <2>3, <2>4
<1>15. HeadersWritten'
  BY <1>1 DEF HeadersWritten
<1> QED BY <1>8, <1>9, <1>12, <1>13, <1>14, <1>15 DEF PacketInv

(* The accounting changes no content, length or capacity; a buffer that an *)
(* item points at gets the header of that item.                            *)
LEMMA AccountBufs ==
  ASSUME IInv, PacketInv, GroAccount
  PROVE  /\ InGro /\ pc' = "write" /\ UNCHANGED <<to_write, tables, pkt_i>>
         /\ UNCHANGED <<dev, pkts, offset, outcome>>
         /\ DOMAIN bufs' = DOMAIN bufs
         /\ \A j \in DOMAIN bufs :
              /\ bufs'[j].segs = bufs[j].segs /\ bufs'[j].len = bufs[j].len
              /\ bufs'[j].cap = bufs[j].cap
              /\ ItemsAt(j) = {} => bufs'[j].vnet = bufs[j].vnet
              /\ ItemsAt(j) # {} =>
                   \E a \in ItemsAt(j) : bufs'[j] = Account(bufs[j], a)
<1>1. /\ InGro /\ pc' = "write" /\ UNCHANGED <<to_write, tables, pkt_i>>
      /\ UNCHANGED <<dev, pkts, offset, outcome>>
      /\ bufs' = [i \in DOMAIN bufs |->
                    IF ItemsAt(i) = {} THEN bufs[i]
                    ELSE Account(bufs[i], CHOOSE item \in ItemsAt(i) : TRUE)]
  BY DEF GroAccount, call, InGro
<1>2. DOMAIN bufs' = DOMAIN bufs
  BY <1>1
<1>3. ASSUME NEW b \in Buffer, NEW item
      PROVE  /\ Account(b, item).segs = b.segs /\ Account(b, item).len = b.len
             /\ Account(b, item).cap = b.cap
  BY DEF Account, Buffer
<1>4. ASSUME NEW j \in DOMAIN bufs
      PROVE  /\ bufs'[j].segs = bufs[j].segs /\ bufs'[j].len = bufs[j].len
             /\ bufs'[j].cap = bufs[j].cap
             /\ ItemsAt(j) = {} => bufs'[j].vnet = bufs[j].vnet
             /\ ItemsAt(j) # {} =>
                  \E a \in ItemsAt(j) : bufs'[j] = Account(bufs[j], a)
  <2>1. bufs[j] \in Buffer
    BY BufFacts DEF IInv
  <2>2. CASE ItemsAt(j) = {}
    BY <1>1, <2>2
  <2>3. CASE ItemsAt(j) # {}
    <3>1. PICK a \in ItemsAt(j) : bufs'[j] = Account(bufs[j], a)
      BY <1>1, <2>3
    <3> QED BY <1>3, <2>1, <2>3, <3>1
  <2> QED BY <2>2, <2>3
<1> QED BY <1>1, <1>2, <1>4

(* The length of a packet that fits in 16 bits is its own remainder. *)
LEMMA SmallMod ==
  ASSUME NEW a \in Nat, NEW n \in Nat, a <= n
  PROVE  a % (n + 1) = a
  OBVIOUS

(* The headers the accounting leaves behind. *)
LEMMA AccountHeaders ==
  ASSUME IInv, PacketInv, GroAccount
  PROVE  HeadersWritten'
<1>1. /\ InGro /\ pc' = "write" /\ UNCHANGED <<to_write, tables, pkt_i>>
      /\ UNCHANGED <<dev, pkts, offset, outcome>>
      /\ DOMAIN bufs' = DOMAIN bufs
  BY AccountBufs
<1>2. \A j \in DOMAIN bufs :
        /\ bufs'[j].segs = bufs[j].segs /\ bufs'[j].len = bufs[j].len
        /\ bufs'[j].cap = bufs[j].cap
        /\ ItemsAt(j) = {} => bufs'[j].vnet = bufs[j].vnet
        /\ ItemsAt(j) # {} => \E a \in ItemsAt(j) : bufs'[j] = Account(bufs[j], a)
  BY AccountBufs
<1> DEFINE Good(b) ==
      /\ b.vnet # "stale"
      /\ b.vnet = "gso" <=> Len(b.segs) > 1
      /\ b.vnet = "gso"
           /\ (\A i \in DOMAIN bufs : bufs'[i].cap <= 2 * offset + MaxLen)
           => b.lenf = b.len - offset
<1>3. ASSUME NEW x \in ToSet(to_write)
      PROVE  Good(bufs'[x])
  <2>1. x \in DOMAIN bufs /\ bufs[x] \in Buffer /\ offset \in Nat
    BY WrittenFacts, BufFacts DEF IInv, TypeOK
  <2>2. CASE ItemsAt(x) = {}
    <3>1. ~\E item \in AllItems : item.bufs_index = x
      BY <2>2 DEF ItemsAt
    <3>2. bufs'[x].vnet = "none" /\ Len(bufs'[x].segs) = 1
      BY <1>1, <1>2, <2>1, <2>2, <3>1 DEF PacketInv, HeaderInv
    <3> QED BY <3>2
  <2>3. CASE ItemsAt(x) # {}
    <3>1. PICK a \in ItemsAt(x) : bufs'[x] = Account(bufs[x], a)
      BY <1>2, <2>1, <2>3
    <3>2. a \in AllItems /\ a.bufs_index = x
      BY DEF ItemsAt
    <3>3. Shape(a) /\ a.num_merged \in Nat /\ bufs[x].len > offset + HdrLen
      BY <1>1, <3>2, ItemPoints, AllItemsTyped
      DEF PacketInv, ShapeInv, IInv, Passed
    <3>4. CASE a.num_merged = 0
      <4>1. bufs'[x].vnet = "none"
        BY <2>1, <3>1, <3>4 DEF Account, Buffer
      <4>2. Len(bufs[x].segs) = 1
        <5>1. bufs[x].segs = <<bufs[x].head>>
          BY <3>2, <3>3, <3>4 DEF Shape
        <5> QED BY <5>1
      <4>3. Len(bufs'[x].segs) = 1
        BY <1>2, <2>1, <4>2
      <4> QED BY <4>1, <4>3
    <3>5. CASE a.num_merged > 0
      <4>1. /\ bufs'[x].vnet = "gso"
            /\ bufs'[x].lenf = (bufs[x].len - offset) % (MaxLen + 1)
        BY <2>1, <3>1, <3>5 DEF Account, Buffer
      <4>2. Len(bufs'[x].segs) > 1 /\ bufs[x].len + offset <= bufs[x].cap
        BY <1>2, <2>1, <3>2, <3>3, <3>5 DEF Shape
      <4>3. ASSUME \A i \in DOMAIN bufs : bufs'[i].cap <= 2 * offset + MaxLen
            PROVE  bufs'[x].lenf = bufs'[x].len - offset
        <5>1. /\ bufs[x].len \in Nat /\ bufs[x].cap \in Nat /\ MaxLen \in Nat
              /\ HdrLen \in Nat /\ bufs[x].cap <= 2 * offset + MaxLen
          BY <1>2, <2>1, <4>3, SizeAssumption DEF Buffer
        <5>2. bufs[x].len - offset \in Nat /\ bufs[x].len - offset <= MaxLen
          BY <2>1, <3>3, <4>2, <5>1
        <5>3. (bufs[x].len - offset) % (MaxLen + 1) = bufs[x].len - offset
          BY <5>1, <5>2, SmallMod
        <5> QED BY <1>2, <2>1, <4>1, <5>3
      <4> QED BY <4>1, <4>2, <4>3
    <3> QED BY <3>3, <3>4, <3>5
  <2> QED BY <2>2, <2>3
<1>4. \A w \in DOMAIN to_write : to_write[w] \in ToSet(to_write)
  BY DEF ToSet
<1>5. \A w \in DOMAIN to_write : Good(bufs'[to_write[w]])
  BY <1>3, <1>4
<1> QED BY <1>1, <1>5 DEF HeadersWritten, Emitted

(* The accounting keeps the invariant. *)
LEMMA AccountKeeps ==
  ASSUME IInv, PacketInv, GroAccount
  PROVE  PacketInv'
<1>1. /\ InGro /\ pc' = "write" /\ UNCHANGED <<to_write, tables, pkt_i>>
      /\ UNCHANGED <<dev, pkts, offset, outcome>>
      /\ DOMAIN bufs' = DOMAIN bufs
      /\ \A j \in DOMAIN bufs : bufs'[j].segs = bufs[j].segs
  BY AccountBufs
<1>2. pkt_i = Len(pkts) + 1 /\ DOMAIN pkts = 1..pkt_i - 1
  BY DEF GroAccount, IInv, LoopInv, TypeOK
<1>3. OnceInv'
  <2>1. Placed(bufs, ToSet(to_write), Handled) /\ Handled' = Handled
    BY <1>1, <1>2 DEF PacketInv, OnceInv, Busy, Handled, InGro
  <2>2. \A x \in ToSet(to_write) : bufs'[x].segs = bufs[x].segs
    BY <1>1, WrittenFacts
  <2>3. Placed(bufs', ToSet(to_write), Handled)
    BY <2>1, <2>2, PlacedSame
  <2> QED BY <1>1, <2>1, <2>3 DEF OnceInv
<1>4. DeviceInv'
  BY <1>1, <1>2 DEF DeviceInv, InGro
<1>5. ShapeInv' /\ HeaderInv'
  BY <1>1 DEF ShapeInv, HeaderInv, InGro
<1>6. NoBadChecksumMerged'
  BY <1>1 DEF PacketInv, NoBadChecksumMerged, Busy, InGro
<1> QED BY <1>3, <1>4, <1>5, <1>6, AccountHeaders DEF PacketInv

(* Entering a call. *)
LEMMA CallKeeps ==
  ASSUME Calling
  PROVE  PacketInv' /\ OutcomeInv'
<1>1. PICK off \in Offsets : \E b :
        /\ Enter(b, off) /\ b \in Seq(Packet)
        /\ \/ to_write' = <<>> /\ pc' = "idle"
           \/ to_write' = <<>> /\ pc' = "gro" /\ dev.vnet_hdr
           \/ to_write' = [i \in 1..Len(b) |-> i] /\ pc' = "write" /\ ~dev.vnet_hdr
  <2>1. <<>> \in Seq(Packet)
    OBVIOUS
  <2> QED BY <2>1, BatchSeq DEF Calling, CallEmpty, CallTooMany, CallGro,
             CallPlain, Return
<1>2. PICK b :
        /\ Enter(b, off) /\ b \in Seq(Packet)
        /\ \/ to_write' = <<>> /\ pc' = "idle"
           \/ to_write' = <<>> /\ pc' = "gro" /\ dev.vnet_hdr
           \/ to_write' = [i \in 1..Len(b) |-> i] /\ pc' = "write" /\ ~dev.vnet_hdr
  BY <1>1
<1>3. /\ pkts' = b /\ dev' = dev /\ pkt_i' = 1 /\ outcome' = <<>>
      /\ bufs' = [i \in 1..Len(b) |-> CallerBuf(b, off, i)]
      /\ tcp_gro_table' = EmptyTable /\ udp_gro_table' = EmptyTable
  BY <1>2 DEF Enter, Reset
<1>4. DOMAIN bufs' = 1..Len(b) /\ DOMAIN b = 1..Len(b) /\ Len(b) \in Nat
  BY <1>2, <1>3
<1>5. \A j \in DOMAIN bufs' : bufs'[j].segs = <<j>>
  BY <1>3, <1>4 DEF CallerBuf
<1>6. \A j \in DOMAIN bufs' : Len(bufs'[j].segs) = 1
  <2>1. \A j : Len(<<j>>) = 1
    OBVIOUS
  <2> QED BY <1>5, <2>1
<1>7. AllItems' = {}
  BY <1>3 DEF AllItems, EmptyTable, ToSet
<1>8. OnceInv'
  <2>1. CASE pc' = "gro" /\ to_write' = <<>>
    <3>1. ToSet(to_write') = {} /\ Handled' = {}
      BY <1>3, <2>1 DEF ToSet, Handled
    <3> QED BY <3>1 DEF OnceInv, Placed
  <2>2. CASE to_write' = [i \in 1..Len(b) |-> i] /\ pc' = "write"
    <3>1. ToSet(to_write') = 1..Len(b) /\ Handled' = 1..Len(b)
      BY <1>3, <1>4, <2>2 DEF ToSet, Handled
    <3>2. \A x \in 1..Len(b) : /\ bufs'[x].segs # <<>>
                               /\ DOMAIN bufs'[x].segs = {1}
                               /\ bufs'[x].segs[1] = x
      <4>1. \A j : <<j>> # <<>> /\ DOMAIN <<j>> = {1} /\ <<j>>[1] = j
        OBVIOUS
      <4> QED BY <1>4, <1>5, <4>1
    <3> QED BY <3>1, <3>2 DEF OnceInv, Placed
  <2>3. CASE pc' = "idle"
    BY <2>3 DEF OnceInv, Busy
  <2> QED BY <1>2, <2>1, <2>2, <2>3
<1>9. DeviceInv'
  BY <1>2, <1>3 DEF DeviceInv, InGro
<1>10. ShapeInv'
  BY <1>7 DEF ShapeInv
<1>11. HeaderInv'
  BY <1>2 DEF HeaderInv, InGro, ToSet
<1>12. NoBadChecksumMerged'
  <2>1. ~\E j \in DOMAIN bufs' : Len(bufs'[j].segs) > 1
    <3>1. ASSUME NEW j \in DOMAIN bufs', Len(bufs'[j].segs) > 1 PROVE FALSE
      <4>1. Len(bufs'[j].segs) = 1
        BY <1>6, <3>1
      <4> QED BY <3>1, <4>1
    <3> QED BY <3>1
  <2> QED BY <2>1 DEF NoBadChecksumMerged
<1>13. HeadersWritten'
  BY <1>2, <1>3 DEF HeadersWritten
<1>14. OutcomeInv'
  <2>1. Len(outcome') = 0 /\ DOMAIN outcome' = {}
    BY <1>3
  <2>2. Len(to_write') \in Nat
    BY <1>2, <1>4
  <2> QED BY <1>3, <2>1, <2>2 DEF OutcomeInv
<1> QED BY <1>8, <1>9, <1>10, <1>11, <1>12, <1>13, <1>14 DEF PacketInv

(* What the write loop remembers. *)
LEMMA OutcomeStep ==
  ASSUME IInv, OutcomeInv, InCall
  PROVE  OutcomeInv'
<1>1. /\ outcome \in Seq({"ok", "err", "badfd"}) /\ Len(outcome) \in Nat
      /\ to_write \in Seq(DOMAIN pkts) /\ Len(to_write) \in Nat
  BY DEF IInv, TypeOK
<1>2. ASSUME outcome' = outcome, Len(to_write') >= Len(to_write),
             Len(to_write') \in Nat,
             InGro' => InGro, pc' = "write" => pc = "write" \/ outcome = <<>>
      PROVE  OutcomeInv'
  BY <1>1, <1>2 DEF OutcomeInv
<1>3. CASE Still /\ outcome' = outcome
  BY <1>1, <1>2, <1>3 DEF Still
<1>4. CASE Pushed
  <2>1. Len(to_write') = Len(to_write) + 1
    BY <1>1, <1>4 DEF Pushed
  <2> QED BY <1>1, <1>2, <1>4, <2>1 DEF Pushed, InGro
<1>5. CASE Removed
  BY <1>1, <1>2, <1>5 DEF Removed, InGro
<1>6. CASE \E item, new : Grows(item, new)
  BY <1>1, <1>2, <1>6 DEF Grows, InGro
<1>7. CASE GroAccount
  <2>1. outcome = <<>> /\ outcome' = outcome /\ to_write' = to_write /\ pc' = "write"
    BY <1>7 DEF GroAccount, OutcomeInv, InGro
  <2> QED BY <1>1, <1>2, <2>1 DEF InGro
<1>8. ASSUME Writing, to_write' = to_write, Len(outcome') = Len(outcome) + 1,
             \/ pc' = "idle"
             \/ pc' = "write" /\ \A v \in DOMAIN outcome' : outcome'[v] # "badfd"
      PROVE  OutcomeInv'
  BY <1>1, <1>8 DEF Writing, NextWrite, OutcomeInv, InGro
<1>9. ASSUME NEW how \in {"ok", "err"}, Write(how) PROVE OutcomeInv'
  <2>1. Writing /\ outcome' = Append(outcome, how) /\ to_write' = to_write
        /\ pc' = "write"
    BY <1>9 DEF Write, Writing, unchangedByWrite
  <2>2. Len(outcome') = Len(outcome) + 1
    BY <1>1, <2>1
  <2>3. \A v \in DOMAIN outcome' : outcome'[v] # "badfd"
    BY <1>1, <2>1 DEF OutcomeInv, Writing
  <2> QED BY <1>8, <2>1, <2>2, <2>3
<1>10. CASE WriteBadFd
  <2>1. Writing /\ outcome' = Append(outcome, "badfd") /\ to_write' = to_write
        /\ pc' = "idle"
    BY <1>10 DEF WriteBadFd, Return, unchangedByWrite
  <2>2. Len(outcome') = Len(outcome) + 1
    BY <1>1, <2>1
  <2> QED BY <1>8, <2>1, <2>2
<1>11. CASE WriteInvalidOffset \/ Finish \/ Cancel
  BY <1>1, <1>2, <1>11 DEF WriteInvalidOffset, Finish, Cancel, Return,
     unchangedByWrite, InGro
<1>12. CASE GroInvalidOffset \/ TcpLookup \/ ScanSkip
  BY <1>1, <1>2, <1>12 DEF GroInvalidOffset, TcpLookup, ScanSkip, InLoop,
     Scanning, Return, InGro
<1>13. CASE UNCHANGED vars
  BY <1>1, <1>2, <1>13 DEF vars, InGro
<1>14. CASE GroNoop \/ ScanPktInvalid \/ ScanInsert \/ UdpInsert
  <2>1. CASE GroNoop \/ ScanPktInvalid
    <3>1. InGro /\ pkt_i \in DOMAIN pkts /\ Noop
      BY <2>1, ScanFacts DEF GroNoop, InLoop, ScanPktInvalid, Scanning, IInv,
         LoopInv, TypeOK, InGro
    <3> QED BY <1>4, <3>1, NoopPushes
  <2> QED BY <1>4, <1>14, <2>1, InsertPushes
<1>15. CASE ScanItemInvalid
  BY <1>5, <1>15, InvalidRemoves
<1>16. CASE ScanAppend \/ ScanPrepend \/ UdpAppend
  BY <1>6, <1>16, AppendGrows, PrependGrows, UdpAppendGrows
<1> QED BY <1>7, <1>9, <1>10, <1>11, <1>12, <1>13, <1>14, <1>15, <1>16
        DEF InCall, Running, Coalescing, WritingOut

-----------------------------------------------------------------------------
(* Theorems. *)

(* The initial states satisfy the invariant. *)
LEMMA InitDInv ==
  ASSUME Init
  PROVE  DInv
<1>1. IInv
  BY InitIInv
<1>2. OnceInv /\ DeviceInv /\ ShapeInv /\ HeaderInv /\ HeadersWritten
      /\ NoBadChecksumMerged
  BY DEF Init, OnceInv, Busy, DeviceInv, ShapeInv, HeaderInv, HeadersWritten,
         NoBadChecksumMerged, InGro
<1>3. OutcomeInv
  BY DEF Init, OutcomeInv
<1> QED BY <1>1, <1>2, <1>3 DEF DInv

(* Every step keeps it. *)
LEMMA NextDInv ==
  ASSUME DInv, [Next]_vars
  PROVE  DInv'
<1>1. IInv /\ IInv' /\ PacketInv /\ OutcomeInv
  BY NextIInv DEF DInv, PacketInv
<1>2. CASE Calling
  BY <1>1, <1>2, CallKeeps DEF DInv, PacketInv
<1>3. CASE InCall
  <2>1. OutcomeInv'
    BY <1>1, <1>3, OutcomeStep
  <2>2. TypeOK'
    BY <1>1 DEF IInv
  <2>3. PacketInv'
    BY <1>1, <1>3, <2>2, StepKinds, StillKeeps, PushedKeeps, RemovedKeeps,
       GrowsKeeps, AccountKeeps
  <2> QED BY <1>1, <2>1, <2>3 DEF DInv, PacketInv
<1> QED BY <1>2, <1>3 DEF Next, InCall

(* The strengthened invariant holds of every state of send_multiple. *)
THEOREM DeliveryInvariance == Spec => []DInv
<1>1. Init => DInv
  BY InitDInv
<1>2. DInv /\ [Next]_vars => DInv'
  BY NextDInv
<1> QED BY <1>1, <1>2, PTL DEF Spec

(* ExactlyOnce: every packet handle_gro is through with is in exactly one  *)
(* place of exactly one buffer that will be written, for every batch: the  *)
(* in-place swap of the Prepend case and the removal of items with a wrong *)
(* checksum neither lose nor duplicate one.                                *)
THEOREM NothingLostOrDoubled == Spec => []ExactlyOnce
<1>1. DInv => ExactlyOnce
  <2> SUFFICES ASSUME DInv, Busy, NEW i \in Decided
               PROVE  /\ \E w \in DOMAIN to_write :
                           \E k \in DOMAIN Emitted(w).segs : Emitted(w).segs[k] = i
                      /\ \A v, w \in DOMAIN to_write :
                           \A j \in DOMAIN Emitted(v).segs,
                              k \in DOMAIN Emitted(w).segs :
                             Emitted(v).segs[j] = i /\ Emitted(w).segs[k] = i
                               => v = w /\ j = k
    BY DEF ExactlyOnce
  <2>1. Placed(bufs, ToSet(to_write), Handled)
    BY DEF DInv, OnceInv
  <2>2. i \in Handled
    <3>1. pc \in {"gro", "scan", "write"} /\ Len(pkts) \in Nat
          /\ DOMAIN pkts = 1..Len(pkts)
      BY DEF DInv, IInv, TypeOK, Busy
    <3> QED BY <3>1 DEF DInv, DeviceInv, Handled, Decided, InGro
  <2>3. /\ to_write \in Seq(DOMAIN pkts)
        /\ \A w \in DOMAIN to_write : to_write[w] \in ToSet(to_write)
        /\ \A x \in ToSet(to_write) : \E w \in DOMAIN to_write : to_write[w] = x
    BY DEF DInv, IInv, TypeOK, ToSet
  <2>4. \E w \in DOMAIN to_write :
          \E k \in DOMAIN Emitted(w).segs : Emitted(w).segs[k] = i
    <3>1. PICK x \in ToSet(to_write) : \E k \in DOMAIN bufs[x].segs : bufs[x].segs[k] = i
      BY <2>1, <2>2 DEF Placed
    <3> QED BY <2>3, <3>1 DEF Emitted
  <2>5. ASSUME NEW v \in DOMAIN to_write, NEW w \in DOMAIN to_write,
               NEW j \in DOMAIN Emitted(v).segs, NEW k \in DOMAIN Emitted(w).segs,
               Emitted(v).segs[j] = i, Emitted(w).segs[k] = i
        PROVE  v = w /\ j = k
    <3>1. to_write[v] = to_write[w] /\ j = k
      BY <2>1, <2>3, <2>5 DEF Placed, Emitted
    <3>2. /\ v \in Nat /\ w \in Nat /\ to_write[v] \in Nat /\ to_write[w] \in Nat
          /\ (v < w => to_write[v] < to_write[w])
          /\ (w < v => to_write[w] < to_write[v])
      BY DEF DInv, IInv, WriteInv, TypeOK
    <3> QED BY <3>1, <3>2
  <2> QED BY <2>4, <2>5
<1> QED BY <1>1, DeliveryInvariance, PTL

(* NoBadChecksumMerged: the kernel never gets to recompute a checksum that *)
(* was wrong: a buffer of several packets holds verified ones only.        *)
THEOREM WrongChecksumsStay == Spec => []NoBadChecksumMerged
<1>1. DInv => NoBadChecksumMerged
  BY DEF DInv
<1> QED BY <1>1, DeliveryInvariance, PTL

(* HeadersWritten: when writing starts every buffer has a virtio header,   *)
(* it announces segmentation exactly when there are several packets, and   *)
(* the length field it implies has not been truncated to 16 bits.          *)
THEOREM HeadersComplete == Spec => []HeadersWritten
<1>1. DInv => HeadersWritten
  BY DEF DInv
<1> QED BY <1>1, DeliveryInvariance, PTL

-----------------------------------------------------------------------------
(* send_multiple implements BatchDelivery. *)

(* The packets of the writes with outcome h. *)
LEMMA InDelivered ==
  ASSUME NEW h, NEW x
  PROVE  x \in DeliveredBy(h) <=>
           \E w \in DOMAIN outcome : outcome[w] \in h /\ x \in ToSet(Emitted(w).segs)
  BY DEF DeliveredBy

(* Before the first write nothing is delivered or lost. *)
LEMMA NothingYet ==
  ASSUME outcome = <<>>
  PROVE  DeliveredBy({"ok"}) = {} /\ DeliveredBy({"err", "badfd"}) = {}
<1>1. DOMAIN outcome = {}
  OBVIOUS
<1> QED BY <1>1 DEF DeliveredBy

(* A step that leaves the writes alone leaves the packets where they are. *)
LEMMA SameDelivered ==
  ASSUME UNCHANGED <<bufs, to_write, outcome>>
  PROVE  /\ DeliveredBy({"ok"})' = DeliveredBy({"ok"})
         /\ DeliveredBy({"err", "badfd"})' = DeliveredBy({"err", "badfd"})
  BY DEF DeliveredBy, Emitted

(* The packets of the buffer that is written next. *)
Carried == ToSet(Emitted(NextWrite).segs)

(* They are packets of the batch, at least one, in no earlier write. *)
LEMMA CarriedPending ==
  ASSUME DInv, Writing
  PROVE  /\ Carried # {}
         /\ Carried \subseteq DOMAIN pkts
         /\ Carried \cap (DeliveredBy({"ok"}) \cup DeliveredBy({"err", "badfd"})) = {}
<1>1. Placed(bufs, ToSet(to_write), DOMAIN pkts)
  BY DEF DInv, OnceInv, Writing, Busy, Handled
<1>2. /\ to_write \in Seq(DOMAIN pkts) /\ pkts \in Seq(Packet)
      /\ outcome \in Seq({"ok", "err", "badfd"})
  BY DEF DInv, IInv, TypeOK
<1>3. NextWrite \in DOMAIN to_write /\ \A v \in DOMAIN outcome :
        v \in DOMAIN to_write /\ v < NextWrite
  BY <1>2 DEF DInv, OutcomeInv, Writing, NextWrite
<1>4. \A w \in DOMAIN to_write : to_write[w] \in ToSet(to_write)
  BY DEF ToSet
<1>5. \A w \in DOMAIN to_write :
        bufs[to_write[w]].segs \in Seq(Nat)
  <2>1. bufs \in Seq(Buffer) /\ Len(bufs) = Len(pkts)
    BY DEF DInv, IInv, TypeOK
  <2>2. \A w \in DOMAIN to_write : to_write[w] \in DOMAIN bufs
    BY <1>2, <2>1
  <2>3. \A x \in DOMAIN bufs : bufs[x].segs \in Seq(Nat)
    <3>1. \A x \in DOMAIN bufs : bufs[x] \in Buffer
      BY <2>1
    <3>2. \A b \in Buffer : b.segs \in Seq(Nat)
      BY DEF Buffer
    <3> QED BY <3>1, <3>2
  <2> QED BY <2>2, <2>3
<1>6. Carried # {}
  <2>1. bufs[to_write[NextWrite]].segs # <<>>
    BY <1>1, <1>3, <1>4 DEF Placed
  <2>2. ASSUME NEW s \in Seq(Nat), s # <<>> PROVE 1 \in DOMAIN s
    BY <2>2
  <2>3. 1 \in DOMAIN bufs[to_write[NextWrite]].segs
    <3>1. bufs[to_write[NextWrite]].segs \in Seq(Nat)
      BY <1>3, <1>5
    <3> QED BY <2>1, <2>2, <3>1
  <2> QED BY <2>3 DEF Carried, Emitted, ToSet
<1>7. Carried \subseteq DOMAIN pkts
  BY <1>1, <1>3, <1>4 DEF Carried, Emitted, ToSet, Placed
<1>8. ASSUME NEW v \in DOMAIN outcome PROVE Carried \cap ToSet(Emitted(v).segs) = {}
  <2>1. to_write[v] # to_write[NextWrite]
    <3>1. /\ v \in DOMAIN to_write /\ NextWrite \in DOMAIN to_write /\ v < NextWrite
          /\ to_write[v] \in Nat /\ to_write[NextWrite] \in Nat
      BY <1>2, <1>3
    <3>2. to_write[v] < to_write[NextWrite]
      BY <3>1 DEF DInv, IInv, WriteInv
    <3> QED BY <3>1, <3>2
  <2>2. to_write[v] \in ToSet(to_write) /\ to_write[NextWrite] \in ToSet(to_write)
    BY <1>3, <1>4
  <2>3. ASSUME NEW x, x \in Carried, x \in ToSet(Emitted(v).segs) PROVE FALSE
    <3>1. PICK j \in DOMAIN bufs[to_write[v]].segs : bufs[to_write[v]].segs[j] = x
      BY <2>3 DEF Emitted, ToSet
    <3>2. PICK k \in DOMAIN bufs[to_write[NextWrite]].segs :
            bufs[to_write[NextWrite]].segs[k] = x
      BY <2>3 DEF Carried, Emitted, ToSet
    <3>3. to_write[v] = to_write[NextWrite]
      <4>1. \A x1, x2 \in ToSet(to_write) :
              \A k1 \in DOMAIN bufs[x1].segs, k2 \in DOMAIN bufs[x2].segs :
                bufs[x1].segs[k1] = bufs[x2].segs[k2] => x1 = x2
        BY <1>1, Zenon DEF Placed
      <4>2. bufs[to_write[v]].segs[j] = bufs[to_write[NextWrite]].segs[k]
        BY <3>1, <3>2
      <4> QED BY <2>2, <4>1, <4>2
    <3> QED BY <2>1, <3>3
  <2> QED BY <2>3
<1> QED BY <1>6, <1>7, <1>8 DEF DeliveredBy

(* A write adds the packets it carries to those with its outcome. *)
LEMMA WriteCarries ==
  ASSUME DInv, Writing, UNCHANGED <<bufs, to_write>>,
         DOMAIN outcome' = DOMAIN outcome \cup {NextWrite},
         \A v \in DOMAIN outcome : v # NextWrite /\ outcome'[v] = outcome[v],
         NEW h
  PROVE  /\ outcome'[NextWrite] \in h => DeliveredBy(h)' = DeliveredBy(h) \cup Carried
         /\ outcome'[NextWrite] \notin h => DeliveredBy(h)' = DeliveredBy(h)
<1>1. DeliveredBy(h)' =
        UNION {ToSet(Emitted(w).segs) : w \in {v \in DOMAIN outcome' : outcome'[v] \in h}}
  BY DEF DeliveredBy, Emitted
<1>2. ASSUME NEW x
      PROVE  x \in DeliveredBy(h)' <=>
               \E w \in DOMAIN outcome' : outcome'[w] \in h /\ x \in ToSet(Emitted(w).segs)
  BY <1>1
<1>3. ASSUME NEW x
      PROVE  x \in DeliveredBy(h)' <=>
               x \in DeliveredBy(h) \/ (outcome'[NextWrite] \in h /\ x \in Carried)
  <2>1. ASSUME x \in DeliveredBy(h)'
        PROVE  x \in DeliveredBy(h) \/ (outcome'[NextWrite] \in h /\ x \in Carried)
    <3>1. PICK w \in DOMAIN outcome' :
            outcome'[w] \in h /\ x \in ToSet(Emitted(w).segs)
      BY <1>2, <2>1
    <3>2. CASE w \in DOMAIN outcome
      <4>1. outcome[w] \in h
        BY <3>1, <3>2
      <4>2. \E v \in DOMAIN outcome : outcome[v] \in h /\ x \in ToSet(Emitted(v).segs)
        BY <3>1, <3>2, <4>1
      <4> QED BY <4>2, InDelivered
    <3>3. CASE w = NextWrite
      BY <3>1, <3>3 DEF Carried
    <3> QED BY <3>1, <3>2, <3>3
  <2>2. ASSUME x \in DeliveredBy(h) PROVE x \in DeliveredBy(h)'
    <3>1. PICK w \in DOMAIN outcome : outcome[w] \in h /\ x \in ToSet(Emitted(w).segs)
      BY <2>2, InDelivered
    <3>2. w \in DOMAIN outcome' /\ outcome'[w] = outcome[w]
      OBVIOUS
    <3> QED BY <1>2, <3>1, <3>2
  <2>3. ASSUME outcome'[NextWrite] \in h, x \in Carried PROVE x \in DeliveredBy(h)'
    <3>1. NextWrite \in DOMAIN outcome'
      OBVIOUS
    <3> QED BY <1>2, <2>3, <3>1 DEF Carried
  <2> QED BY <2>1, <2>2, <2>3
<1>4. DeliveredBy(h) \subseteq DeliveredBy(h)'
  <2> SUFFICES ASSUME NEW x \in DeliveredBy(h) PROVE x \in DeliveredBy(h)'
    OBVIOUS
  <2> QED BY <1>3
<1>5. outcome'[NextWrite] \in h => Carried \subseteq DeliveredBy(h)'
  BY <1>3
<1>6. DeliveredBy(h)' \subseteq DeliveredBy(h) \cup Carried
  BY <1>3
<1>7. outcome'[NextWrite] \notin h => DeliveredBy(h)' \subseteq DeliveredBy(h)
  BY <1>3
<1> QED BY <1>4, <1>5, <1>6, <1>7

(* The initial states map to initial states. *)
LEMMA DeliveryInit ==
  ASSUME Init
  PROVE  Delivery!Init
<1>1. pkts = <<>> /\ outcome = <<>> /\ ~Busy /\ result = "none"
  BY DEF Init, Busy
<1>2. DOMAIN pkts = {}
  BY <1>1
<1> QED BY <1>1, <1>2, NothingYet DEF Delivery!Init

(* Entering a call maps to Call. *)
LEMMA CallMaps ==
  ASSUME Calling
  PROVE  Delivery!Next
<1>1. PICK off \in Offsets :
        \E b \in Batch \cup {<<>>} :
          /\ Enter(b, off) /\ b \in Seq(Packet)
          /\ \/ pc' = "idle" /\ result' = "ok" /\ b = <<>>
             \/ pc' = "idle" /\ result' = "err"
             \/ pc' \in {"gro", "write"} /\ result' = "none"
  <2>1. <<>> \in Seq(Packet)
    OBVIOUS
  <2> QED BY <2>1, BatchSeq DEF Calling, CallEmpty, CallTooMany, CallGro,
             CallPlain, Return
<1>2. PICK b \in Batch \cup {<<>>} :
          /\ Enter(b, off) /\ b \in Seq(Packet)
          /\ \/ pc' = "idle" /\ result' = "ok" /\ b = <<>>
             \/ pc' = "idle" /\ result' = "err"
             \/ pc' \in {"gro", "write"} /\ result' = "none"
  BY <1>1
<1>3. pkts' = b /\ outcome' = <<>> /\ ~Busy
  BY <1>2 DEF Enter, Ready, Busy
<1>4. DOMAIN pkts' = 1..Len(b)
  BY <1>2, <1>3
<1>5. DeliveredBy({"ok"})' = {} /\ DeliveredBy({"err", "badfd"})' = {}
  <2>1. DOMAIN outcome' = {}
    BY <1>3
  <2> QED BY <2>1 DEF DeliveredBy
<1>6. \/ Busy' /\ result' = "none"
      \/ ~Busy' /\ result' = "err"
      \/ ~Busy' /\ result' = "ok" /\ Len(b) = 0
  <2>1. b = <<>> => Len(b) = 0
    OBVIOUS
  <2> QED BY <1>2, <2>1 DEF Busy
<1>7. Busy \in BOOLEAN /\ Busy' \in BOOLEAN
  BY DEF Busy
<1>8. Delivery!Call(Len(b))
  BY <1>3, <1>4, <1>5, <1>6, <1>7 DEF Delivery!Call
<1> QED BY <1>8 DEF Delivery!Next

(* A step of the coalescer is a stutter, or the call gives up. *)
LEMMA CoalescingMaps ==
  ASSUME DInv, Coalescing
  PROVE  Delivery!Next \/ UNCHANGED Delivery!vars
<1>1. /\ InGro /\ outcome' = outcome /\ pkts' = pkts
      /\ \/ pc' \in {"gro", "scan", "write"} /\ result' = result
         \/ pc' = "idle" /\ result' = "err"
  <2>1. CASE GroInvalidOffset \/ GroNoop \/ TcpLookup \/ ScanSkip \/ ScanItemInvalid
             \/ ScanPktInvalid \/ GroAccount
    BY <2>1
    DEF GroInvalidOffset, GroNoop, TcpLookup, ScanSkip, ScanItemInvalid,
        ScanPktInvalid, GroAccount, Noop, NextPacket, InLoop, Scanning, Return,
        InGro, call
  <2>2. CASE ScanAppend \/ ScanPrepend \/ ScanInsert \/ UdpAppend \/ UdpInsert
    BY <2>2
    DEF ScanAppend, ScanPrepend, TcpMerge, ScanInsert, UdpAppend, UdpInsert,
        UdpEligible, TableInsert, Coalesced, NextPacket, InLoop, Scanning,
        InGro, call
  <2> QED BY <2>1, <2>2 DEF Coalescing
<1>2. outcome = <<>> /\ outcome' = <<>>
  BY <1>1 DEF DInv, OutcomeInv
<1>3. /\ DeliveredBy({"ok"}) = {} /\ DeliveredBy({"err", "badfd"}) = {}
      /\ DeliveredBy({"ok"})' = {} /\ DeliveredBy({"err", "badfd"})' = {}
  <2>1. DOMAIN outcome = {} /\ DOMAIN outcome' = {}
    BY <1>2
  <2> QED BY <2>1 DEF DeliveredBy
<1>4. Busy = TRUE
  BY <1>1 DEF InGro, Busy
<1>5. CASE pc' \in {"gro", "scan", "write"} /\ result' = result
  <2>1. Busy' = TRUE
    BY <1>5 DEF Busy
  <2> QED BY <1>1, <1>3, <1>4, <1>5, <2>1 DEF Delivery!vars
<1>6. CASE pc' = "idle" /\ result' = "err"
  <2>1. Busy' = FALSE
    BY <1>6 DEF Busy
  <2>2. Delivery!Return("err")
    BY <1>1, <1>3, <1>4, <1>6, <2>1 DEF Delivery!Return
  <2> QED BY <2>2 DEF Delivery!Next
<1> QED BY <1>1, <1>5, <1>6

(* A write maps to Deliver or Lose of the packets in the buffer. *)
LEMMA WriteMaps ==
  ASSUME DInv, Write("ok") \/ Write("err") \/ WriteBadFd
  PROVE  Delivery!Next
<1>1. /\ Writing /\ pkts' = pkts /\ bufs' = bufs /\ to_write' = to_write
      /\ \/ outcome' = Append(outcome, "ok") /\ pc' = pc /\ result' = result
         \/ outcome' = Append(outcome, "err") /\ pc' = pc /\ result' = result
         \/ outcome' = Append(outcome, "badfd") /\ pc' = "idle" /\ result' = "err"
  BY DEF Write, WriteBadFd, Writing, Return, unchangedByWrite, call
<1>2. outcome \in Seq({"ok", "err", "badfd"})
  BY DEF DInv, IInv, TypeOK
<1>3. /\ DOMAIN outcome' = DOMAIN outcome \cup {NextWrite}
      /\ \A v \in DOMAIN outcome : v # NextWrite /\ outcome'[v] = outcome[v]
      /\ \/ outcome'[NextWrite] = "ok" /\ pc' = pc /\ result' = result
         \/ outcome'[NextWrite] = "err" /\ pc' = pc /\ result' = result
         \/ outcome'[NextWrite] = "badfd" /\ pc' = "idle" /\ result' = "err"
  <2>1. ASSUME NEW s \in Seq({"ok", "err", "badfd"}), NEW e
        PROVE  /\ DOMAIN Append(s, e) = DOMAIN s \cup {Len(s) + 1}
               /\ Append(s, e)[Len(s) + 1] = e
               /\ \A v \in DOMAIN s : v # Len(s) + 1 /\ Append(s, e)[v] = s[v]
    OBVIOUS
  <2>2. CASE outcome' = Append(outcome, "ok") /\ pc' = pc /\ result' = result
    BY <1>2, <2>1, <2>2 DEF NextWrite
  <2>3. CASE outcome' = Append(outcome, "err") /\ pc' = pc /\ result' = result
    BY <1>2, <2>1, <2>3 DEF NextWrite
  <2>4. CASE outcome' = Append(outcome, "badfd") /\ pc' = "idle" /\ result' = "err"
    BY <1>2, <2>1, <2>4 DEF NextWrite
  <2> QED BY <1>1, <2>2, <2>3, <2>4
<1>4. UNCHANGED <<bufs, to_write>>
  BY <1>1
<1>5. \A h : /\ outcome'[NextWrite] \in h => DeliveredBy(h)' = DeliveredBy(h) \cup Carried
             /\ outcome'[NextWrite] \notin h => DeliveredBy(h)' = DeliveredBy(h)
  BY <1>1, <1>3, <1>4, WriteCarries
<1>6. /\ Carried # {} /\ Carried \subseteq DOMAIN pkts
      /\ Carried \cap (DeliveredBy({"ok"}) \cup DeliveredBy({"err", "badfd"})) = {}
  BY <1>1, CarriedPending
<1>7. Carried \subseteq Delivery!Pending
  BY <1>6 DEF Delivery!Pending
<1>8. Busy = TRUE /\ Carried \in SUBSET DOMAIN pkts
  BY <1>1, <1>6 DEF Writing, Busy
<1>9. CASE outcome'[NextWrite] = "ok" /\ pc' = pc /\ result' = result
  <2>1. /\ DeliveredBy({"ok"})' = DeliveredBy({"ok"}) \cup Carried
        /\ DeliveredBy({"err", "badfd"})' = DeliveredBy({"err", "badfd"})
    BY <1>5, <1>9
  <2>2. Busy' = Busy
    BY <1>9 DEF Busy
  <2>3. Delivery!Deliver(Carried)
    BY <1>1, <1>6, <1>7, <1>8, <1>9, <2>1, <2>2 DEF Delivery!Deliver
  <2> QED BY <1>8, <2>3 DEF Delivery!Next
<1>10. CASE outcome'[NextWrite] \in {"err", "badfd"}
  <2>1. /\ DeliveredBy({"ok"})' = DeliveredBy({"ok"})
        /\ DeliveredBy({"err", "badfd"})' = DeliveredBy({"err", "badfd"}) \cup Carried
    BY <1>5, <1>10
  <2>2. \/ Busy' = Busy /\ result' = result
        \/ Busy' = FALSE /\ result' = "err"
    BY <1>3, <1>10 DEF Busy
  <2>3. Delivery!Lose(Carried)
    BY <1>1, <1>6, <1>7, <1>8, <2>1, <2>2 DEF Delivery!Lose
  <2> QED BY <1>8, <2>3 DEF Delivery!Next
<1> QED BY <1>3, <1>9, <1>10

(* After a loop without errors every packet has been delivered. *)
LEMMA AllDelivered ==
  ASSUME DInv, Finish, "err" \notin ToSet(outcome)
  PROVE  DeliveredBy({"ok"}) = DOMAIN pkts
<1>1. pc = "write" /\ NextWrite > Len(to_write)
  BY DEF Finish
<1>2. /\ to_write \in Seq(DOMAIN pkts) /\ outcome \in Seq({"ok", "err", "badfd"})
  BY DEF DInv, IInv, TypeOK
<1>3. DOMAIN outcome = DOMAIN to_write
  BY <1>1, <1>2 DEF DInv, OutcomeInv, NextWrite
<1>4. \A v \in DOMAIN outcome : outcome[v] = "ok"
  <2>1. \A v \in DOMAIN outcome : outcome[v] # "badfd"
    BY <1>1 DEF DInv, OutcomeInv
  <2>2. \A v \in DOMAIN outcome : outcome[v] # "err"
    BY DEF ToSet
  <2> QED BY <1>2, <2>1, <2>2
<1>5. Placed(bufs, ToSet(to_write), DOMAIN pkts)
  BY <1>1 DEF DInv, OnceInv, Busy, Handled
<1>6. ASSUME NEW i \in DOMAIN pkts PROVE i \in DeliveredBy({"ok"})
  <2>1. PICK x \in ToSet(to_write) : \E k \in DOMAIN bufs[x].segs : bufs[x].segs[k] = i
    BY <1>5 DEF Placed
  <2>2. PICK w \in DOMAIN to_write : to_write[w] = x
    BY DEF ToSet
  <2>3. w \in DOMAIN outcome /\ outcome[w] \in {"ok"}
    BY <1>3, <1>4
  <2>4. i \in ToSet(Emitted(w).segs)
    BY <2>1, <2>2 DEF Emitted, ToSet
  <2> QED BY <2>3, <2>4, InDelivered
<1>7. ASSUME NEW i \in DeliveredBy({"ok"}) PROVE i \in DOMAIN pkts
  <2>1. PICK w \in DOMAIN outcome : i \in ToSet(Emitted(w).segs)
    BY InDelivered
  <2>2. to_write[w] \in ToSet(to_write)
    BY <1>3 DEF ToSet
  <2>3. PICK k \in DOMAIN bufs[to_write[w]].segs : bufs[to_write[w]].segs[k] = i
    BY <2>1 DEF Emitted, ToSet
  <2> QED BY <1>5, <2>2, <2>3 DEF Placed
<1> QED BY <1>6, <1>7

(* Every other end of the call maps to Return. *)
LEMMA ReturnMaps ==
  ASSUME DInv, WriteInvalidOffset \/ Finish \/ Cancel
  PROVE  Delivery!Next
<1>1. /\ pc = "write" /\ pc' = "idle"
      /\ UNCHANGED <<pkts, bufs, to_write, outcome>>
      /\ result' \in {"ok", "err", "cancelled"}
      /\ result' = "ok" => Finish /\ "err" \notin ToSet(outcome)
  BY DEF WriteInvalidOffset, Finish, Cancel, Writing, Return, unchangedByWrite, call
<1>2. Busy = TRUE /\ Busy' = FALSE
  BY <1>1 DEF Busy
<1>3. /\ DeliveredBy({"ok"})' = DeliveredBy({"ok"})
      /\ DeliveredBy({"err", "badfd"})' = DeliveredBy({"err", "badfd"})
  BY <1>1, SameDelivered
<1>4. result' = "ok" => DeliveredBy({"ok"}) = DOMAIN pkts
  BY <1>1, AllDelivered
<1>5. Delivery!Return(result')
  BY <1>1, <1>2, <1>3, <1>4 DEF Delivery!Return
<1> QED BY <1>1, <1>5 DEF Delivery!Next

(* Every step maps to a step or a stutter. *)
LEMMA StepMaps ==
  ASSUME DInv, [Next]_vars
  PROVE  [Delivery!Next]_(Delivery!vars)
<1>1. CASE UNCHANGED vars
  BY <1>1, SameDelivered DEF vars, Delivery!vars, Busy
<1>2. CASE Calling
  BY <1>2, CallMaps
<1>3. CASE Coalescing
  BY <1>3, CoalescingMaps
<1>4. CASE WritingOut \/ Cancel
  BY <1>4, WriteMaps, ReturnMaps DEF WritingOut
<1> QED BY <1>1, <1>2, <1>3, <1>4 DEF Next, Running

(* DeliversBatch: for every batch, device and outcome of the writes,       *)
(* send_multiple does what BatchDelivery promises: each packet reaches the *)
(* kernel at most once, only a failed write loses packets, and Ok means    *)
(* that every packet of the batch was accepted.                            *)
THEOREM ImplementsBatchDelivery == Spec => DeliversBatch
<1>1. Init => Delivery!Init
  BY DeliveryInit
<1>2. DInv /\ [Next]_vars => [Delivery!Next]_(Delivery!vars)
  BY StepMaps
<1> QED BY <1>1, <1>2, DeliveryInvariance, PTL DEF Spec, DeliversBatch, Delivery!Spec

-----------------------------------------------------------------------------
(* Arithmetic of payload lengths and sequence numbers. *)

(* Division with remainder. *)
LEMMA DivMod ==
  ASSUME NEW a \in Int, NEW n \in Nat, n > 0
  PROVE  /\ a % n \in 0..n-1 /\ a \div n \in Int
         /\ a = n * (a \div n) + (a % n)
<1>1. a % n \in 0..n-1 /\ a \div n \in Int
  OBVIOUS
<1>2. a = n * (a \div n) + (a % n)
  BY Z3
<1> QED BY <1>1, <1>2

(* A multiple of n smaller than n is 0. *)
LEMMA SmallMultiple ==
  ASSUME NEW n \in Nat, n > 0, NEW m \in Int, n * m < n, n * m > -n
  PROVE  m = 0
<1>1. ASSUME m >= 1 PROVE FALSE
  <2>1. n * m >= n
    BY <1>1
  <2> QED BY <2>1
<1>2. ASSUME m <= -1 PROVE FALSE
  <2>1. n * m <= -n
    BY <1>2
  <2> QED BY <2>1
<1> QED BY <1>1, <1>2

(* A last packet of at most g bytes behind n of g bytes, the sum being a   *)
(* multiple of g, has g bytes.                                             *)
LEMMA FullTail ==
  ASSUME NEW n \in Nat, NEW g \in Nat, g > 0, NEW l \in 1..g,
         (n * g + l) % g = 0
  PROVE  l = g
<1> DEFINE d == (n * g + l) \div g
<1>1. n * g + l = g * d /\ d \in Int
  <2>1. n * g + l \in Int
    OBVIOUS
  <2> QED BY <2>1, DivMod
<1> HIDE DEF d
<1>2. l = g * (d - n)
  BY <1>1
<1>3. d - n \in Int /\ d - n >= 1
  <2>1. ASSUME d - n <= 0 PROVE FALSE
    BY <1>1, <1>2, <2>1
  <2> QED BY <1>1, <2>1
<1>4. g * (d - n - 1) < g /\ g * (d - n - 1) > -g
  BY <1>1, <1>2, <1>3
<1>5. d - n - 1 = 0
  BY <1>1, <1>4, SmallMultiple
<1> QED BY <1>1, <1>2, <1>5

(* Adding a multiple of the modulus changes nothing. *)
LEMMA ModMultiple ==
  ASSUME NEW b \in Int, NEW n \in Nat, n > 0, NEW m \in Int
  PROVE  (b + n * m) % n = b % n
<1> DEFINE a == b + n * m
           p == a \div n
           q == b \div n
           r == a % n
           s == b % n
<1>0. a \in Int /\ a = b + n * m
  OBVIOUS
<1>1. /\ p \in Int /\ q \in Int /\ r \in 0..n-1 /\ s \in 0..n-1
      /\ a = n * p + r /\ b = n * q + s
  BY <1>0, DivMod
<1> HIDE DEF p, q, r, s, a
<1>2. n * (p - q - m) = s - r
  BY <1>0, <1>1
<1>3. p - q - m = 0
  BY <1>1, <1>2, SmallMultiple
<1>4. r = s
  BY <1>1, <1>2, <1>3
<1> QED BY <1>4 DEF r, s, a

(* Sequence numbers may be reduced before adding to them. *)
LEMMA ModAdd ==
  ASSUME NEW a \in Int, NEW b \in Int, NEW n \in Nat, n > 0
  PROVE  ((a % n) + b) % n = (a + b) % n
<1> DEFINE d == (a % n) + b
           m == a \div n
<1>1. d \in Int /\ m \in Int /\ a + b = d + n * m
  BY DivMod
<1> HIDE DEF d, m
<1>2. (d + n * m) % n = d % n
  BY <1>1, ModMultiple
<1>3. (a + b) % n = d % n
  BY <1>1, <1>2
<1> QED BY <1>3 DEF d

(* The payload behind the first k - 1 packets of g bytes. *)
LEMMA Rest ==
  ASSUME NEW n \in Nat, NEW k \in 1..n, NEW g \in Nat, NEW l \in Nat
  PROVE  /\ ((n - 1) * g + l) - (k - 1) * g = (n - k) * g + l
         /\ k < n => (n - k) * g >= g
<1>1. (n - 1) * g - (k - 1) * g = (n - k) * g
  OBVIOUS
<1>2. k < n => (n - k) * g >= g
  OBVIOUS
<1>3. (n - 1) * g \in Int /\ (k - 1) * g \in Int /\ (n-k)*g \in Int
  OBVIOUS
<1> QED BY <1>1, <1>2, <1>3

-----------------------------------------------------------------------------
(* What an item knows of the packets in its buffer. *)

(* Buffer b of an item of flow f holds num_merged + 1 packets of the       *)
(* batch ps, the one whose headers are at its front first; all but the     *)
(* last have gso_size bytes, and its length is theirs.                     *)
Grouped(ps, off, b, item, kind, f) ==
  LET n == item.num_merged + 1
      g == item.gso_size
  IN  /\ Len(b.segs) = n
      /\ b.head = b.segs[1]
      /\ \A k \in 1..n :
           /\ b.segs[k] \in DOMAIN ps
           /\ ps[b.segs[k]].kind = kind
           /\ ps[b.segs[k]].flow = f
           /\ ps[b.segs[k]].hdr = ps[b.head].hdr
           /\ k < n => ps[b.segs[k]].plen = g
      /\ ps[b.segs[n]].plen \in 1..g
      /\ n = 1 => ps[b.segs[n]].plen = g
      /\ b.len = off + HdrLen + (n - 1) * g + ps[b.segs[n]].plen

(* A TCP item also knows where its sequence numbers start, and that only   *)
(* the last packet may have PSH.                                           *)
Numbered(ps, b, item) ==
  LET n == item.num_merged + 1
  IN  /\ item.sent_seq = ps[b.segs[1]].seq
      /\ \A k \in 1..n :
           /\ ps[b.segs[k]].seq =
                (item.sent_seq + (k - 1) * item.gso_size) % SeqSpace
           /\ ps[b.segs[k]].psh => k = n /\ item.psh_set
      /\ b.psh => ps[b.segs[n]].psh

TcpGroups(ps, off, bs, t) ==
  \A f \in Flow : \A k \in DOMAIN t[f] :
    /\ Grouped(ps, off, bs[t[f][k].bufs_index], t[f][k], "tcp", f)
    /\ Numbered(ps, bs[t[f][k].bufs_index], t[f][k])

UdpGroups(ps, off, bs, t) ==
  \A f \in Flow : \A k \in DOMAIN t[f] :
    Grouped(ps, off, bs[t[f][k].bufs_index], t[f][k], "udp", f)

GroupInv ==
  InGro => /\ TcpGroups(pkts, offset, bufs, tcp_gro_table)
           /\ UdpGroups(pkts, offset, bufs, udp_gro_table)

-----------------------------------------------------------------------------
(* The packets that enter the UDP table. *)
UdpSet == {i \in DOMAIN pkts : IsUdp(pkts[i]) /\ Mergeable(pkts[i])}

(* In the buffers W, those of one flow are in the caller's order. *)
Sorted(ps, bs, W, S) ==
  \A x, y \in W : \A j \in DOMAIN bs[x].segs, k \in DOMAIN bs[y].segs :
    /\ bs[x].segs[j] \in S /\ bs[y].segs[k] \in S
    /\ ps[bs[x].segs[j]].flow = ps[bs[y].segs[k]].flow
    /\ bs[x].segs[j] < bs[y].segs[k]
    => x < y \/ (x = y /\ j < k)

(* Buffer x is not behind the one of the last item that t has for flow f. *)
UpTo(t, f, x) == Len(t[f]) > 0 /\ x <= t[f][Len(t[f])].bufs_index

(* None of them is behind the buffer of its flow's last item. *)
UpToLast(ps, bs, W, S, t) ==
  \A x \in W : \A j \in DOMAIN bs[x].segs :
    bs[x].segs[j] \in S => UpTo(t, ps[bs[x].segs[j]].flow, x)

OrderInv ==
  /\ pc \in {"gro", "scan"} \/ (pc = "write" /\ dev.vnet_hdr) =>
       Sorted(pkts, bufs, ToSet(to_write), UdpSet)
  /\ InGro => UpToLast(pkts, bufs, ToSet(to_write), UdpSet, udp_gro_table)

-----------------------------------------------------------------------------
(* Merging keeps what an item knows. *)

(* Buffer c is b with packet i of l bytes behind, or in front. *)
TakesBehind(c, b, i, l) ==
  /\ c.head = b.head /\ c.len = b.len + l
  /\ Len(c.segs) = Len(b.segs) + 1
  /\ c.segs[Len(b.segs) + 1] = i
  /\ \A k \in 1..Len(b.segs) : c.segs[k] = b.segs[k]

TakesBefore(c, b, i, l) ==
  /\ c.head = i /\ c.len = b.len + l
  /\ Len(c.segs) = Len(b.segs) + 1
  /\ c.segs[1] = i
  /\ \A k \in 1..Len(b.segs) : c.segs[k + 1] = b.segs[k]

(* Item new has one packet more than item, and g bytes per packet. *)
Counts(new, item, g) ==
  new.num_merged = item.num_merged + 1 /\ new.gso_size = g

(* A packet appended behind full ones joins the group. *)
LEMMA GroupAppend ==
  ASSUME NEW ps \in Seq(Packet), NEW off \in Nat, NEW b, NEW item,
         NEW kind, NEW f, Grouped(ps, off, b, item, kind, f),
         item.num_merged \in Nat, item.gso_size \in Nat,
         NEW i \in DOMAIN ps, ps[i].kind = kind, ps[i].flow = f,
         ps[i].hdr = ps[b.head].hdr, ps[i].plen \in 1..item.gso_size,
         (b.len - off - HdrLen) % item.gso_size = 0,
         NEW c, TakesBehind(c, b, i, ps[i].plen),
         NEW new, Counts(new, item, item.gso_size)
  PROVE  Grouped(ps, off, c, new, kind, f)
<1> DEFINE m == item.num_merged
           n == m + 1
           g == item.gso_size
           l == ps[b.segs[n]].plen
<1>1. /\ Len(b.segs) = n /\ b.head = b.segs[1] /\ l \in 1..g
      /\ \A k \in 1..n :
           /\ b.segs[k] \in DOMAIN ps
           /\ ps[b.segs[k]].kind = kind
           /\ ps[b.segs[k]].flow = f
           /\ ps[b.segs[k]].hdr = ps[b.head].hdr
           /\ k < n => ps[b.segs[k]].plen = g
      /\ b.len = off + HdrLen + (n - 1) * g + l
  BY DEF Grouped
<1>0. m \in Nat /\ g \in Nat /\ g > 0
  <2> HIDE DEF l
  <2> QED BY <1>1
<1>2. m \in Nat /\ n \in Nat /\ n >= 1 /\ g \in Nat /\ g > 0 /\ HdrLen \in Nat
      /\ n - 1 = m
  <2> HIDE DEF g
  <2> QED BY <1>0, SizeAssumption
<1>3. c.head = b.head /\ c.len = b.len + ps[i].plen /\ Len(c.segs) = n + 1
      /\ c.segs[n + 1] = i /\ \A k \in 1..n : c.segs[k] = b.segs[k]
  BY <1>1 DEF TakesBehind
<1>4. new.num_merged = n /\ new.gso_size = g
  BY DEF Counts
<1>5. (b.len - off - HdrLen) % g = 0
  OBVIOUS
<1>6. ps[i].plen \in 1..g
  OBVIOUS
<1> HIDE DEF m, n, g, l
<1>7. m * g \in Nat /\ m * g + g = n * g
  BY <1>2
<1>8. b.len - off - HdrLen = m * g + l
  BY <1>1, <1>2, <1>7
<1>9. l = g
  BY <1>1, <1>2, <1>5, <1>8, FullTail
<1>10. ps[b.segs[n]].plen = g
  BY <1>9 DEF l
<1>11. c.len = off + HdrLen + n * g + ps[i].plen
  BY <1>1, <1>2, <1>3, <1>6, <1>7, <1>9
<1>12. \A k \in 1..n + 1 :
         /\ c.segs[k] \in DOMAIN ps
         /\ ps[c.segs[k]].kind = kind
         /\ ps[c.segs[k]].flow = f
         /\ ps[c.segs[k]].hdr = ps[c.head].hdr
         /\ k < n + 1 => ps[c.segs[k]].plen = g
  <2> SUFFICES ASSUME NEW k \in 1..n + 1
               PROVE  /\ c.segs[k] \in DOMAIN ps
                      /\ ps[c.segs[k]].kind = kind
                      /\ ps[c.segs[k]].flow = f
                      /\ ps[c.segs[k]].hdr = ps[c.head].hdr
                      /\ k < n + 1 => ps[c.segs[k]].plen = g
    OBVIOUS
  <2>1. CASE k = n + 1
    BY <1>2, <1>3, <2>1
  <2>2. CASE k # n + 1
    <3>1. k \in 1..n /\ c.segs[k] = b.segs[k]
      BY <1>2, <1>3, <2>2
    <3>2. ps[b.segs[k]].plen = g
      <4>1. k < n \/ k = n
        BY <1>2, <3>1
      <4> QED BY <1>1, <1>10, <3>1, <4>1
    <3> QED BY <1>1, <1>3, <3>1, <3>2
  <2> QED BY <2>1, <2>2
<1>13. c.head = c.segs[1]
  BY <1>1, <1>2, <1>3
<1>14. (n + 1) - 1 = n /\ n + 1 # 1 /\ n * g \in Int
  BY <1>2
<1> QED BY <1>3, <1>4, <1>6, <1>11, <1>12, <1>13, <1>14 DEF Grouped

(* A packet in front of a group makes the segments as long as it is: only  *)
(* a single packet may become the last, smaller one.                       *)
LEMMA GroupPrepend ==
  ASSUME NEW ps \in Seq(Packet), NEW off \in Nat, NEW b, NEW item,
         NEW kind, NEW f, Grouped(ps, off, b, item, kind, f),
         item.num_merged \in Nat, item.gso_size \in Nat,
         NEW i \in DOMAIN ps, ps[i].kind = kind, ps[i].flow = f,
         ps[i].hdr = ps[b.head].hdr,
         NEW h \in Nat, ps[i].plen = h, h >= item.gso_size,
         h > item.gso_size => item.num_merged = 0,
         NEW c, TakesBefore(c, b, i, h),
         NEW new, Counts(new, item, h)
  PROVE  Grouped(ps, off, c, new, kind, f)
<1> DEFINE m == item.num_merged
           n == m + 1
           g == item.gso_size
           l == ps[b.segs[n]].plen
<1>1. /\ Len(b.segs) = n /\ b.head = b.segs[1] /\ l \in 1..g
      /\ n = 1 => l = g
      /\ \A k \in 1..n :
           /\ b.segs[k] \in DOMAIN ps
           /\ ps[b.segs[k]].kind = kind
           /\ ps[b.segs[k]].flow = f
           /\ ps[b.segs[k]].hdr = ps[b.head].hdr
           /\ k < n => ps[b.segs[k]].plen = g
      /\ b.len = off + HdrLen + (n - 1) * g + l
  BY DEF Grouped
<1>0. m \in Nat /\ g \in Nat /\ g > 0
  <2> HIDE DEF l
  <2> QED BY <1>1
<1>2. m \in Nat /\ n \in Nat /\ n >= 1 /\ g \in Nat /\ g > 0 /\ HdrLen \in Nat
      /\ n - 1 = m
  <2> HIDE DEF g
  <2> QED BY <1>0, SizeAssumption
<1>3. c.head = i /\ c.len = b.len + h /\ Len(c.segs) = n + 1
      /\ c.segs[1] = i /\ \A k \in 1..n : c.segs[k + 1] = b.segs[k]
  BY <1>1 DEF TakesBefore
<1>4. new.num_merged = n /\ new.gso_size = h
  BY DEF Counts
<1>5. h >= g /\ (h = g \/ m = 0)
  BY <1>2
<1>6. ps[c.head].hdr = ps[b.head].hdr
  BY <1>3
<1> HIDE DEF m, n, g, l
<1>7. l \in 1..h
  BY <1>1, <1>2, <1>5
<1>8. c.len = off + HdrLen + n * h + l
  <2>1. CASE h = g
    <3>1. m * g \in Nat /\ m * g + g = n * g
      BY <1>2
    <3> QED BY <1>1, <1>2, <1>3, <2>1, <3>1
  <2>2. CASE m = 0
    <3>1. m * g = 0 /\ n * h = h
      BY <1>2, <2>2
    <3> QED BY <1>1, <1>2, <1>3, <3>1
  <2> QED BY <1>5, <2>1, <2>2
<1>9. ASSUME NEW k \in 1..n + 1
      PROVE  /\ c.segs[k] \in DOMAIN ps
             /\ ps[c.segs[k]].kind = kind
             /\ ps[c.segs[k]].flow = f
             /\ ps[c.segs[k]].hdr = ps[c.head].hdr
             /\ k < n + 1 => ps[c.segs[k]].plen = h
  <2>1. CASE k = 1
    BY <1>2, <1>3, <2>1
  <2>2. CASE k # 1
    <3>1. k - 1 \in 1..n /\ (k - 1) + 1 = k
      BY <1>2, <2>2
    <3>2. c.segs[k] = b.segs[k - 1]
      BY <1>3, <3>1
    <3>3. k < n + 1 => ps[b.segs[k - 1]].plen = h
      <4>1. k < n + 1 => k - 1 < n /\ m # 0 /\ k - 1 >= 1
        BY <1>2, <3>1
      <4> QED BY <1>1, <1>5, <3>1, <4>1
    <3> QED BY <1>1, <1>6, <3>1, <3>2, <3>3
  <2> QED BY <2>1, <2>2
<1>10. c.segs[n + 1] = b.segs[n] /\ ps[c.segs[n + 1]].plen = l
  BY <1>2, <1>3 DEF l
<1>11. (n + 1) - 1 = n /\ n + 1 # 1 /\ c.head = c.segs[1]
  BY <1>2, <1>3
<1> QED BY <1>3, <1>4, <1>7, <1>8, <1>9, <1>10, <1>11 DEF Grouped

(* Appending continues the sequence numbers, and only a packet that ends   *)
(* the group brings PSH.                                                   *)
LEMMA NumberAppend ==
  ASSUME NEW ps, NEW b, NEW item, Numbered(ps, b, item),
         item.num_merged \in Nat, item.gso_size \in Nat, item.sent_seq \in Nat,
         Len(b.segs) = item.num_merged + 1,
         NEW i, ~item.psh_set,
         ps[i].seq = (item.sent_seq + item.gso_size
                        + item.num_merged * item.gso_size) % SeqSpace,
         NEW c, TakesBehind(c, b, i, ps[i].plen), c.psh <=> b.psh \/ ps[i].psh,
         NEW new, Counts(new, item, item.gso_size),
         new.sent_seq = item.sent_seq, new.psh_set <=> ps[i].psh
  PROVE  Numbered(ps, c, new)
<1> DEFINE m == item.num_merged
           n == m + 1
           g == item.gso_size
<1>0. m \in Nat /\ g \in Nat
  OBVIOUS
<1>1. /\ Len(b.segs) = n
      /\ item.sent_seq = ps[b.segs[1]].seq
      /\ \A k \in 1..n :
           /\ ps[b.segs[k]].seq = (item.sent_seq + (k - 1) * g) % SeqSpace
           /\ ~ps[b.segs[k]].psh
      /\ ~b.psh
  <2>1. \A k \in 1..n : ~ps[b.segs[k]].psh
    BY DEF Numbered
  <2>2. n \in 1..n
    BY <1>0
  <2> QED BY <2>1, <2>2 DEF Numbered
<1>2. Len(c.segs) = n + 1 /\ c.segs[n + 1] = i
      /\ \A k \in 1..n : c.segs[k] = b.segs[k]
  BY <1>1 DEF TakesBehind
<1>3. new.num_merged = n /\ new.gso_size = g
  BY DEF Counts
<1>4. ps[i].seq = (item.sent_seq + g + m * g) % SeqSpace
  OBVIOUS
<1>5. n \in Nat /\ n >= 1 /\ item.sent_seq \in Nat
  BY <1>0
<1> HIDE DEF n
<1>6. item.sent_seq + g + m * g = item.sent_seq + n * g
  <2> DEFINE s == item.sent_seq
  <2>1. s \in Nat /\ n = m + 1
    BY DEF n
  <2> HIDE DEF m, g, s
  <2>2. s + g + m * g = s + n * g
    BY <1>0, <1>5, <2>1
  <2> QED BY <2>2 DEF s
<1> HIDE DEF m, g
<1>7. ASSUME NEW k \in 1..n + 1
      PROVE  /\ ps[c.segs[k]].seq = (item.sent_seq + (k - 1) * g) % SeqSpace
             /\ ps[c.segs[k]].psh => k = n + 1 /\ ps[i].psh
  <2>1. CASE k = n + 1
    <3>1. c.segs[k] = i /\ k - 1 = n
      BY <1>2, <1>5, <2>1
    <3> QED BY <1>4, <1>6, <2>1, <3>1
  <2>2. CASE k # n + 1
    <3>1. k \in 1..n /\ c.segs[k] = b.segs[k]
      BY <1>2, <1>5, <2>2
    <3> QED BY <1>1, <3>1
  <2> QED BY <2>1, <2>2
<1>8. c.segs[1] = b.segs[1]
  BY <1>2, <1>5
<1>9. c.psh => ps[c.segs[n + 1]].psh
  BY <1>1, <1>2
<1> QED BY <1>1, <1>3, <1>7, <1>8, <1>9 DEF Numbered

(* Prepending starts the sequence numbers earlier, modulo SeqSpace, and    *)
(* never brings PSH.                                                       *)
LEMMA NumberPrepend ==
  ASSUME NEW ps, NEW b, NEW item, Numbered(ps, b, item),
         item.num_merged \in Nat, item.gso_size \in Nat,
         Len(b.segs) = item.num_merged + 1,
         NEW i, ps[i].seq \in 0..SeqSpace-1, ~ps[i].psh,
         NEW h \in Nat, ps[i].plen = h,
         (ps[i].seq + h) % SeqSpace = item.sent_seq,
         h = item.gso_size \/ item.num_merged = 0,
         NEW c, TakesBefore(c, b, i, h), ~c.psh,
         NEW new, Counts(new, item, h),
         new.sent_seq = ps[i].seq, new.psh_set = item.psh_set
  PROVE  Numbered(ps, c, new)
<1> DEFINE m == item.num_merged
           n == m + 1
           g == item.gso_size
           q == ps[i].seq
           s == item.sent_seq
<1>0. m \in Nat /\ g \in Nat /\ q \in 0..SeqSpace-1 /\ SeqSpace \in Nat
      /\ SeqSpace > 0
  BY SizeAssumption
<1>1. /\ Len(b.segs) = n
      /\ ps[b.segs[1]].seq = s
      /\ \A k \in 1..n :
           /\ ps[b.segs[k]].seq = (s + (k - 1) * g) % SeqSpace
           /\ ps[b.segs[k]].psh => k = n /\ item.psh_set
  BY DEF Numbered
<1>2. Len(c.segs) = n + 1 /\ c.segs[1] = i
      /\ \A k \in 1..n : c.segs[k + 1] = b.segs[k]
  BY <1>1 DEF TakesBefore
<1>3. new.num_merged = n /\ new.gso_size = h
  BY DEF Counts
<1>4. (q + h) % SeqSpace = s /\ (h = g \/ m = 0)
  OBVIOUS
<1>5. n \in Nat /\ n >= 1 /\ (m = 0 => n = 1)
  BY <1>0
<1>6. new.sent_seq = q /\ ps[i].seq = q
  OBVIOUS
<1> HIDE DEF m, n, g, q, s
<1>7. ASSUME NEW k \in 1..n
      PROVE  ps[b.segs[k]].seq = (q + k * h) % SeqSpace
  <2>1. CASE m = 0
    <3>1. k = 1 /\ k * h = h
      BY <1>5, <2>1
    <3> QED BY <1>1, <1>4, <3>1
  <2>2. CASE h = g
    <3>1. (k - 1) * h \in Int /\ h + (k - 1) * h = k * h
      OBVIOUS
    <3>2. (((q + h) % SeqSpace) + (k - 1) * h) % SeqSpace
            = ((q + h) + (k - 1) * h) % SeqSpace
      <4> DEFINE r == (k - 1) * h
                 a == q + h
      <4>1. r \in Int /\ a \in Int
        BY <1>0, <3>1
      <4> HIDE DEF r, a
      <4>2. ((a % SeqSpace) + r) % SeqSpace = (a + r) % SeqSpace
        BY <1>0, <4>1, ModAdd
      <4> QED BY <4>2 DEF r, a
    <3>3. (q + h) + (k - 1) * h = q + k * h
      <4> DEFINE r == (k - 1) * h
      <4>1. r \in Int /\ h + r = k * h
        BY <3>1
      <4> HIDE DEF r
      <4>2. (q + h) + r = q + k * h
        BY <1>0, <4>1
      <4> QED BY <4>2 DEF r
    <3>4. ps[b.segs[k]].seq = (((q + h) % SeqSpace) + (k - 1) * h) % SeqSpace
      BY <1>1, <1>4, <2>2
    <3> QED BY <3>2, <3>3, <3>4
  <2> QED BY <1>4, <2>1, <2>2
<1>8. ASSUME NEW k \in 1..n + 1
      PROVE  /\ ps[c.segs[k]].seq = (q + (k - 1) * h) % SeqSpace
             /\ ps[c.segs[k]].psh => k = n + 1 /\ item.psh_set
  <2>1. CASE k = 1
    <3>0. q % SeqSpace = q
      <4>1. q \in Nat /\ q <= SeqSpace - 1 /\ SeqSpace - 1 \in Nat
            /\ (SeqSpace - 1) + 1 = SeqSpace
        BY <1>0
      <4>2. q % ((SeqSpace - 1) + 1) = q
        BY <4>1, SmallMod
      <4> QED BY <4>1, <4>2
    <3>1. c.segs[k] = i /\ (k - 1) * h = 0 /\ q + 0 = q
      BY <1>0, <1>2, <2>1
    <3>2. ps[c.segs[k]].seq = (q + (k - 1) * h) % SeqSpace
      BY <1>6, <3>0, <3>1
    <3> QED BY <3>1, <3>2
  <2>2. CASE k # 1
    <3>1. k - 1 \in 1..n /\ (k - 1) + 1 = k /\ (k - 1 = n => k = n + 1)
      BY <1>5, <2>2
    <3>2. c.segs[k] = b.segs[k - 1]
      BY <1>2, <3>1
    <3> QED BY <1>1, <1>7, <3>1, <3>2
  <2> QED BY <2>1, <2>2
<1>9. ~c.psh /\ new.psh_set = item.psh_set
  OBVIOUS
<1>10. new.sent_seq = ps[c.segs[1]].seq
  BY <1>2, <1>6
<1> QED BY <1>3, <1>6, <1>8, <1>9, <1>10 DEF Numbered

(* A packet alone in the caller's buffer is a group. *)
LEMMA GroupSingle ==
  ASSUME NEW ps \in Seq(Packet), NEW off \in Nat, NEW i \in DOMAIN ps,
         ps[i].plen >= 1, ps[i].kind # "short",
         NEW item, item.num_merged = 0, item.gso_size = ps[i].plen
  PROVE  /\ Grouped(ps, off, CallerBuf(ps, off, i), item, ps[i].kind, ps[i].flow)
         /\ item.sent_seq = ps[i].seq /\ item.psh_set = ps[i].psh
              => Numbered(ps, CallerBuf(ps, off, i), item)
<1> DEFINE c == CallerBuf(ps, off, i)
           l == ps[i].plen
<1>1. ps[i] \in Packet
  OBVIOUS
<1>2. l \in Nat /\ ps[i].seq \in 0..SeqSpace-1 /\ HdrLen \in Nat
      /\ SeqSpace \in Nat /\ l >= 1
  BY <1>1, PacketAssumption, SizeAssumption
<1>3. c.head = i /\ c.segs = <<i>> /\ c.psh = ps[i].psh
      /\ c.len = off + HdrLen + l
  BY DEF CallerBuf, BufLen
<1>4. Len(c.segs) = 1 /\ c.segs[1] = i /\ 1..1 = {1}
  BY <1>3
<1>5. item.num_merged = 0 /\ item.gso_size = l
  OBVIOUS
<1> HIDE DEF c, l
<1>6. item.num_merged + 1 = 1 /\ (1 - 1) * l = 0 /\ l \in 1..l
      /\ off + HdrLen + (1 - 1) * l + l = off + HdrLen + l
  BY <1>2, <1>5
<1>7. Grouped(ps, off, c, item, ps[i].kind, ps[i].flow)
  BY <1>2, <1>3, <1>4, <1>5, <1>6 DEF Grouped, l
<1>8. ASSUME item.sent_seq = ps[i].seq, item.psh_set = ps[i].psh
      PROVE  Numbered(ps, c, item)
  <2>1. ps[i].seq % SeqSpace = ps[i].seq
    <3>1. ps[i].seq \in Nat /\ ps[i].seq <= SeqSpace - 1 /\ SeqSpace - 1 \in Nat
          /\ (SeqSpace - 1) + 1 = SeqSpace
      BY <1>2
    <3>2. ps[i].seq % ((SeqSpace - 1) + 1) = ps[i].seq
      BY <3>1, SmallMod
    <3> QED BY <3>1, <3>2
  <2>2. ps[i].seq = (item.sent_seq + (1 - 1) * item.gso_size) % SeqSpace
    <3>1. item.sent_seq + (1 - 1) * item.gso_size = ps[i].seq
      BY <1>2, <1>5, <1>6, <1>8
    <3> QED BY <2>1, <3>1
  <2> QED BY <1>3, <1>4, <1>6, <1>8, <2>2 DEF Numbered
<1> QED BY <1>7, <1>8 DEF c

(* What the groups are about is not touched by a header. *)
SameGroup(c, b) ==
  c.head = b.head /\ c.segs = b.segs /\ c.psh = b.psh /\ c.len = b.len

(* A table whose items are groups, or were. *)
LEMMA TcpGroupsStep ==
  ASSUME NEW ps, NEW off, NEW bs, NEW cs, NEW t, NEW u,
         TcpGroups(ps, off, bs, t),
         \A f \in Flow : \A k \in DOMAIN u[f] :
           \/ /\ Grouped(ps, off, cs[u[f][k].bufs_index], u[f][k], "tcp", f)
              /\ Numbered(ps, cs[u[f][k].bufs_index], u[f][k])
           \/ \E j \in DOMAIN t[f] :
                /\ u[f][k] = t[f][j]
                /\ SameGroup(cs[t[f][j].bufs_index], bs[t[f][j].bufs_index])
  PROVE  TcpGroups(ps, off, cs, u)
<1> SUFFICES ASSUME NEW f \in Flow, NEW k \in DOMAIN u[f],
                    NEW j \in DOMAIN t[f], u[f][k] = t[f][j],
                    SameGroup(cs[t[f][j].bufs_index], bs[t[f][j].bufs_index])
             PROVE  /\ Grouped(ps, off, cs[t[f][j].bufs_index], t[f][j], "tcp", f)
                    /\ Numbered(ps, cs[t[f][j].bufs_index], t[f][j])
  BY DEF TcpGroups
<1> DEFINE c == cs[t[f][j].bufs_index]
           b == bs[t[f][j].bufs_index]
           item == t[f][j]
<1>1. Grouped(ps, off, b, item, "tcp", f) /\ Numbered(ps, b, item)
  BY DEF TcpGroups
<1>2. c.head = b.head /\ c.segs = b.segs /\ c.psh = b.psh /\ c.len = b.len
  BY DEF SameGroup
<1> HIDE DEF c, b, item
<1>3. Grouped(ps, off, c, item, "tcp", f)
  BY <1>1, <1>2 DEF Grouped
<1>4. Numbered(ps, c, item)
  BY <1>1, <1>2 DEF Numbered
<1> QED BY <1>3, <1>4 DEF c, item

(* The same for datagrams. *)
LEMMA UdpGroupsStep ==
  ASSUME NEW ps, NEW off, NEW bs, NEW cs, NEW t, NEW u,
         UdpGroups(ps, off, bs, t),
         \A f \in Flow : \A k \in DOMAIN u[f] :
           \/ Grouped(ps, off, cs[u[f][k].bufs_index], u[f][k], "udp", f)
           \/ \E j \in DOMAIN t[f] :
                /\ u[f][k] = t[f][j]
                /\ SameGroup(cs[t[f][j].bufs_index], bs[t[f][j].bufs_index])
  PROVE  UdpGroups(ps, off, cs, u)
<1> SUFFICES ASSUME NEW f \in Flow, NEW k \in DOMAIN u[f],
                    NEW j \in DOMAIN t[f], u[f][k] = t[f][j],
                    SameGroup(cs[t[f][j].bufs_index], bs[t[f][j].bufs_index])
             PROVE  Grouped(ps, off, cs[t[f][j].bufs_index], t[f][j], "udp", f)
  BY DEF UdpGroups
<1> DEFINE c == cs[t[f][j].bufs_index]
           b == bs[t[f][j].bufs_index]
           item == t[f][j]
<1>1. Grouped(ps, off, b, item, "udp", f)
  BY DEF UdpGroups
<1>2. c.head = b.head /\ c.segs = b.segs /\ c.psh = b.psh /\ c.len = b.len
  BY DEF SameGroup
<1> HIDE DEF c, b, item
<1>3. Grouped(ps, off, c, item, "udp", f)
  BY <1>1, <1>2 DEF Grouped
<1> QED BY <1>3 DEF c, item

-----------------------------------------------------------------------------
(* What the steps inside handle_gro do to the groups. *)

(* No item points at the buffer the loop is at. *)
LEMMA ItemPlaces ==
  ASSUME IInv
  PROVE  \A f \in Flow :
           /\ \A k \in DOMAIN tcp_gro_table[f] :
                tcp_gro_table[f][k].bufs_index \in DOMAIN bufs \ {pkt_i}
           /\ \A k \in DOMAIN udp_gro_table[f] :
                udp_gro_table[f][k].bufs_index \in DOMAIN bufs \ {pkt_i}
<1>1. Passed \subseteq DOMAIN bufs \ {pkt_i}
  <2> SUFFICES ASSUME NEW x \in Passed PROVE x \in DOMAIN bufs /\ x # pkt_i
    OBVIOUS
  <2>1. x \in DOMAIN pkts /\ x < pkt_i /\ pkt_i \in Nat /\ x \in Nat
        /\ DOMAIN pkts = DOMAIN bufs
    BY DEF Passed, IInv, TypeOK
  <2> QED BY <2>1
<1>2. ASSUME NEW f \in Flow, NEW k \in DOMAIN tcp_gro_table[f]
      PROVE  tcp_gro_table[f][k].bufs_index \in Passed
  BY DEF IInv, ItemInv, PointsInto
<1>3. ASSUME NEW f \in Flow, NEW k \in DOMAIN udp_gro_table[f]
      PROVE  udp_gro_table[f][k].bufs_index \in Passed
  BY DEF IInv, ItemInv, PointsInto
<1> QED BY <1>1, <1>2, <1>3

(* Headers and the buffer the loop is at do not matter. *)
LEMMA GroupsStay ==
  ASSUME IInv, InGro, GroupInv, UNCHANGED <<pkts, offset, tables>>,
         \A j \in DOMAIN bufs \ {pkt_i} : SameGroup(bufs'[j], bufs[j])
  PROVE  GroupInv'
<1>1. TcpGroups(pkts, offset, bufs', tcp_gro_table)
  <2>1. TcpGroups(pkts, offset, bufs, tcp_gro_table)
    BY DEF GroupInv
  <2>2. ASSUME NEW f \in Flow, NEW k \in DOMAIN tcp_gro_table[f]
        PROVE  SameGroup(bufs'[tcp_gro_table[f][k].bufs_index],
                         bufs[tcp_gro_table[f][k].bufs_index])
    BY ItemPlaces
  <2> QED BY <2>1, <2>2, TcpGroupsStep
<1>2. UdpGroups(pkts, offset, bufs', udp_gro_table)
  <2>1. UdpGroups(pkts, offset, bufs, udp_gro_table)
    BY DEF GroupInv
  <2>2. ASSUME NEW f \in Flow, NEW k \in DOMAIN udp_gro_table[f]
        PROVE  SameGroup(bufs'[udp_gro_table[f][k].bufs_index],
                         bufs[udp_gro_table[f][k].bufs_index])
    BY ItemPlaces
  <2> QED BY <2>1, <2>2, UdpGroupsStep
<1> QED BY <1>1, <1>2 DEF GroupInv, tables

(* A removed item leaves the others as they were. *)
LEMMA GroupsRemove ==
  ASSUME IInv, GroupInv, ScanItemInvalid
  PROVE  GroupInv'
<1> DEFINE x == TcpItem.bufs_index
           s == tcp_gro_table[Pkt.flow]
<1>1. /\ pkt_i \in DOMAIN pkts /\ item_i \in DOMAIN s /\ s \in Seq(TcpGROItem)
      /\ x \in DOMAIN bufs /\ bufs[x] \in Buffer /\ InGro
  BY ScanFacts DEF IInv, ScanItemInvalid, Scanning, InGro, TcpItems
<1>2. Pkt.flow \in Flow
  BY <1>1, PktFacts DEF IInv
<1>3. /\ bufs' = [bufs EXCEPT ![x].vnet = "none"]
      /\ tcp_gro_table' = [tcp_gro_table EXCEPT ![Pkt.flow] = RemoveAt(s, item_i)]
      /\ UNCHANGED <<pkts, offset, udp_gro_table>>
  BY DEF ScanItemInvalid, ZeroHeader, call
<1>4. \A j \in DOMAIN bufs : SameGroup(bufs'[j], bufs[j])
  <2> SUFFICES ASSUME NEW j \in DOMAIN bufs PROVE SameGroup(bufs'[j], bufs[j])
    OBVIOUS
  <2>1. bufs'[x] = [bufs[x] EXCEPT !.vnet = "none"]
        /\ (j # x => bufs'[j] = bufs[j])
    BY <1>1, <1>3 DEF IInv, TypeOK
  <2>2. SameGroup([bufs[x] EXCEPT !.vnet = "none"], bufs[x])
    BY <1>1 DEF SameGroup, Buffer
  <2>3. SameGroup(bufs[j], bufs[j])
    BY DEF SameGroup
  <2> QED BY <2>1, <2>2, <2>3
<1>5. TcpGroups(pkts, offset, bufs', tcp_gro_table')
  <2>1. TcpGroups(pkts, offset, bufs, tcp_gro_table)
    BY <1>1 DEF GroupInv
  <2>2. ASSUME NEW f \in Flow, NEW k \in DOMAIN tcp_gro_table'[f]
        PROVE  \E j \in DOMAIN tcp_gro_table[f] :
                 tcp_gro_table'[f][k] = tcp_gro_table[f][j]
    <3>1. CASE f # Pkt.flow
      BY <1>2, <1>3, <3>1 DEF IInv, TypeOK
    <3>2. CASE f = Pkt.flow
      <4> DEFINE r == RemoveAt(s, item_i)
      <4>1. tcp_gro_table'[f] = r
        BY <1>2, <1>3, <3>2 DEF IInv, TypeOK
      <4>2. r \in Seq(TcpGROItem) /\ Len(r) = Len(s) - 1
            /\ \A i \in 1..Len(s) - 1 : r[i] = IF i < item_i THEN s[i] ELSE s[i + 1]
        BY <1>1, RemoveSeq
      <4> HIDE DEF r, s
      <4>3. k \in 1..Len(s) - 1 /\ Len(s) \in Nat /\ DOMAIN s = 1..Len(s)
        BY <1>1, <4>1, <4>2
      <4>4. \E j \in DOMAIN s : r[k] = s[j]
        <5>1. k \in DOMAIN s /\ k + 1 \in DOMAIN s
          BY <4>3
        <5> QED BY <4>2, <4>3, <5>1
      <4>5. tcp_gro_table[f] = s
        BY <3>2 DEF s
      <4> QED BY <4>1, <4>4, <4>5
    <3> QED BY <3>1, <3>2
  <2>3. ASSUME NEW f \in Flow, NEW j \in DOMAIN tcp_gro_table[f]
        PROVE  SameGroup(bufs'[tcp_gro_table[f][j].bufs_index],
                         bufs[tcp_gro_table[f][j].bufs_index])
    BY <1>4, ItemPlaces
  <2>4. \A f \in Flow : \A k \in DOMAIN tcp_gro_table'[f] :
          \E j \in DOMAIN tcp_gro_table[f] :
            /\ tcp_gro_table'[f][k] = tcp_gro_table[f][j]
            /\ SameGroup(bufs'[tcp_gro_table[f][j].bufs_index],
                         bufs[tcp_gro_table[f][j].bufs_index])
    BY <2>2, <2>3
  <2> QED BY <2>1, <2>4, TcpGroupsStep
<1>6. UdpGroups(pkts, offset, bufs', udp_gro_table)
  <2>1. UdpGroups(pkts, offset, bufs, udp_gro_table)
    BY <1>1 DEF GroupInv
  <2>2. ASSUME NEW f \in Flow, NEW k \in DOMAIN udp_gro_table[f]
        PROVE  SameGroup(bufs'[udp_gro_table[f][k].bufs_index],
                         bufs[udp_gro_table[f][k].bufs_index])
    BY <1>4, ItemPlaces
  <2> QED BY <2>1, <2>2, UdpGroupsStep
<1> QED BY <1>3, <1>5, <1>6 DEF GroupInv

(* A new item is a group of one packet. *)
LEMMA GroupsInsert ==
  ASSUME IInv, GroupInv, ScanInsert \/ UdpInsert
  PROVE  GroupInv'
<1> USE DEF IInv
<1>1. pkt_i \in DOMAIN pkts /\ InGro /\ Mergeable(Pkt)
      /\ (ScanInsert => IsTcp(Pkt)) /\ (UdpInsert => IsUdp(Pkt))
  BY DEF ScanInsert, UdpInsert, UdpEligible, InLoop, LoopInv, TypeOK, InGro
<1>2. /\ Pkt \in Packet /\ Pkt.flow \in Flow /\ pkts \in Seq(Packet)
      /\ offset \in Nat /\ Pkt.plen >= 1
  BY <1>1, PktFacts DEF TypeOK, Mergeable
<1>3. bufs[pkt_i] = CallerBuf(pkts, offset, pkt_i) /\ pkt_i \in DOMAIN bufs
  BY <1>1, FreshBuf
<1>4. UNCHANGED <<pkts, offset, bufs>>
  BY DEF ScanInsert, UdpInsert, TableInsert, call
<1>5. TcpGroups(pkts, offset, bufs, tcp_gro_table)
      /\ UdpGroups(pkts, offset, bufs, udp_gro_table)
  BY <1>1 DEF GroupInv
<1>6. \A b : SameGroup(b, b)
  BY DEF SameGroup
<1>7. CASE ScanInsert
  <2> DEFINE new == NewTcpItem(Pkt, pkt_i)
             n == Len(tcp_gro_table[Pkt.flow]) + 1
  <2>1. /\ tcp_gro_table' = [tcp_gro_table EXCEPT ![Pkt.flow] =
                               Append(tcp_gro_table[Pkt.flow], new)]
        /\ udp_gro_table' = udp_gro_table
    BY <1>7 DEF ScanInsert
  <2>2. /\ new.bufs_index = pkt_i /\ new.num_merged = 0
        /\ new.gso_size = Pkt.plen /\ new.sent_seq = Pkt.seq
        /\ new.psh_set = Pkt.psh
    BY DEF NewTcpItem
  <2> HIDE DEF new
  <2>3. Pkt.kind = "tcp" /\ Pkt.kind # "short" /\ Pkt = pkts[pkt_i]
    BY <1>1, <1>7 DEF IsTcp, Pkt
  <2>4. /\ Grouped(pkts, offset, bufs[pkt_i], new, "tcp", Pkt.flow)
        /\ Numbered(pkts, bufs[pkt_i], new)
    BY <1>1, <1>2, <1>3, <2>2, <2>3, GroupSingle
  <2>5. ASSUME NEW f \in Flow, NEW k \in DOMAIN tcp_gro_table'[f]
        PROVE  \/ k \in DOMAIN tcp_gro_table[f]
                  /\ tcp_gro_table'[f][k] = tcp_gro_table[f][k]
               \/ f = Pkt.flow /\ tcp_gro_table'[f][k] = new
    BY <1>2, <2>1 DEF TypeOK
  <2>6. TcpGroups(pkts, offset, bufs, tcp_gro_table')
    BY <1>5, <1>6, <2>2, <2>4, <2>5, TcpGroupsStep
  <2> QED BY <1>4, <1>5, <2>1, <2>6 DEF GroupInv
<1>8. CASE UdpInsert
  <2> DEFINE new == NewUdpItem(Pkt, pkt_i)
  <2>1. /\ udp_gro_table' = [udp_gro_table EXCEPT ![Pkt.flow] =
                               Append(udp_gro_table[Pkt.flow], new)]
        /\ tcp_gro_table' = tcp_gro_table
    BY <1>8 DEF UdpInsert
  <2>2. /\ new.bufs_index = pkt_i /\ new.num_merged = 0
        /\ new.gso_size = Pkt.plen
    BY DEF NewUdpItem
  <2> HIDE DEF new
  <2>3. Pkt.kind = "udp" /\ Pkt.kind # "short" /\ Pkt = pkts[pkt_i]
    BY <1>1, <1>8 DEF IsUdp, Pkt
  <2>4. Grouped(pkts, offset, bufs[pkt_i], new, "udp", Pkt.flow)
    BY <1>1, <1>2, <1>3, <2>2, <2>3, GroupSingle
  <2>5. ASSUME NEW f \in Flow, NEW k \in DOMAIN udp_gro_table'[f]
        PROVE  \/ k \in DOMAIN udp_gro_table[f]
                  /\ udp_gro_table'[f][k] = udp_gro_table[f][k]
               \/ f = Pkt.flow /\ udp_gro_table'[f][k] = new
    <3>1. udp_gro_table \in [Flow -> Seq(UdpGROItem)]
      BY DEF TypeOK
    <3>2. CASE f # Pkt.flow
      BY <1>2, <2>1, <3>1, <3>2
    <3>3. CASE f = Pkt.flow
      <4>1. udp_gro_table'[f] = Append(udp_gro_table[f], new)
            /\ udp_gro_table[f] \in Seq(UdpGROItem)
        BY <1>2, <2>1, <3>1, <3>3
      <4>2. \/ k \in DOMAIN udp_gro_table[f]
               /\ udp_gro_table'[f][k] = udp_gro_table[f][k]
            \/ udp_gro_table'[f][k] = new
        BY <4>1
      <4> QED BY <3>3, <4>2
    <3> QED BY <3>2, <3>3
  <2>6. UdpGroups(pkts, offset, bufs, udp_gro_table')
    BY <1>5, <1>6, <2>2, <2>4, <2>5, UdpGroupsStep
  <2> QED BY <1>4, <1>5, <2>1, <2>6 DEF GroupInv
<1> QED BY <1>7, <1>8

(* A TCP merge whose result is a group. *)
LEMMA GroupsTcpMerge ==
  ASSUME IInv, GroupInv, Scanning, NEW new, TcpReplaced(new),
         UNCHANGED <<pkts, offset>>,
         new.bufs_index = TcpItem.bufs_index,
         Grouped(pkts, offset, bufs'[TcpItem.bufs_index], new, "tcp", Pkt.flow),
         Numbered(pkts, bufs'[TcpItem.bufs_index], new),
         \A j \in DOMAIN bufs \ {TcpItem.bufs_index, pkt_i} : bufs'[j] = bufs[j]
  PROVE  GroupInv'
<1> USE DEF IInv
<1> DEFINE x == TcpItem.bufs_index
<1>1. /\ pkt_i \in DOMAIN pkts /\ InGro
      /\ item_i \in DOMAIN tcp_gro_table[Pkt.flow]
      /\ TcpItem = tcp_gro_table[Pkt.flow][item_i]
  BY ScanFacts DEF Scanning, InGro, TcpItems, TcpItem
<1>2. Pkt.flow \in Flow
  BY <1>1, PktFacts
<1>3. /\ tcp_gro_table' = [tcp_gro_table EXCEPT ![Pkt.flow] =
                            [tcp_gro_table[Pkt.flow] EXCEPT ![item_i] = new]]
      /\ udp_gro_table' = udp_gro_table
  BY DEF TcpReplaced
<1>4. \A b : SameGroup(b, b)
  BY DEF SameGroup
<1>5. TcpGroups(pkts, offset, bufs, tcp_gro_table)
      /\ UdpGroups(pkts, offset, bufs, udp_gro_table)
  BY <1>1 DEF GroupInv
<1>6. ASSUME NEW f \in Flow, NEW k \in DOMAIN tcp_gro_table[f],
             ~(f = Pkt.flow /\ k = item_i)
      PROVE  bufs'[tcp_gro_table[f][k].bufs_index]
               = bufs[tcp_gro_table[f][k].bufs_index]
  <2>1. tcp_gro_table[f][k].bufs_index # x
    BY <1>1, <1>2, <1>6 DEF TableInv, Distinct
  <2>2. tcp_gro_table[f][k].bufs_index \in DOMAIN bufs \ {pkt_i}
    BY ItemPlaces
  <2> QED BY <2>1, <2>2
<1>7. ASSUME NEW f \in Flow, NEW k \in DOMAIN udp_gro_table[f]
      PROVE  bufs'[udp_gro_table[f][k].bufs_index]
               = bufs[udp_gro_table[f][k].bufs_index]
  <2>1. udp_gro_table[f][k].bufs_index # x
    BY <1>1, <1>2 DEF TableInv, Disjoint
  <2>2. udp_gro_table[f][k].bufs_index \in DOMAIN bufs \ {pkt_i}
    BY ItemPlaces
  <2> QED BY <2>1, <2>2
<1>8. TcpGroups(pkts, offset, bufs', tcp_gro_table')
  <2>1. ASSUME NEW f \in Flow, NEW k \in DOMAIN tcp_gro_table'[f]
        PROVE  \/ f = Pkt.flow /\ tcp_gro_table'[f][k] = new
               \/ /\ k \in DOMAIN tcp_gro_table[f]
                  /\ tcp_gro_table'[f][k] = tcp_gro_table[f][k]
                  /\ ~(f = Pkt.flow /\ k = item_i)
    BY <1>1, <1>2, <1>3 DEF TypeOK
  <2> QED BY <1>4, <1>5, <1>6, <2>1, TcpGroupsStep
<1>9. UdpGroups(pkts, offset, bufs', udp_gro_table)
  BY <1>4, <1>5, <1>7, UdpGroupsStep
<1> QED BY <1>3, <1>8, <1>9 DEF GroupInv

(* What ScanFacts leaves out: the group of the item a scan is at. *)
LEMMA ScanGroup ==
  ASSUME IInv, GroupInv, Scanning
  PROVE  /\ Grouped(pkts, offset, bufs[TcpItem.bufs_index], TcpItem, "tcp", Pkt.flow)
         /\ Numbered(pkts, bufs[TcpItem.bufs_index], TcpItem)
         /\ pkts \in Seq(Packet) /\ offset \in Nat /\ pkt_i \in DOMAIN pkts
         /\ Pkt = pkts[pkt_i] /\ Pkt.kind = "tcp"
         /\ Pkt.plen \in Nat /\ Pkt.plen >= 1 /\ Pkt.seq \in 0..SeqSpace-1
         /\ TcpItem.num_merged \in Nat /\ TcpItem.gso_size \in Nat
         /\ TcpItem.sent_seq \in Nat
<1>1. /\ pkt_i \in DOMAIN pkts /\ IsTcp(Pkt) /\ Mergeable(Pkt)
      /\ item_i \in DOMAIN TcpItems /\ TcpItem \in TcpGROItem
  BY ScanFacts DEF IInv
<1>2. Pkt \in Packet /\ Pkt.flow \in Flow /\ Pkt = pkts[pkt_i]
  BY <1>1, PktFacts DEF IInv, Pkt
<1>3. Pkt.plen \in Nat /\ Pkt.seq \in 0..SeqSpace-1
  BY <1>2, PacketAssumption
<1>4. TcpGroups(pkts, offset, bufs, tcp_gro_table)
  BY DEF GroupInv, Scanning, InGro
<1>5. /\ Grouped(pkts, offset, bufs[TcpItem.bufs_index], TcpItem, "tcp", Pkt.flow)
      /\ Numbered(pkts, bufs[TcpItem.bufs_index], TcpItem)
  BY <1>1, <1>2, <1>4 DEF TcpGroups, TcpItem, TcpItems
<1>6. pkts \in Seq(Packet) /\ offset \in Nat
  BY DEF IInv, TypeOK
<1>7. Pkt.kind = "tcp" /\ Pkt.plen >= 1
  BY <1>1 DEF IsTcp, Mergeable
<1>8. TcpItem.num_merged \in Nat /\ TcpItem.gso_size \in Nat
      /\ TcpItem.sent_seq \in Nat
  BY <1>1 DEF TcpGROItem
<1> QED BY <1>1, <1>2, <1>3, <1>5, <1>6, <1>7, <1>8

(* Appending a segment. *)
LEMMA GroupsAppend ==
  ASSUME IInv, GroupInv, ScanAppend
  PROVE  GroupInv'
<1> DEFINE x == TcpItem.bufs_index
           b == bufs[x]
           c == AppendedBuf(b)
           new == AppendedItem(TcpItem)
<1>1. Scanning /\ CanAppend(Pkt, TcpItem) /\ TcpReplaced(new)
      /\ UNCHANGED <<pkts, offset>>
  BY DEF ScanAppend, TcpMerge, TcpReplaced, Coalesced, call
<1>2. /\ x \in DOMAIN bufs /\ b \in Buffer /\ TcpItem \in TcpGROItem
  BY <1>1, ScanFacts DEF IInv
<1>3. /\ Grouped(pkts, offset, b, TcpItem, "tcp", Pkt.flow)
      /\ Numbered(pkts, b, TcpItem)
      /\ pkts \in Seq(Packet) /\ offset \in Nat /\ pkt_i \in DOMAIN pkts
      /\ Pkt = pkts[pkt_i] /\ Pkt.kind = "tcp"
      /\ Pkt.plen \in Nat /\ Pkt.plen >= 1
      /\ TcpItem.num_merged \in Nat /\ TcpItem.gso_size \in Nat
      /\ TcpItem.sent_seq \in Nat
  BY <1>1, ScanGroup
<1>4. /\ Pkt.hdr = pkts[b.head].hdr /\ ~TcpItem.psh_set
      /\ Pkt.plen <= TcpItem.gso_size
      /\ (b.len - offset - HdrLen) % TcpItem.gso_size = 0
      /\ Pkt.seq = (TcpItem.sent_seq + TcpItem.gso_size
                      + TcpItem.num_merged * TcpItem.gso_size) % SeqSpace
  BY <1>1 DEF CanAppend, SameHeaders, FitsBehind, Follows, Payload
<1>5. /\ c.segs = Append(b.segs, pkt_i) /\ c.len = b.len + Pkt.plen
      /\ c.head = b.head /\ c.psh = (b.psh \/ Pkt.psh)
  BY <1>2 DEF AppendedBuf, Buffer
<1>6. TakesBehind(c, b, pkt_i, Pkt.plen)
  <2>1. b.segs \in Seq(Nat)
    BY <1>2 DEF Buffer
  <2> HIDE DEF c, b
  <2> QED BY <1>5, <2>1 DEF TakesBehind
<1>7. /\ new.num_merged = TcpItem.num_merged + 1
      /\ new.gso_size = TcpItem.gso_size /\ new.bufs_index = x
      /\ new.sent_seq = TcpItem.sent_seq
      /\ new.psh_set = (TcpItem.psh_set \/ Pkt.psh)
  <2>1. ~(Pkt.plen > TcpItem.gso_size)
    BY <1>3, <1>4
  <2> QED BY <1>2, <2>1 DEF AppendedItem, Merged, TcpGROItem
<1>8. bufs' = [bufs EXCEPT ![x] = c]
  BY DEF ScanAppend
<1> HIDE DEF c, new, b
<1>9. Counts(new, TcpItem, TcpItem.gso_size)
  BY <1>7 DEF Counts
<1>10. Grouped(pkts, offset, c, new, "tcp", Pkt.flow)
  <2>1. Pkt.plen \in 1..TcpItem.gso_size
    BY <1>3, <1>4
  <2> QED BY <1>3, <1>4, <1>6, <1>9, <2>1, GroupAppend
<1>11. Numbered(pkts, c, new)
  <2>1. Len(b.segs) = TcpItem.num_merged + 1
    BY <1>3 DEF Grouped
  <2>2. c.psh <=> b.psh \/ Pkt.psh
    BY <1>5, Zenon
  <2>3. new.psh_set <=> Pkt.psh
    BY <1>4, <1>7, Zenon
  <2> QED BY <1>3, <1>4, <1>6, <1>7, <1>9, <2>1, <2>2, <2>3, NumberAppend
<1>12. bufs'[x] = c /\ \A j \in DOMAIN bufs \ {x, pkt_i} : bufs'[j] = bufs[j]
  BY <1>2, <1>8 DEF IInv, TypeOK
<1> HIDE DEF x
<1>13. x = TcpItem.bufs_index
  BY DEF x
<1> QED BY <1>1, <1>7, <1>10, <1>11, <1>12, <1>13, GroupsTcpMerge

(* Prepending a segment. *)
LEMMA GroupsPrepend ==
  ASSUME IInv, GroupInv, ScanPrepend
  PROVE  GroupInv'
<1> DEFINE x == TcpItem.bufs_index
           b == bufs[x]
           own == bufs[pkt_i]
           c == PrependedBuf(own, b)
           new == PrependedItem(TcpItem)
<1>1. Scanning /\ CanPrepend(Pkt, TcpItem) /\ TcpReplaced(new) /\ InGro
      /\ UNCHANGED <<pkts, offset>>
  BY DEF ScanPrepend, TcpMerge, TcpReplaced, Coalesced, call, Scanning, InGro
<1>2. /\ x \in DOMAIN bufs /\ b \in Buffer /\ TcpItem \in TcpGROItem
  BY <1>1, ScanFacts DEF IInv
<1>3. /\ Grouped(pkts, offset, b, TcpItem, "tcp", Pkt.flow)
      /\ Numbered(pkts, b, TcpItem)
      /\ pkts \in Seq(Packet) /\ offset \in Nat /\ pkt_i \in DOMAIN pkts
      /\ Pkt = pkts[pkt_i] /\ Pkt.kind = "tcp"
      /\ Pkt.plen \in Nat /\ Pkt.seq \in 0..SeqSpace-1
      /\ TcpItem.num_merged \in Nat /\ TcpItem.gso_size \in Nat
  BY <1>1, ScanGroup
<1>4. /\ Pkt.hdr = pkts[b.head].hdr /\ ~Pkt.psh
      /\ Pkt.plen >= TcpItem.gso_size
      /\ Pkt.plen > TcpItem.gso_size => TcpItem.num_merged = 0
      /\ (Pkt.seq + Pkt.plen) % SeqSpace = TcpItem.sent_seq
  BY <1>1 DEF CanPrepend, SameHeaders, Precedes
<1>5. /\ pkt_i \in DOMAIN bufs /\ own \in Buffer /\ own.segs = <<pkt_i>>
      /\ own.head = pkt_i /\ own = CallerBuf(pkts, offset, pkt_i)
  BY <1>1, <1>3, FreshBuf
<1>6. own.len = offset + HdrLen + Pkt.plen /\ own.psh = Pkt.psh
  BY <1>3, <1>5 DEF CallerBuf, BufLen
<1>7. /\ c.segs = <<pkt_i>> \o b.segs /\ c.head = pkt_i /\ c.psh = own.psh
      /\ c.len = own.len + (b.len - offset - HdrLen)
  BY <1>5 DEF PrependedBuf, Buffer, Payload
<1>8. TakesBefore(c, b, pkt_i, Pkt.plen)
  <2>1. b.segs \in Seq(Nat) /\ b.len \in Nat /\ HdrLen \in Nat
    BY <1>2, SizeAssumption DEF Buffer
  <2> HIDE DEF c, b, own
  <2>2. c.len = b.len + Pkt.plen
    BY <1>3, <1>6, <1>7, <2>1
  <2>3. /\ Len(c.segs) = Len(b.segs) + 1 /\ c.segs[1] = pkt_i
        /\ \A k \in 1..Len(b.segs) : c.segs[k + 1] = b.segs[k]
    BY <1>7, <2>1
  <2> QED BY <1>7, <2>2, <2>3 DEF TakesBefore
<1>9. /\ new.num_merged = TcpItem.num_merged + 1
      /\ new.gso_size = Pkt.plen /\ new.bufs_index = x
      /\ new.sent_seq = Pkt.seq /\ new.psh_set = TcpItem.psh_set
  <2>1. Pkt.plen > TcpItem.gso_size \/ Pkt.plen = TcpItem.gso_size
    BY <1>3, <1>4
  <2> QED BY <1>2, <2>1 DEF PrependedItem, Merged, TcpGROItem
<1>10. bufs' = [bufs EXCEPT ![x] = c, ![pkt_i] = b]
  BY DEF ScanPrepend, SwapIn
<1> HIDE DEF c, new, b, own
<1>11. Counts(new, TcpItem, Pkt.plen)
  BY <1>9 DEF Counts
<1>12. Grouped(pkts, offset, c, new, "tcp", Pkt.flow)
  BY <1>3, <1>4, <1>8, <1>11, GroupPrepend
<1>13. Numbered(pkts, c, new)
  <2>1. Len(b.segs) = TcpItem.num_merged + 1
    BY <1>3 DEF Grouped
  <2>2. ~c.psh
    BY <1>4, <1>6, <1>7
  <2>3. Pkt.plen = TcpItem.gso_size \/ TcpItem.num_merged = 0
    BY <1>3, <1>4
  <2> QED BY <1>3, <1>4, <1>8, <1>9, <1>11, <2>1, <2>2, <2>3, NumberPrepend
<1>14. bufs'[x] = c /\ \A j \in DOMAIN bufs \ {x, pkt_i} : bufs'[j] = bufs[j]
  <2>1. x # pkt_i
    <3>1. item_i \in DOMAIN tcp_gro_table[Pkt.flow] /\ Pkt.flow \in Flow
      BY <1>1, <1>3, ScanFacts, PktFacts DEF IInv, TcpItems
    <3> QED BY <3>1, ItemPlaces DEF TcpItem, TcpItems
  <2> QED BY <1>2, <1>5, <1>10, <2>1 DEF IInv, TypeOK
<1> HIDE DEF x
<1>15. x = TcpItem.bufs_index
  BY DEF x
<1> QED BY <1>1, <1>9, <1>12, <1>13, <1>14, <1>15, GroupsTcpMerge

(* Appending a datagram. *)
LEMMA GroupsUdpAppend ==
  ASSUME IInv, GroupInv, UdpAppend
  PROVE  GroupInv'
<1> DEFINE x == UdpItem.bufs_index
           b == bufs[x]
           c == [b EXCEPT !.segs = Append(@, pkt_i), !.len = @ + Pkt.plen]
           new == [UdpItem EXCEPT !.num_merged = @ + 1]
           f == Pkt.flow
           t == udp_gro_table
<1>1. UdpEligible /\ UdpTry /\ UNCHANGED <<pkts, offset, tcp_gro_table>>
      /\ IsUdp(Pkt) /\ Mergeable(Pkt) /\ InGro
  BY DEF UdpAppend, UdpEligible, InLoop, Coalesced, call, InGro
<1>2. /\ x \in DOMAIN bufs /\ b \in Buffer /\ UdpItem \in UdpGROItem
      /\ pkt_i \in DOMAIN pkts /\ UdpLast \in DOMAIN t[f]
      /\ UdpItem = t[f][UdpLast] /\ pkt_i \in DOMAIN bufs
  BY <1>1, UdpFacts DEF IInv, UdpItems, UdpItem, TypeOK
<1>3. /\ Pkt \in Packet /\ f \in Flow /\ Pkt = pkts[pkt_i]
      /\ pkts \in Seq(Packet) /\ offset \in Nat /\ pkt_i \in Nat
  BY <1>2, PktFacts DEF IInv, TypeOK, Pkt
<1>4. Pkt.plen \in Nat /\ Pkt.plen >= 1 /\ Pkt.kind = "udp"
  BY <1>1, <1>3, PacketAssumption DEF IsUdp, Mergeable
<1>5. /\ TcpGroups(pkts, offset, bufs, tcp_gro_table)
      /\ UdpGroups(pkts, offset, bufs, udp_gro_table)
  BY <1>1 DEF GroupInv
<1>6. Grouped(pkts, offset, b, UdpItem, "udp", f)
  BY <1>2, <1>3, <1>5 DEF UdpGroups
<1>7. UdpItem.num_merged \in Nat /\ UdpItem.gso_size \in Nat
  BY <1>2 DEF UdpGROItem
<1>8. /\ Pkt.hdr = pkts[b.head].hdr /\ Pkt.plen <= UdpItem.gso_size
      /\ (b.len - offset - HdrLen) % UdpItem.gso_size = 0
  BY <1>1 DEF UdpTry, SameHeaders, FitsBehind, Payload
<1>9. /\ c.segs = Append(b.segs, pkt_i) /\ c.len = b.len + Pkt.plen
      /\ c.head = b.head
  BY <1>2 DEF Buffer
<1>10. TakesBehind(c, b, pkt_i, Pkt.plen)
  <2>1. b.segs \in Seq(Nat)
    BY <1>2 DEF Buffer
  <2> HIDE DEF c, b
  <2> QED BY <1>9, <2>1 DEF TakesBehind
<1>11. /\ new.num_merged = UdpItem.num_merged + 1
       /\ new.gso_size = UdpItem.gso_size /\ new.bufs_index = x
  BY <1>2 DEF UdpGROItem
<1>12. Counts(new, UdpItem, UdpItem.gso_size)
  BY <1>11 DEF Counts
<1>13. bufs' = [bufs EXCEPT ![x] = c]
  BY <1>2 DEF UdpAppend, IInv, TypeOK
<1>14. udp_gro_table' = [t EXCEPT ![f] = [t[f] EXCEPT ![UdpLast] = new]]
  BY DEF UdpAppend, UdpItem, UdpItems
<1> HIDE DEF c, new, b, f
<1>15. Grouped(pkts, offset, c, new, "udp", f)
  <2>1. Pkt.plen \in 1..UdpItem.gso_size
    BY <1>4, <1>7, <1>8
  <2>2. pkts[pkt_i].flow = f
    BY <1>3 DEF f
  <2> QED BY <1>2, <1>3, <1>4, <1>6, <1>7, <1>8, <1>10, <1>12, <2>1, <2>2,
             GroupAppend
<1>16. bufs'[x] = c /\ \A j \in DOMAIN bufs \ {x, pkt_i} : bufs'[j] = bufs[j]
  BY <1>2, <1>13 DEF IInv, TypeOK
<1>17. \A y : SameGroup(y, y)
  BY DEF SameGroup
<1>18. ASSUME NEW g \in Flow, NEW k \in DOMAIN t[g], ~(g = f /\ k = UdpLast)
       PROVE  bufs'[t[g][k].bufs_index] = bufs[t[g][k].bufs_index]
  <2>1. t[g][k].bufs_index # x
    BY <1>2, <1>3, <1>18 DEF IInv, TableInv, Distinct
  <2>2. t[g][k].bufs_index \in DOMAIN bufs \ {pkt_i}
    BY ItemPlaces
  <2> QED BY <1>16, <2>1, <2>2
<1>19. ASSUME NEW g \in Flow, NEW k \in DOMAIN tcp_gro_table[g]
       PROVE  bufs'[tcp_gro_table[g][k].bufs_index]
                = bufs[tcp_gro_table[g][k].bufs_index]
  <2>1. tcp_gro_table[g][k].bufs_index # x
    BY <1>2, <1>3 DEF IInv, TableInv, Disjoint
  <2>2. tcp_gro_table[g][k].bufs_index \in DOMAIN bufs \ {pkt_i}
    BY ItemPlaces
  <2> QED BY <1>16, <2>1, <2>2
<1>20. UdpGroups(pkts, offset, bufs', udp_gro_table')
  <2>0. t \in [Flow -> Seq(UdpGROItem)]
    BY DEF IInv, TypeOK
  <2>1. ASSUME NEW g \in Flow, NEW k \in DOMAIN udp_gro_table'[g]
        PROVE  \/ g = f /\ udp_gro_table'[g][k] = new
               \/ /\ k \in DOMAIN t[g]
                  /\ udp_gro_table'[g][k] = t[g][k]
                  /\ ~(g = f /\ k = UdpLast)
    BY <1>2, <1>3, <1>14, <2>0
  <2> QED BY <1>5, <1>11, <1>15, <1>16, <1>17, <1>18, <2>1, UdpGroupsStep
<1>21. TcpGroups(pkts, offset, bufs', tcp_gro_table)
  BY <1>5, <1>17, <1>19, TcpGroupsStep
<1> QED BY <1>1, <1>20, <1>21 DEF GroupInv

(* Every step inside handle_gro keeps the groups. *)
LEMMA GroupStep ==
  ASSUME IInv, GroupInv, InCall
  PROVE  GroupInv'
<1>1. CASE GroNoop \/ ScanPktInvalid
  <2>1. Noop /\ InGro /\ pkt_i \in DOMAIN pkts
    BY <1>1, ScanFacts DEF GroNoop, ScanPktInvalid, Scanning, InLoop, IInv,
                           LoopInv, TypeOK, InGro
  <2>2. UNCHANGED <<pkts, offset, tables>>
        /\ \A j \in DOMAIN bufs \ {pkt_i} : bufs'[j] = bufs[j]
    BY <2>1 DEF Noop, call, IInv, TypeOK
  <2>3. \A j \in DOMAIN bufs \ {pkt_i} : SameGroup(bufs'[j], bufs[j])
    BY <2>2 DEF SameGroup
  <2> QED BY <2>1, <2>2, <2>3, GroupsStay
<1>2. CASE TcpLookup \/ ScanSkip \/ GroInvalidOffset \/ UNCHANGED vars
  <2>1. UNCHANGED <<pkts, offset, bufs, tables>> /\ (InGro' => InGro)
    BY <1>2 DEF TcpLookup, ScanSkip, GroInvalidOffset, InLoop, Scanning, vars,
                InGro, call, tables
  <2>2. \A j \in DOMAIN bufs \ {pkt_i} : SameGroup(bufs'[j], bufs[j])
    BY <2>1 DEF SameGroup
  <2>3. CASE InGro
    BY <2>1, <2>2, <2>3, GroupsStay
  <2> QED BY <2>1, <2>3 DEF GroupInv
<1>3. CASE GroAccount \/ WritingOut \/ Cancel
  BY <1>3 DEF GroAccount, WritingOut, WriteInvalidOffset, Write, WriteBadFd,
              Finish, Cancel, Writing, Return, GroupInv, InGro
<1> QED BY <1>1, <1>2, <1>3, GroupsRemove, GroupsInsert, GroupsAppend,
           GroupsPrepend, GroupsUdpAppend
        DEF InCall, Running, Coalescing

-----------------------------------------------------------------------------
(* The round trip. *)

(* The kernel cuts the buffer of a group where its packets were put        *)
(* together.                                                               *)
LEMMA GroupSegments ==
  ASSUME TypeOK, NEW b, NEW item, NEW kind, NEW f,
         Grouped(pkts, offset, b, item, kind, f),
         kind = "tcp" => Numbered(pkts, b, item),
         item.num_merged \in Nat, item.gso_size \in Nat,
         b.segs \in Seq(Nat), b.gso = item.gso_size
  PROVE  SegmentsBack(b)
<1> DEFINE m == item.num_merged
           n == m + 1
           g == item.gso_size
           l == pkts[b.segs[n]].plen
           p(k) == pkts[b.segs[k]]
           h == pkts[b.head]
<1>0. m \in Nat /\ g \in Nat /\ offset \in Nat /\ HdrLen \in Nat
      /\ b.gso = g
  BY SizeAssumption DEF TypeOK
<1>1. /\ Len(b.segs) = n /\ b.head = b.segs[1] /\ l \in 1..g
      /\ \A k \in 1..n :
           /\ p(k).kind = kind /\ p(k).flow = f /\ p(k).hdr = h.hdr
           /\ k < n => p(k).plen = g
      /\ b.len = offset + HdrLen + (n - 1) * g + l
  BY DEF Grouped
<1>2. n \in Nat /\ n >= 1 /\ n - 1 = m /\ DOMAIN b.segs = 1..n
  <2>1. n \in Nat /\ n >= 1 /\ n - 1 = m
    <3> HIDE DEF m
    <3> QED BY <1>0
  <2>2. Len(b.segs) = n /\ DOMAIN b.segs = 1..Len(b.segs)
    BY <1>1
  <2> QED BY <2>1, <2>2
<1>3. kind = "tcp" =>
        /\ item.sent_seq = p(1).seq
        /\ \A k \in 1..n :
             /\ p(k).seq = (item.sent_seq + (k - 1) * g) % SeqSpace
             /\ p(k).psh => k = n
        /\ b.psh => p(n).psh
  BY DEF Numbered
<1>4. p(n).plen = l /\ p(1) = h
  BY <1>1
<1> HIDE DEF m, n, g, l, p, h
<1>5. m * g \in Nat /\ n * g = m * g + g
  BY <1>0, <1>2
<1>6. Payload(b) = m * g + l
  <2>1. (n - 1) * g = m * g
    BY <1>2
  <2> QED BY <1>0, <1>1, <1>5, <2>1 DEF Payload
<1>7. m * g < Payload(b) /\ Payload(b) <= n * g
  BY <1>0, <1>1, <1>5, <1>6
<1>8. ASSUME NEW k \in 1..n
      PROVE  p(k).plen = KernelSegLen(b, k)
  <2>1. /\ ((n - 1) * g + l) - (k - 1) * g = (n - k) * g + l
        /\ k < n => (n - k) * g >= g
    BY <1>0, <1>1, <1>2, Rest
  <2>2. Payload(b) - (k - 1) * b.gso = (n - k) * g + l
    BY <1>0, <1>2, <1>6, <2>1
  <2>3. CASE k < n
    <3>1. (n - k) * g \in Int /\ ~((n - k) * g + l < g)
      <4>1. (n - k) * g \in Int
        BY <1>0, <1>2
      <4> QED BY <1>0, <1>1, <2>1, <2>3, <4>1
    <3> QED BY <1>0, <1>1, <2>2, <2>3, <3>1 DEF KernelSegLen
  <2>4. CASE k = n
    <3>1. (n - k) * g + l = l
      BY <1>0, <1>1, <1>2, <2>4
    <3>2. (l < g \/ l = g) /\ l \in Int
      BY <1>0, <1>1
    <3> QED BY <1>0, <1>4, <2>2, <2>4, <3>1, <3>2 DEF KernelSegLen
  <2>5. k < n \/ k = n
    BY <1>2
  <2> QED BY <2>3, <2>4, <2>5
<1>9. 1 \in 1..n
  BY <1>2
<1>10. h.kind = kind /\ h.flow = f
  BY <1>1, <1>4, <1>9
<1>11. ASSUME NEW k \in 1..n
       PROVE  /\ p(k).plen = KernelSegLen(b, k)
              /\ p(k).kind = h.kind /\ p(k).flow = h.flow /\ p(k).hdr = h.hdr
              /\ p(k).kind = "tcp" =>
                   /\ p(k).seq = (h.seq + (k - 1) * b.gso) % SeqSpace
                   /\ p(k).psh => k = Len(b.segs)
                   /\ k = Len(b.segs) /\ b.psh => p(k).psh
  BY <1>0, <1>1, <1>3, <1>4, <1>8, <1>10
<1> QED BY <1>0, <1>1, <1>2, <1>7, <1>11 DEF SegmentsBack, p, h

(* RoundTrip when writing starts. *)
LEMMA AccountRounds ==
  ASSUME IInv, PacketInv, GroupInv, GroAccount
  PROVE  RoundTrip'
<1>1. /\ InGro /\ UNCHANGED <<to_write, pkts, offset>>
      /\ DOMAIN bufs' = DOMAIN bufs
      /\ \A j \in DOMAIN bufs :
           /\ ItemsAt(j) = {} => bufs'[j].vnet = bufs[j].vnet
           /\ ItemsAt(j) # {} => \E a \in ItemsAt(j) : bufs'[j] = Account(bufs[j], a)
  BY AccountBufs
<1>2. ASSUME NEW x \in ToSet(to_write), bufs'[x].vnet = "gso"
      PROVE  SegmentsBack(bufs'[x])
  <2>1. x \in DOMAIN bufs /\ bufs[x] \in Buffer
    BY WrittenFacts, BufFacts DEF IInv
  <2>2. ItemsAt(x) # {}
    <3>1. ASSUME ItemsAt(x) = {} PROVE FALSE
      <4>1. ~\E a \in AllItems : a.bufs_index = x
        BY <3>1 DEF ItemsAt
      <4>2. bufs[x].vnet = "none"
        BY <1>1, <4>1 DEF PacketInv, HeaderInv
      <4> QED BY <1>1, <1>2, <2>1, <3>1, <4>2
    <3> QED BY <3>1
  <2>3. PICK a \in ItemsAt(x) : bufs'[x] = Account(bufs[x], a)
    BY <1>1, <2>1, <2>2
  <2>4. a \in AllItems /\ a.bufs_index = x
    BY DEF ItemsAt
  <2>5. a.num_merged > 0
    <3>1. ASSUME ~(a.num_merged > 0) PROVE FALSE
      <4>1. bufs'[x].vnet = "none"
        BY <2>1, <2>3, <3>1 DEF Account, Buffer
      <4> QED BY <1>2, <4>1
    <3> QED BY <3>1
  <2>6. /\ bufs'[x].gso = a.gso_size /\ SameGroup(bufs'[x], bufs[x])
        /\ bufs'[x].segs \in Seq(Nat)
    BY <2>1, <2>3, <2>5 DEF Account, Buffer, SameGroup
  <2>7. \E kind : \E f : /\ Grouped(pkts, offset, bufs[x], a, kind, f)
                         /\ kind = "tcp" => Numbered(pkts, bufs[x], a)
    <3>1. \/ \E f \in Flow : \E k \in DOMAIN tcp_gro_table[f] : tcp_gro_table[f][k] = a
          \/ \E f \in Flow : \E k \in DOMAIN udp_gro_table[f] : udp_gro_table[f][k] = a
      BY <2>4 DEF AllItems, ToSet
    <3>2. /\ TcpGroups(pkts, offset, bufs, tcp_gro_table)
          /\ UdpGroups(pkts, offset, bufs, udp_gro_table)
      BY <1>1 DEF GroupInv
    <3>3. CASE \E f \in Flow : \E k \in DOMAIN tcp_gro_table[f] : tcp_gro_table[f][k] = a
      <4>1. PICK f \in Flow : \E k \in DOMAIN tcp_gro_table[f] : tcp_gro_table[f][k] = a
        BY <3>3
      <4>2. /\ Grouped(pkts, offset, bufs[x], a, "tcp", f)
            /\ Numbered(pkts, bufs[x], a)
        BY <2>4, <3>2, <4>1 DEF TcpGroups
      <4> QED BY <4>2
    <3>4. CASE \E f \in Flow : \E k \in DOMAIN udp_gro_table[f] : udp_gro_table[f][k] = a
      <4>1. PICK f \in Flow : \E k \in DOMAIN udp_gro_table[f] : udp_gro_table[f][k] = a
        BY <3>4
      <4>2. Grouped(pkts, offset, bufs[x], a, "udp", f)
        BY <2>4, <3>2, <4>1 DEF UdpGroups
      <4> QED BY <4>2
    <3> QED BY <3>1, <3>3, <3>4
  <2>8. PICK kind : \E f : /\ Grouped(pkts, offset, bufs[x], a, kind, f)
                           /\ kind = "tcp" => Numbered(pkts, bufs[x], a)
    BY <2>7
  <2>9. PICK f : /\ Grouped(pkts, offset, bufs[x], a, kind, f)
                 /\ kind = "tcp" => Numbered(pkts, bufs[x], a)
    BY <2>8
  <2> DEFINE b == bufs[x]
             c == bufs'[x]
  <2>10. c.head = b.head /\ c.segs = b.segs /\ c.psh = b.psh /\ c.len = b.len
    BY <2>6 DEF SameGroup
  <2>11. Grouped(pkts, offset, b, a, kind, f)
         /\ (kind = "tcp" => Numbered(pkts, b, a))
    BY <2>9
  <2> HIDE DEF b, c
  <2>12. Grouped(pkts, offset, c, a, kind, f)
    BY <2>10, <2>11 DEF Grouped
  <2>13. kind = "tcp" => Numbered(pkts, c, a)
    BY <2>10, <2>11 DEF Numbered
  <2>14. a.num_merged \in Nat /\ a.gso_size \in Nat /\ TypeOK
    BY <2>4, AllItemsTyped DEF IInv
  <2>15. c.segs \in Seq(Nat) /\ c.gso = a.gso_size
    BY <2>6 DEF c
  <2>16. SegmentsBack(c)
    BY <2>12, <2>13, <2>14, <2>15, GroupSegments
  <2> QED BY <2>16 DEF c
<1>3. ASSUME NEW w \in DOMAIN to_write
      PROVE  (Emitted(w).vnet = "gso" => SegmentsBack(Emitted(w)))'
  <2>1. to_write[w] \in ToSet(to_write)
    BY DEF ToSet
  <2>2. Emitted(w)' = bufs'[to_write[w]]
    BY <1>1 DEF Emitted
  <2>3. ASSUME NEW b PROVE SegmentsBack(b) => SegmentsBack(b)'
    BY <1>1 DEF SegmentsBack, KernelSegLen, Payload
  <2> QED BY <1>2, <2>1, <2>2, <2>3
<1> QED BY <1>1, <1>3 DEF RoundTrip

(* Entering a call: nothing is grouped, nothing has a GSO header. *)
LEMMA CallRounds ==
  ASSUME Calling
  PROVE  GroupInv' /\ RoundTrip'
<1>1. PICK off \in Offsets : \E b \in Seq(Packet) :
        /\ Enter(b, off)
        /\ to_write' = <<>> \/ to_write' = [i \in 1..Len(b) |-> i]
  <2>1. <<>> \in Seq(Packet)
    OBVIOUS
  <2> QED BY <2>1, BatchSeq DEF Calling, CallEmpty, CallTooMany, CallGro, CallPlain
<1>2. PICK b \in Seq(Packet) :
        /\ Enter(b, off)
        /\ to_write' = <<>> \/ to_write' = [i \in 1..Len(b) |-> i]
  BY <1>1
<1>3. /\ bufs' = [i \in 1..Len(b) |-> CallerBuf(b, off, i)]
      /\ tcp_gro_table' = EmptyTable /\ udp_gro_table' = EmptyTable
  BY <1>2 DEF Enter, Reset
<1>4. GroupInv'
  <2>1. \A f \in Flow : DOMAIN EmptyTable[f] = {}
    BY DEF EmptyTable
  <2> QED BY <1>3, <2>1 DEF GroupInv, TcpGroups, UdpGroups
<1>5. ASSUME NEW w \in DOMAIN to_write' PROVE Emitted(w)'.vnet = "stale"
  <2>1. to_write'[w] \in 1..Len(b)
    BY <1>2
  <2>2. Emitted(w)' = CallerBuf(b, off, to_write'[w])
    BY <1>3, <2>1 DEF Emitted
  <2> QED BY <2>2 DEF CallerBuf
<1> QED BY <1>4, <1>5 DEF RoundTrip

(* Writing changes no buffer. *)
LEMMA WriteRounds ==
  ASSUME RoundTrip, Still
  PROVE  RoundTrip'
<1> SUFFICES ASSUME pc' = "write", NEW w \in DOMAIN to_write'
             PROVE  (Emitted(w).vnet = "gso" => SegmentsBack(Emitted(w)))'
  BY DEF RoundTrip
<1>1. pc = "write" /\ UNCHANGED <<pkts, offset, bufs, to_write>>
  BY DEF Still
<1>2. Emitted(w)' = Emitted(w)
  BY <1>1 DEF Emitted
<1>3. ASSUME NEW b PROVE SegmentsBack(b) => SegmentsBack(b)'
  BY <1>1 DEF SegmentsBack, KernelSegLen, Payload
<1> QED BY <1>1, <1>2, <1>3 DEF RoundTrip

RInv == DInv /\ GroupInv /\ RoundTrip

(* The strengthened invariant holds of every state of send_multiple. *)
THEOREM GroupInvariance == Spec => []RInv
<1>1. Init => RInv
  BY InitDInv DEF RInv, Init, GroupInv, RoundTrip, InGro
<1>2. ASSUME RInv, [Next]_vars PROVE RInv'
  <2>1. IInv /\ PacketInv /\ GroupInv /\ RoundTrip /\ DInv'
    BY <1>2, NextDInv DEF RInv, DInv, PacketInv
  <2>2. CASE Calling
    BY <2>1, <2>2, CallRounds DEF RInv
  <2>3. CASE InCall
    <3>1. GroupInv'
      BY <2>1, <2>3, GroupStep
    <3>2. RoundTrip'
      <4>1. CASE GroAccount
        BY <2>1, <4>1, AccountRounds
      <4>2. CASE Still
        BY <2>1, <4>2, WriteRounds
      <4>3. CASE pc' # "write"
        BY <4>3 DEF RoundTrip
      <4> QED BY <2>1, <2>3, <4>1, <4>2, <4>3, StepKinds
              DEF Pushed, Removed, Grows
    <3> QED BY <2>1, <3>1, <3>2 DEF RInv
  <2> QED BY <1>2, <2>2, <2>3 DEF Next, InCall
<1> QED BY <1>1, <1>2, PTL DEF Spec

(* RoundTrip: cutting every coalesced buffer at gso_size, as the kernel    *)
(* does, gives back the packets that went into it, with their lengths,     *)
(* flows, headers and sequence numbers modulo SeqSpace, and PSH on the     *)
(* last one only, whatever was appended, prepended and swapped on the way. *)
THEOREM SegmentationInverts == Spec => []RoundTrip
<1>1. RInv => RoundTrip
  BY DEF RInv
<1> QED BY <1>1, GroupInvariance, PTL

-----------------------------------------------------------------------------
(* The order of the datagrams. *)

(* The packets of S in new were in old, in the same order. *)
Keeps(new, old, S) ==
  \E m \in [DOMAIN new -> Int] :
    /\ \A k \in DOMAIN new :
         new[k] \in S => m[k] \in DOMAIN old /\ old[m[k]] = new[k]
    /\ \A j, k \in DOMAIN new : m[j] < m[k] => j < k

(* A buffer with the same content. *)
LEMMA KeepsSame ==
  ASSUME NEW s \in Seq(Nat), NEW S
  PROVE  Keeps(s, s, S)
<1> DEFINE m == [k \in DOMAIN s |-> k]
<1>1. m \in [DOMAIN s -> Int] /\ \A k \in DOMAIN s : m[k] = k
  OBVIOUS
<1> HIDE DEF m
<1>2. \A k \in DOMAIN s : s[k] \in S => m[k] \in DOMAIN s /\ s[m[k]] = s[k]
  BY <1>1
<1>3. \A j, k \in DOMAIN s : m[j] < m[k] => j < k
  BY <1>1
<1> QED BY <1>1, <1>2, <1>3, Zenon DEF Keeps

(* Another packet behind. *)
LEMMA KeepsBehind ==
  ASSUME NEW s \in Seq(Nat), NEW S, NEW p \in Nat, p \notin S
  PROVE  Keeps(Append(s, p), s, S)
<1> DEFINE new == Append(s, p)
           m == [k \in DOMAIN new |-> k]
<1>1. DOMAIN new = 1..Len(s) + 1 /\ DOMAIN s = 1..Len(s) /\ Len(s) \in Nat
      /\ new[Len(s) + 1] = p /\ \A k \in DOMAIN s : new[k] = s[k]
  OBVIOUS
<1> HIDE DEF new
<1>2. m \in [DOMAIN new -> Int] /\ \A k \in DOMAIN new : m[k] = k
  BY <1>1
<1> HIDE DEF m
<1>3. \A k \in DOMAIN new : new[k] \in S => m[k] \in DOMAIN s /\ s[m[k]] = new[k]
  <2> SUFFICES ASSUME NEW k \in DOMAIN new, new[k] \in S
               PROVE  m[k] \in DOMAIN s /\ s[m[k]] = new[k]
    OBVIOUS
  <2>1. k # Len(s) + 1
    BY <1>1
  <2>2. k \in DOMAIN s
    BY <1>1, <2>1
  <2> QED BY <1>1, <1>2, <2>2
<1>4. \A j, k \in DOMAIN new : m[j] < m[k] => j < k
  BY <1>2
<1>5. Keeps(new, s, S)
  BY <1>2, <1>3, <1>4, Zenon DEF Keeps
<1> QED BY <1>5 DEF new

(* The same in front. *)
LEMMA KeepsBefore ==
  ASSUME NEW s \in Seq(Nat), NEW S, NEW p \in Nat, p \notin S
  PROVE  Keeps(<<p>> \o s, s, S)
<1> DEFINE new == <<p>> \o s
           m == [k \in DOMAIN new |-> k - 1]
<1>1. DOMAIN new = 1..Len(s) + 1 /\ DOMAIN s = 1..Len(s) /\ Len(s) \in Nat
      /\ new[1] = p /\ \A k \in 2..Len(s) + 1 : new[k] = s[k - 1]
  OBVIOUS
<1> HIDE DEF new
<1>2. m \in [DOMAIN new -> Int] /\ \A k \in DOMAIN new : m[k] = k - 1
  BY <1>1
<1> HIDE DEF m
<1>3. \A k \in DOMAIN new : new[k] \in S => m[k] \in DOMAIN s /\ s[m[k]] = new[k]
  <2> SUFFICES ASSUME NEW k \in DOMAIN new, new[k] \in S
               PROVE  m[k] \in DOMAIN s /\ s[m[k]] = new[k]
    OBVIOUS
  <2>1. k # 1
    BY <1>1
  <2>2. k \in 2..Len(s) + 1 /\ k - 1 \in DOMAIN s
    BY <1>1, <2>1
  <2> QED BY <1>1, <1>2, <2>2
<1>4. \A j, k \in DOMAIN new : m[j] < m[k] => j < k
  BY <1>1, <1>2
<1>5. Keeps(new, s, S)
  BY <1>2, <1>3, <1>4, Zenon DEF Keeps
<1> QED BY <1>5 DEF new

(* Buffers that keep their datagrams stay sorted. *)
LEMMA SortedKept ==
  ASSUME NEW ps, NEW bs, NEW cs, NEW W, NEW S, Sorted(ps, bs, W, S),
         \A x \in W : Keeps(cs[x].segs, bs[x].segs, S)
  PROVE  Sorted(ps, cs, W, S)
<1> SUFFICES ASSUME NEW x \in W, NEW y \in W,
                    NEW j \in DOMAIN cs[x].segs, NEW k \in DOMAIN cs[y].segs,
                    cs[x].segs[j] \in S, cs[y].segs[k] \in S,
                    ps[cs[x].segs[j]].flow = ps[cs[y].segs[k]].flow,
                    cs[x].segs[j] < cs[y].segs[k]
             PROVE  x < y \/ (x = y /\ j < k)
  BY DEF Sorted
<1>1. PICK m \in [DOMAIN cs[x].segs -> Int] :
        /\ \A i \in DOMAIN cs[x].segs : cs[x].segs[i] \in S =>
             m[i] \in DOMAIN bs[x].segs /\ bs[x].segs[m[i]] = cs[x].segs[i]
        /\ \A h, i \in DOMAIN cs[x].segs : m[h] < m[i] => h < i
  BY DEF Keeps
<1>2. PICK n \in [DOMAIN cs[y].segs -> Int] :
        \A i \in DOMAIN cs[y].segs : cs[y].segs[i] \in S =>
          n[i] \in DOMAIN bs[y].segs /\ bs[y].segs[n[i]] = cs[y].segs[i]
  BY DEF Keeps
<1>3. CASE x # y
  BY <1>1, <1>2, <1>3 DEF Sorted
<1>4. CASE x = y
  <2>1. /\ m[j] \in DOMAIN bs[x].segs /\ bs[x].segs[m[j]] = cs[x].segs[j]
        /\ m[k] \in DOMAIN bs[x].segs /\ bs[x].segs[m[k]] = cs[y].segs[k]
    BY <1>1, <1>4
  <2>2. x < x \/ m[j] < m[k]
    BY <1>4, <2>1 DEF Sorted
  <2>3. m[j] < m[k] => j < k
    BY <1>1, <1>4
  <2> QED BY <1>4, <2>2, <2>3
<1> QED BY <1>3, <1>4

(* The buffers V of cs are the W of bs with packet p more, at place q of z. *)
Adds(bs, cs, W, V, p, z, q) ==
  \A x \in V : \A j \in DOMAIN cs[x].segs :
    \/ /\ x \in W /\ j \in DOMAIN bs[x].segs
       /\ cs[x].segs[j] = bs[x].segs[j]
    \/ x = z /\ j = q /\ cs[x].segs[j] = p

(* There p is behind the packets of S and of its flow. *)
LastOf(ps, bs, W, S, p, z, q) ==
  \A x \in W : \A j \in DOMAIN bs[x].segs :
    /\ bs[x].segs[j] \in Nat /\ bs[x].segs[j] < p
    /\ bs[x].segs[j] \in S /\ ps[bs[x].segs[j]].flow = ps[p].flow
         => x < z \/ (x = z /\ j < q)

(* One packet more, behind all others of its flow. *)
LEMMA SortedAdd ==
  ASSUME NEW ps, NEW bs, NEW cs, NEW W, NEW V, NEW S, Sorted(ps, bs, W, S),
         NEW p \in Nat, NEW z, NEW q,
         Adds(bs, cs, W, V, p, z, q), LastOf(ps, bs, W, S, p, z, q)
  PROVE  Sorted(ps, cs, V, S)
<1> SUFFICES ASSUME NEW x \in V, NEW y \in V,
                    NEW j \in DOMAIN cs[x].segs, NEW k \in DOMAIN cs[y].segs,
                    cs[x].segs[j] \in S, cs[y].segs[k] \in S,
                    ps[cs[x].segs[j]].flow = ps[cs[y].segs[k]].flow,
                    cs[x].segs[j] < cs[y].segs[k]
             PROVE  x < y \/ (x = y /\ j < k)
  BY DEF Sorted
<1> DEFINE Old(v, i) == v \in W /\ i \in DOMAIN bs[v].segs
                        /\ cs[v].segs[i] = bs[v].segs[i]
           New(v, i) == v = z /\ i = q /\ cs[v].segs[i] = p
<1>1. (Old(x, j) \/ New(x, j)) /\ (Old(y, k) \/ New(y, k))
  BY DEF Adds
<1>2. CASE Old(x, j) /\ Old(y, k)
  BY <1>2 DEF Sorted
<1>3. CASE Old(x, j) /\ New(y, k)
  BY <1>3 DEF LastOf
<1>4. CASE New(x, j) /\ Old(y, k)
  <2>1. bs[y].segs[k] \in Nat /\ bs[y].segs[k] < p /\ p < bs[y].segs[k]
    BY <1>4 DEF LastOf
  <2> QED BY <2>1
<1>5. CASE New(x, j) /\ New(y, k)
  <2>1. p < p
    BY <1>5
  <2> QED BY <2>1
<1> QED BY <1>1, <1>2, <1>3, <1>4, <1>5


(* The last items stay, or others come behind them. *)
LEMMA UpToStep ==
  ASSUME NEW ps, NEW bs, NEW cs, NEW W, NEW V, NEW S, NEW t, NEW u,
         UpToLast(ps, bs, W, S, t),
         \A x \in V : \A j \in DOMAIN cs[x].segs : cs[x].segs[j] \in S =>
           \/ /\ x \in W
              /\ \E k \in DOMAIN bs[x].segs : bs[x].segs[k] = cs[x].segs[j]
           \/ UpTo(u, ps[cs[x].segs[j]].flow, x),
         \A x \in W : \A i \in S :
           UpTo(t, ps[i].flow, x) => UpTo(u, ps[i].flow, x)
  PROVE  UpToLast(ps, cs, V, S, u)
<1> SUFFICES ASSUME NEW x \in V, NEW j \in DOMAIN cs[x].segs, cs[x].segs[j] \in S
             PROVE  UpTo(u, ps[cs[x].segs[j]].flow, x)
  BY DEF UpToLast
<1>1. CASE x \in W /\ \E k \in DOMAIN bs[x].segs : bs[x].segs[k] = cs[x].segs[j]
  <2>1. PICK k \in DOMAIN bs[x].segs : bs[x].segs[k] = cs[x].segs[j]
    BY <1>1
  <2>2. UpTo(t, ps[cs[x].segs[j]].flow, x)
    BY <1>1, <2>1 DEF UpToLast
  <2> QED BY <1>1, <2>2
<1> QED BY <1>1

(* The datagrams of the batch that may enter the UDP table. *)
LEMMA UdpSetSame ==
  ASSUME IInv, UNCHANGED <<dev, pkts>>
  PROVE  UdpSet' = UdpSet /\ \A i \in UdpSet : pkts[i].flow \in Flow
<1>1. UdpSet' = UdpSet
  BY DEF UdpSet, IsUdp, Mergeable
<1>2. pkts \in Seq(Packet)
  BY DEF IInv, TypeOK
<1> QED BY <1>1, <1>2, PacketAssumption DEF UdpSet

(* A step that leaves the UDP table alone, and the datagrams where they    *)
(* are.                                                                    *)
LEMMA OrderKept ==
  ASSUME IInv, OrderInv, InGro,
         UNCHANGED <<dev, pkts, to_write, udp_gro_table>>,
         \A x \in ToSet(to_write) : Keeps(bufs'[x].segs, bufs[x].segs, UdpSet)
  PROVE  OrderInv'
<1> DEFINE W == ToSet(to_write)
           S == UdpSet
<1>1. UdpSet' = S
  BY UdpSetSame
<1>2. Sorted(pkts, bufs, W, S) /\ UpToLast(pkts, bufs, W, S, udp_gro_table)
  BY DEF OrderInv, InGro
<1>3. \A x \in W : Keeps(bufs'[x].segs, bufs[x].segs, S)
  OBVIOUS
<1> HIDE DEF W, S
<1>4. Sorted(pkts, bufs', W, S)
  BY <1>2, <1>3, SortedKept
<1>5. UpToLast(pkts, bufs', W, S, udp_gro_table)
  <2>1. ASSUME NEW x \in W, NEW j \in DOMAIN bufs'[x].segs, bufs'[x].segs[j] \in S
        PROVE  \E k \in DOMAIN bufs[x].segs : bufs[x].segs[k] = bufs'[x].segs[j]
    BY <1>3, <2>1 DEF Keeps
  <2> QED BY <1>2, <2>1, UpToStep
<1>6. W = ToSet(to_write') /\ pkts' = pkts /\ udp_gro_table' = udp_gro_table
  BY DEF W
<1> QED BY <1>1, <1>4, <1>5, <1>6 DEF OrderInv

(* The buffers to write hold packets the loop is through with. *)
LEMMA HeldBefore ==
  ASSUME IInv, PacketInv, InGro
  PROVE  /\ pkt_i \in Nat
         /\ \A x \in ToSet(to_write) : \A j \in DOMAIN bufs[x].segs :
              bufs[x].segs[j] \in Nat /\ bufs[x].segs[j] < pkt_i
         /\ \A x \in ToSet(to_write) : x \in Nat /\ x < pkt_i
<1>1. Placed(bufs, ToSet(to_write), 1..pkt_i - 1) /\ pkt_i \in Nat
  BY DEF PacketInv, OnceInv, Busy, Handled, InGro, IInv, TypeOK
<1>2. ASSUME NEW x \in ToSet(to_write), NEW j \in DOMAIN bufs[x].segs
      PROVE  bufs[x].segs[j] \in Nat /\ bufs[x].segs[j] < pkt_i
  <2>1. bufs[x].segs[j] \in 1..pkt_i - 1
    BY <1>1 DEF Placed
  <2> QED BY <1>1, <2>1
<1>3. \A x \in ToSet(to_write) : x \in Nat /\ x < pkt_i
  BY WrittenFacts DEF IInv, TypeOK
<1> QED BY <1>1, <1>2, <1>3

(* The packet's buffer comes behind all others. *)
LEMMA OrderPushed ==
  ASSUME IInv, PacketInv, OrderInv, Pushed,
         \A x \in ToSet(to_write) : \A i \in UdpSet :
           UpTo(udp_gro_table, pkts[i].flow, x)
             => UpTo(udp_gro_table', pkts[i].flow, x),
         pkt_i \in UdpSet => UpTo(udp_gro_table', Pkt.flow, pkt_i)
  PROVE  OrderInv'
<1> DEFINE W == ToSet(to_write)
           V == W \cup {pkt_i}
           S == UdpSet
           u == udp_gro_table'
<1>1. /\ InGro /\ pc' = "gro" /\ UNCHANGED <<dev, pkts>>
      /\ pkt_i \in DOMAIN pkts /\ pkt_i \in Nat
      /\ to_write \in Seq(DOMAIN pkts) /\ to_write' = Append(to_write, pkt_i)
      /\ bufs'[pkt_i].segs = <<pkt_i>>
      /\ \A j \in DOMAIN bufs : j # pkt_i => bufs'[j] = bufs[j]
  BY DEF Pushed, IInv, TypeOK
<1>2. UdpSet' = S
  BY <1>1, UdpSetSame
<1>3. ToSet(to_write') = V
  BY <1>1, ToSetAppend
<1>4. Sorted(pkts, bufs, W, S) /\ UpToLast(pkts, bufs, W, S, udp_gro_table)
  BY <1>1 DEF OrderInv, InGro
<1>5. /\ W \subseteq DOMAIN bufs
      /\ \A x \in W : x \in Nat /\ x < pkt_i /\ x # pkt_i
      /\ \A x \in W : \A j \in DOMAIN bufs[x].segs :
           bufs[x].segs[j] \in Nat /\ bufs[x].segs[j] < pkt_i
  BY <1>1, HeldBefore, WrittenFacts
<1>6. \A x \in W : bufs'[x] = bufs[x]
  BY <1>1, <1>5
<1>7. DOMAIN bufs'[pkt_i].segs = {1} /\ bufs'[pkt_i].segs[1] = pkt_i
  <2>1. DOMAIN <<pkt_i>> = {1} /\ <<pkt_i>>[1] = pkt_i
    OBVIOUS
  <2> QED BY <1>1, <2>1
<1>8. \A x \in W : \A i \in S :
        UpTo(udp_gro_table, pkts[i].flow, x) => UpTo(u, pkts[i].flow, x)
  OBVIOUS
<1>9. pkt_i \in S => UpTo(u, pkts[pkt_i].flow, pkt_i)
  BY DEF Pkt
<1> HIDE DEF W, S, u
<1>10. Adds(bufs, bufs', W, V, pkt_i, pkt_i, 1)
  BY <1>6, <1>7 DEF Adds
<1> HIDE DEF V
<1>11. Sorted(pkts, bufs', V, S)
  <2>1. LastOf(pkts, bufs, W, S, pkt_i, pkt_i, 1)
    BY <1>5 DEF LastOf
  <2> QED BY <1>1, <1>4, <1>10, <2>1, SortedAdd
<1>12. UpToLast(pkts, bufs', V, S, u)
  <2>1. \A x \in V : \A j \in DOMAIN bufs'[x].segs : bufs'[x].segs[j] \in S =>
          \/ /\ x \in W
             /\ \E k \in DOMAIN bufs[x].segs : bufs[x].segs[k] = bufs'[x].segs[j]
          \/ UpTo(u, pkts[bufs'[x].segs[j]].flow, x)
    BY <1>9, <1>10 DEF Adds
  <2> QED BY <1>4, <1>8, <2>1, UpToStep
<1> QED BY <1>1, <1>2, <1>3, <1>11, <1>12 DEF OrderInv, u

(* Noop and ScanInsert push a packet that does not enter the UDP table. *)
LEMMA OrderNotUdp ==
  ASSUME IInv, PacketInv, OrderInv, GroNoop \/ ScanPktInvalid \/ ScanInsert
  PROVE  OrderInv'
<1>1. /\ udp_gro_table' = udp_gro_table
      /\ GroNoop => ~(IsUdp(Pkt) /\ Mergeable(Pkt))
  BY DEF GroNoop, Noop, ScanPktInvalid, ScanInsert, tables
<1>2. ScanPktInvalid \/ ScanInsert => pc = "scan"
  BY DEF ScanPktInvalid, ScanInsert, Scanning
<1>3. pc = "scan" => ~IsUdp(Pkt)
  BY DEF IInv, LoopInv, IsTcp, IsUdp
<1>4. pkt_i \notin UdpSet
  BY <1>1, <1>2, <1>3 DEF UdpSet, Pkt
<1>5. Pushed
  <2>1. CASE ScanInsert
    BY <2>1, InsertPushes
  <2>2. CASE GroNoop
    <3>1. InGro /\ pkt_i \in DOMAIN pkts /\ Noop
      BY <2>2 DEF GroNoop, InLoop, IInv, LoopInv, TypeOK, InGro
    <3> QED BY <3>1, NoopPushes
  <2>3. CASE ScanPktInvalid
    <3>1. InGro /\ pkt_i \in DOMAIN pkts /\ Noop
      BY <2>3, ScanFacts DEF ScanPktInvalid, Scanning, IInv, InGro
    <3> QED BY <3>1, NoopPushes
  <2> QED BY <2>1, <2>2, <2>3
<1> QED BY <1>1, <1>4, <1>5, OrderPushed

(* A datagram that starts a new item. *)
LEMMA OrderUdpInsert ==
  ASSUME IInv, PacketInv, OrderInv, UdpInsert
  PROVE  OrderInv'
<1> DEFINE t == udp_gro_table
           f == Pkt.flow
           new == NewUdpItem(Pkt, pkt_i)
           u == [t EXCEPT ![f] = Append(t[f], new)]
<1>1. Pushed
  BY InsertPushes
<1>2. /\ f \in Flow /\ pkt_i \in DOMAIN pkts /\ pkt_i \in Nat
      /\ t \in [Flow -> Seq(UdpGROItem)] /\ InGro
  BY <1>1, PktFacts DEF IInv, TypeOK, Pushed
<1>3. udp_gro_table' = u
  BY DEF UdpInsert
<1>4. new.bufs_index = pkt_i
  BY DEF NewUdpItem
<1> HIDE DEF new, f, t
<1>5. /\ Len(u[f]) = Len(t[f]) + 1 /\ u[f][Len(t[f]) + 1] = new
      /\ Len(t[f]) \in Nat
      /\ \A g \in Flow : g # f => u[g] = t[g]
  BY <1>2
<1> HIDE DEF u
<1>6. \A x : x \in Nat /\ x <= pkt_i => UpTo(u, f, x)
  BY <1>4, <1>5 DEF UpTo
<1>7. ASSUME NEW x \in ToSet(to_write), NEW i \in UdpSet, UpTo(t, pkts[i].flow, x)
      PROVE  UpTo(u, pkts[i].flow, x)
  <2>1. pkts[i].flow \in Flow
    BY PacketAssumption DEF UdpSet, IInv, TypeOK
  <2>2. x \in Nat /\ x <= pkt_i
    BY <1>2, HeldBefore
  <2> QED BY <1>5, <1>6, <1>7, <2>1, <2>2 DEF UpTo
<1>8. UpTo(u, f, pkt_i)
  BY <1>2, <1>6
<1> QED BY <1>1, <1>3, <1>7, <1>8, OrderPushed DEF t, f

(* A datagram appended to the last item of its flow. *)
LEMMA OrderUdpAppend ==
  ASSUME IInv, PacketInv, OrderInv, UdpAppend
  PROVE  OrderInv'
<1> DEFINE W == ToSet(to_write)
           S == UdpSet
           t == udp_gro_table
           f == Pkt.flow
           z == UdpItem.bufs_index
           b == bufs[z]
           c == [b EXCEPT !.segs = Append(@, pkt_i), !.len = @ + Pkt.plen]
           new == [UdpItem EXCEPT !.num_merged = @ + 1]
           u == [t EXCEPT ![f] = [t[f] EXCEPT ![UdpLast] = new]]
<1>1. /\ InGro /\ pc' = "gro" /\ UNCHANGED <<dev, pkts, to_write>>
      /\ UdpEligible /\ UdpTry
  BY DEF UdpAppend, UdpEligible, InLoop, Coalesced, NextPacket, call, InGro
<1>2. /\ pkt_i \in DOMAIN pkts /\ UdpItem \in UdpGROItem
      /\ z \in DOMAIN bufs /\ b \in Buffer /\ UdpItem \in AllItems
      /\ UdpLast \in DOMAIN t[f] /\ UdpItem = t[f][UdpLast]
      /\ UdpLast = Len(t[f])
  BY <1>1, UdpFacts, UdpItemIn DEF IInv, UdpItem, UdpItems, UdpLast
<1>3. /\ f \in Flow /\ pkt_i \in Nat /\ f = pkts[pkt_i].flow
      /\ t \in [Flow -> Seq(UdpGROItem)]
  BY <1>2, PktFacts DEF IInv, TypeOK, Pkt
<1>4. z \in W
  BY <1>2, ItemPoints
<1>5. Sorted(pkts, bufs, W, S) /\ UpToLast(pkts, bufs, W, S, t)
  BY <1>1 DEF OrderInv, InGro
<1>6. /\ W \subseteq DOMAIN bufs
      /\ \A x \in W : x \in Nat /\ x < pkt_i /\ x # pkt_i
      /\ \A x \in W : \A j \in DOMAIN bufs[x].segs :
           bufs[x].segs[j] \in Nat /\ bufs[x].segs[j] < pkt_i
  BY <1>1, HeldBefore, WrittenFacts
<1>7. bufs' = [bufs EXCEPT ![z] = c]
  BY <1>2 DEF UdpAppend, IInv, TypeOK
<1>8. c.segs = Append(b.segs, pkt_i) /\ b.segs \in Seq(Nat)
  BY <1>2 DEF Buffer
<1>9. udp_gro_table' = u
  BY DEF UdpAppend, UdpItem, UdpItems
<1>10. new.bufs_index = z
  BY <1>2 DEF UdpGROItem
<1>11. UdpSet' = S
  BY <1>1, UdpSetSame
<1>12. W = ToSet(to_write') /\ pkts' = pkts
  BY <1>1
<1>13. \A i \in S : pkts[i].flow \in Flow
  BY <1>1, UdpSetSame
<1> HIDE DEF W, S, t, f, b, c, new
<1>14. bufs'[z] = c /\ \A x \in W : x # z => bufs'[x] = bufs[x]
  BY <1>2, <1>6, <1>7
<1>15. /\ DOMAIN c.segs = DOMAIN b.segs \cup {Len(b.segs) + 1}
       /\ c.segs[Len(b.segs) + 1] = pkt_i
       /\ \A j \in DOMAIN b.segs :
            c.segs[j] = b.segs[j] /\ j \in Nat /\ j < Len(b.segs) + 1
  BY <1>8
<1>16. Adds(bufs, bufs', W, W, pkt_i, z, Len(b.segs) + 1)
  BY <1>14, <1>15 DEF b, Adds
<1>17. /\ Len(u[f]) = Len(t[f]) /\ u[f][Len(t[f])] = new
       /\ \A g \in Flow : g # f => u[g] = t[g]
       /\ Len(t[f]) \in Nat /\ Len(t[f]) > 0
  BY <1>2, <1>3
<1> HIDE DEF u
<1>18. \A x : \A g \in Flow : UpTo(t, g, x) => UpTo(u, g, x)
  BY <1>2, <1>10, <1>17 DEF UpTo
<1>19. LastOf(pkts, bufs, W, S, pkt_i, z, Len(b.segs) + 1)
  <2> SUFFICES ASSUME NEW x \in W, NEW j \in DOMAIN bufs[x].segs,
                      bufs[x].segs[j] \in S, pkts[bufs[x].segs[j]].flow = f
               PROVE  x < z \/ (x = z /\ j < Len(b.segs) + 1)
    BY <1>3, <1>6 DEF LastOf
  <2>1. x <= z
    BY <1>2, <1>5 DEF UpToLast, UpTo
  <2>2. x = z => j < Len(b.segs) + 1
    BY <1>15 DEF b
  <2> QED BY <1>4, <1>6, <2>1, <2>2
<1>20. Sorted(pkts, bufs', W, S)
  BY <1>3, <1>5, <1>16, <1>19, SortedAdd
<1>21. UpToLast(pkts, bufs', W, S, u)
  <2>1. UpTo(u, pkts[pkt_i].flow, z)
    BY <1>3, <1>4, <1>6, <1>10, <1>17 DEF UpTo
  <2>2. \A x \in W : \A j \in DOMAIN bufs'[x].segs : bufs'[x].segs[j] \in S =>
          \/ /\ x \in W
             /\ \E k \in DOMAIN bufs[x].segs : bufs[x].segs[k] = bufs'[x].segs[j]
          \/ UpTo(u, pkts[bufs'[x].segs[j]].flow, x)
    BY <1>16, <2>1 DEF Adds
  <2>3. \A x \in W : \A i \in S :
          UpTo(t, pkts[i].flow, x) => UpTo(u, pkts[i].flow, x)
    BY <1>13, <1>18
  <2> QED BY <1>5, <2>2, <2>3, UpToStep
<1> QED BY <1>1, <1>9, <1>11, <1>12, <1>20, <1>21 DEF OrderInv

(* Buffers with the content they had keep their datagrams. *)
LEMMA KeepsAll ==
  ASSUME IInv, \A x \in ToSet(to_write) : bufs'[x].segs = bufs[x].segs
  PROVE  \A x \in ToSet(to_write) : Keeps(bufs'[x].segs, bufs[x].segs, UdpSet)
<1> SUFFICES ASSUME NEW x \in ToSet(to_write)
             PROVE  Keeps(bufs'[x].segs, bufs[x].segs, UdpSet)
  OBVIOUS
<1>1. bufs[x] \in Buffer
  BY WrittenFacts, BufFacts DEF IInv
<1>2. bufs[x].segs \in Seq(Nat)
  BY <1>1 DEF Buffer
<1> QED BY <1>2, KeepsSame

(* A TCP segment is merged: it is not a datagram. *)
LEMMA OrderTcpMerge ==
  ASSUME IInv, OrderInv, ScanAppend \/ ScanPrepend
  PROVE  OrderInv'
<1> DEFINE z == TcpItem.bufs_index
           S == UdpSet
           c == bufs'[z].segs
           b == bufs[z].segs
<1>1. /\ Scanning /\ InGro /\ UNCHANGED <<dev, pkts, to_write, udp_gro_table>>
  BY DEF ScanAppend, ScanPrepend, TcpMerge, Coalesced, call, Scanning, InGro
<1>2. /\ z \in DOMAIN bufs /\ bufs[z] \in Buffer
      /\ pkt_i \in DOMAIN pkts /\ pkt_i \in Nat /\ IsTcp(Pkt)
  BY <1>1, ScanFacts DEF IInv, TypeOK
<1>3. pkt_i \notin S
  BY <1>2 DEF IsTcp, IsUdp, UdpSet, Pkt
<1>4. /\ pkt_i \in DOMAIN bufs /\ bufs[pkt_i] \in Buffer
      /\ bufs[pkt_i].segs = <<pkt_i>>
  BY <1>1, <1>2, FreshBuf
<1>5. /\ ToSet(to_write) \subseteq DOMAIN bufs /\ z # pkt_i
      /\ \A x \in ToSet(to_write) : x # pkt_i
  BY <1>1, WrittenFacts, TcpItemIn, ItemPoints
<1>6. \A x \in ToSet(to_write) : x # z => bufs'[x].segs = bufs[x].segs
  BY <1>2, <1>5 DEF ScanAppend, ScanPrepend, SwapIn
<1>7. c = Append(b, pkt_i) \/ c = <<pkt_i>> \o b
  <2>1. CASE ScanAppend
    <3>1. bufs'[z] = AppendedBuf(bufs[z])
      BY <1>2, <2>1 DEF ScanAppend
    <3> QED BY <1>2, <3>1 DEF AppendedBuf, Buffer
  <2>2. CASE ScanPrepend
    <3>1. bufs'[z] = PrependedBuf(bufs[pkt_i], bufs[z])
      BY <1>2, <1>4, <1>5, <2>2 DEF ScanPrepend, SwapIn
    <3> QED BY <1>4, <3>1 DEF PrependedBuf, Buffer
  <2> QED BY <2>1, <2>2
<1>8. b \in Seq(Nat)
  BY <1>2 DEF Buffer
<1> HIDE DEF c, b, S
<1>9. Keeps(c, b, S)
  <2>1. Keeps(Append(b, pkt_i), b, S)
    BY <1>2, <1>3, <1>8, KeepsBehind
  <2>2. Keeps(<<pkt_i>> \o b, b, S)
    BY <1>2, <1>3, <1>8, KeepsBefore
  <2> QED BY <1>7, <2>1, <2>2
<1>10. ASSUME NEW x \in ToSet(to_write)
       PROVE  Keeps(bufs'[x].segs, bufs[x].segs, UdpSet)
  <2>1. CASE x = z
    BY <1>9, <2>1 DEF c, b, S
  <2>2. CASE x # z
    <3>1. bufs[x] \in Buffer
      BY <1>5, BufFacts DEF IInv
    <3>2. bufs[x].segs \in Seq(Nat) /\ bufs'[x].segs = bufs[x].segs
      BY <1>6, <2>2, <3>1 DEF Buffer
    <3> QED BY <3>2, KeepsSame
  <2> QED BY <2>1, <2>2
<1> QED BY <1>1, <1>10, OrderKept

(* Every step inside a call keeps the order. *)
LEMMA OrderStep ==
  ASSUME IInv, PacketInv, OrderInv, InCall
  PROVE  OrderInv'
<1>1. CASE GroNoop \/ ScanPktInvalid \/ ScanInsert
  BY <1>1, OrderNotUdp
<1>2. CASE UdpInsert
  BY <1>2, OrderUdpInsert
<1>3. CASE UdpAppend
  BY <1>3, OrderUdpAppend
<1>4. CASE ScanAppend \/ ScanPrepend
  BY <1>4, OrderTcpMerge
<1>5. CASE ScanItemInvalid
  <2>1. /\ Scanning /\ InGro /\ UNCHANGED <<dev, pkts, to_write, udp_gro_table>>
        /\ bufs' = ZeroHeader(TcpItem.bufs_index)
    BY <1>5 DEF ScanItemInvalid, call, Scanning, InGro
  <2>2. /\ TcpItem.bufs_index \in DOMAIN bufs
        /\ bufs[TcpItem.bufs_index] \in Buffer
    BY <2>1, ScanFacts DEF IInv
  <2>3. \A x \in ToSet(to_write) : bufs'[x].segs = bufs[x].segs
    BY <2>1, <2>2, WrittenFacts DEF ZeroHeader, Buffer
  <2> QED BY <2>1, <2>3, KeepsAll, OrderKept
<1>6. CASE GroInvalidOffset \/ TcpLookup \/ ScanSkip
  <2>1. /\ InGro /\ UNCHANGED <<dev, pkts, to_write, udp_gro_table, bufs>>
    BY <1>6 DEF GroInvalidOffset, TcpLookup, ScanSkip, Scanning, InLoop, Return,
                InGro, call, tables
  <2>2. \A x \in ToSet(to_write) : bufs'[x].segs = bufs[x].segs
    BY <2>1
  <2> QED BY <2>1, <2>2, KeepsAll, OrderKept
<1>7. CASE GroAccount
  <2>1. /\ InGro /\ UNCHANGED <<dev, pkts, to_write, udp_gro_table>>
        /\ \A j \in DOMAIN bufs : bufs'[j].segs = bufs[j].segs
    BY <1>7, AccountBufs DEF tables
  <2>2. \A x \in ToSet(to_write) : bufs'[x].segs = bufs[x].segs
    BY <2>1, WrittenFacts
  <2> QED BY <2>1, <2>2, KeepsAll, OrderKept
<1>8. CASE WritingOut \/ Cancel \/ UNCHANGED vars
  <2>1. /\ UNCHANGED <<dev, pkts, to_write, udp_gro_table, bufs>>
        /\ pc' = pc \/ pc' = "idle"
    BY <1>8 DEF WritingOut, WriteInvalidOffset, Write, WriteBadFd, Finish,
                Cancel, Writing, Return, unchangedByWrite, call, tables, vars
  <2>2. UdpSet' = UdpSet
    BY <2>1, UdpSetSame
  <2> QED BY <2>1, <2>2 DEF OrderInv, InGro, Sorted, UpToLast, UpTo
<1> QED BY <1>1, <1>2, <1>3, <1>4, <1>5, <1>6, <1>7, <1>8
        DEF InCall, Running, Coalescing

(* Entering a call. *)
LEMMA OrderCall ==
  ASSUME Calling
  PROVE  OrderInv'
<1>1. dev' = dev /\ (pc' = "gro" => to_write' = <<>>)
      /\ pc' \in {"idle", "gro", "write"}
      /\ (pc' = "write" => ~dev.vnet_hdr)
  BY DEF Calling, CallEmpty, CallTooMany, CallGro, CallPlain, Enter, Return
<1>2. pc' = "gro" => ToSet(to_write') = {}
  BY <1>1 DEF ToSet
<1> QED BY <1>1, <1>2 DEF OrderInv, InGro, Sorted, UpToLast

(* UdpGroOrder: datagrams that enter the UDP table leave in the order the  *)
(* caller passed them, within each flow: a datagram is appended to the     *)
(* last item of its flow only, and the items of a flow point at buffers in *)
(* the order of writing.                                                   *)
THEOREM DatagramsInOrder == Spec => []UdpGroOrder
<1> DEFINE OInv == DInv /\ OrderInv
<1>1. Init => OInv
  BY InitDInv DEF Init, OrderInv, InGro
<1>2. OInv /\ [Next]_vars => OInv'
  <2> SUFFICES ASSUME DInv, OrderInv, [Next]_vars PROVE DInv' /\ OrderInv'
    OBVIOUS
  <2>1. IInv /\ PacketInv /\ DInv'
    BY NextDInv DEF DInv, PacketInv
  <2>2. OrderInv'
    BY <2>1, OrderStep, OrderCall DEF Next, InCall
  <2> QED BY <2>1, <2>2
<1>3. OInv => UdpGroOrder
  <2> SUFFICES ASSUME DInv, OrderInv, pc = "write", dev.vnet_hdr,
                      NEW v \in DOMAIN to_write, NEW w \in DOMAIN to_write,
                      NEW j \in DOMAIN Emitted(v).segs,
                      NEW k \in DOMAIN Emitted(w).segs,
                      LET a == Emitted(v).segs[j]
                          b == Emitted(w).segs[k]
                      IN  /\ IsUdp(pkts[a]) /\ Mergeable(pkts[a])
                          /\ IsUdp(pkts[b]) /\ Mergeable(pkts[b])
                          /\ pkts[a].flow = pkts[b].flow
                          /\ a < b
               PROVE  v < w \/ (v = w /\ j < k)
    BY DEF UdpGroOrder, InOrder
  <2>1. Placed(bufs, ToSet(to_write), DOMAIN pkts)
    BY DEF DInv, OnceInv, Busy, Handled
  <2>2. /\ to_write[v] \in ToSet(to_write) /\ to_write[w] \in ToSet(to_write)
        /\ Emitted(v) = bufs[to_write[v]] /\ Emitted(w) = bufs[to_write[w]]
    BY DEF ToSet, Emitted
  <2>3. Emitted(v).segs[j] \in UdpSet /\ Emitted(w).segs[k] \in UdpSet
    BY <2>1, <2>2 DEF Placed, UdpSet
  <2>4. to_write[v] < to_write[w] \/ (to_write[v] = to_write[w] /\ j < k)
    BY <2>2, <2>3 DEF OrderInv, Sorted
  <2>5. /\ v \in Nat /\ w \in Nat /\ to_write[v] \in Nat /\ to_write[w] \in Nat
        /\ (v < w => to_write[v] < to_write[w])
        /\ (w < v => to_write[w] < to_write[v])
    BY DEF DInv, IInv, WriteInv, TypeOK
  <2> QED BY <2>4, <2>5
<1> QED BY <1>1, <1>2, <1>3, PTL DEF Spec
=============================================================================
