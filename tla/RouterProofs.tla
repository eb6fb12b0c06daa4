----------------------------- MODULE RouterProofs -----------------------------
(* Proofs about three parts of a router: Lan, for any set of ids of VPN    *)
(* rows, Telemetry, for any number of rows, bytes and reboots, and         *)
(* RemoteAccess, for any number of operators and changes.                  *)
EXTENDS Lan, Telemetry, RemoteAccess, SequenceTheorems, TLAPS

(* Lan.  Large numbers stay behind the names Slot and Network.             *)

Slot(id) == (id % MaxAllocatable24s) + 1
Network(slot) == 167772160 + 256 * slot
Joined(d, m) == Address(10, d, m, 0)

LEMMA SlotRange ==
  ASSUME NEW i \in Nat
  PROVE  Slot(i) \in Nat /\ 0 < Slot(i) /\ Slot(i) <= 65535
<1>1. i % 65535 \in Nat /\ i % 65535 < 65535
  BY SMT
<1> QED BY <1>1, SMT DEF Slot, MaxAllocatable24s

(* A slot splits into two octets, neither of which wraps. *)
LEMMA Octets ==
  ASSUME NEW slot \in Nat, slot <= 65535
  PROVE  /\ (slot \div 256) % 256 = slot \div 256
         /\ slot = 256 * (slot \div 256) + (slot % 256)
         /\ slot \div 256 \in Nat
         /\ slot % 256 \in Nat
<1>1. slot \div 256 \in Nat /\ slot \div 256 < 256
  BY SMT
<1>2. (slot \div 256) % 256 = slot \div 256
  <2>1. \A x \in Nat : x < 256 => x % 256 = x
    BY SMT
  <2> QED BY <1>1, <2>1
<1>3. slot = 256 * (slot \div 256) + (slot % 256) /\ slot % 256 \in Nat
  BY SMT
<1> QED BY <1>1, <1>2, <1>3

LEMMA JoinedOctets ==
  ASSUME NEW slot \in Nat, NEW d \in Nat, NEW m \in Nat, slot = 256 * d + m
  PROVE  Joined(d, m) = Network(slot)
BY SMT DEF Joined, Network, Address

(* The network of an id is that of its slot. *)
LEMMA SlotNetwork ==
  ASSUME NEW i \in Nat
  PROVE  AllocateLANCidr(i) = Network(Slot(i))
<1>1. AllocateLANCidr(i) = Joined((Slot(i) \div 256) % 256, Slot(i) % 256)
  BY DEF AllocateLANCidr, Slot, Joined
<1>2. \A slot \in Nat : slot <= 65535 =>
        Joined((slot \div 256) % 256, slot % 256) = Network(slot)
  <2> TAKE slot \in Nat
  <2> HAVE slot <= 65535
  <2>1. /\ (slot \div 256) % 256 = slot \div 256
        /\ slot = 256 * (slot \div 256) + (slot % 256)
        /\ slot \div 256 \in Nat
        /\ slot % 256 \in Nat
    BY Octets
  <2> QED BY <2>1, JoinedOctets
<1>3. Slot(i) \in Nat /\ Slot(i) <= 65535
  BY SlotRange
<1> QED BY <1>1, <1>2, <1>3

LEMMA NetworksApart ==
  ASSUME NEW m \in Nat, NEW n \in Nat, m # n
  PROVE  LastIP(Network(m)) < Network(n) \/ LastIP(Network(n)) < Network(m)
BY SMT DEF LastIP, Size, Network

(* Two ids less than 65535 apart have different slots. *)
LEMMA SlotsApart ==
  ASSUME NEW i \in Nat, NEW j \in Nat, i < j, j < i + MaxAllocatable24s
  PROVE  Slot(i) # Slot(j)
<1>1. i % 65535 # j % 65535 /\ i % 65535 \in Nat /\ j % 65535 \in Nat
  BY SMT DEF MaxAllocatable24s
<1> QED BY <1>1, SMT DEF Slot, MaxAllocatable24s

------------------------------------------------------------------------------
(* A row has no network or the one of its slot. *)
LanInv ==
  lanOf \in [VPNId -> Nat] /\ \A i \in VPNId : lanOf[i] \in {0, Network(Slot(i))}

LEMMA LanInvariant == LanSpec => []LanInv
<1>1. LanInit => LanInv
  BY DEF LanInit, LanInv
<1>2. LanInv /\ [LanNext]_lanVars => LanInv'
  <2> SUFFICES ASSUME LanInv, [LanNext]_lanVars PROVE LanInv'
    OBVIOUS
  <2>1. CASE UNCHANGED lanVars
    BY <2>1 DEF LanInv, lanVars
  <2>2. CASE LanNext
    <3> PICK id \in VPNId : Backfill(id)
      BY <2>2 DEF LanNext
    <3>1. id \in Nat
      BY LanAssumption
    <3>2. Slot(id) \in Nat
      BY <3>1, SlotRange
    <3>3. Network(Slot(id)) \in Nat
      BY <3>2, SMT DEF Network
    <3>4. lanOf' = [lanOf EXCEPT ![id] = Network(Slot(id))]
      BY <3>1, SlotNetwork DEF Backfill
    <3> QED BY <3>3, <3>4 DEF LanInv
  <2> QED BY <2>1, <2>2
<1> QED BY <1>1, <1>2, PTL DEF LanSpec

(* "No two VPN rows ever receive the same /24", for ids that are less than *)
(* 65535 apart: their networks share no address.                           *)
THEOREM LansAreApart == LanSpec => []LansApart
<1>1. LanInv => LansApart
  <2> SUFFICES ASSUME LanInv, NEW i \in VPNId, NEW j \in VPNId,
                      i < j, j < i + MaxAllocatable24s, lanOf[i] # 0, lanOf[j] # 0
               PROVE  LastIP(lanOf[i]) < lanOf[j] \/ LastIP(lanOf[j]) < lanOf[i]
    BY DEF LansApart
  <2>1. i \in Nat /\ j \in Nat
    BY LanAssumption
  <2>2. lanOf[i] = Network(Slot(i)) /\ lanOf[j] = Network(Slot(j))
    BY DEF LanInv
  <2>3. Slot(i) \in Nat /\ Slot(j) \in Nat /\ Slot(i) # Slot(j)
    BY <2>1, SlotRange, SlotsApart
  <2> QED BY <2>2, <2>3, NetworksApart
<1> QED BY <1>1, LanInvariant, PTL

(* A network is inside 10.0.0.0/8, never the reserved one, holds a gateway *)
(* and a pool in that order, and is the VPN's own for one id in 65535.     *)
THEOREM LansAreInOrder == LanSpec => []LanInOrder
<1>1. LanInv => LanInOrder
  <2> SUFFICES ASSUME LanInv, NEW i \in VPNId, lanOf[i] # 0
               PROVE
      LET lan == ResolveLAN(lanOf[i]) IN
      /\ Infra < lan.network /\ lan.network < lan.gateway
      /\ lan.gateway < lan.poolStart /\ lan.poolStart < lan.poolEnd
      /\ lan.poolEnd < LastIP(lan.network) /\ LastIP(lan.network) < Address(11, 0, 0, 0)
      /\ lan.network = VPNSubnet <=> i % MaxAllocatable24s = 2559
    BY DEF LanInOrder
  <2> DEFINE n == lanOf[i]
             slot == Slot(i)
  <2>1. i \in Nat
    BY LanAssumption
  <2>2. n = Network(slot) /\ slot \in Nat /\ 0 < slot /\ slot <= 65535
    BY <2>1, SlotRange DEF LanInv
  <2>3. n \in Nat /\ Infra < n /\ LastIP(n) < Address(11, 0, 0, 0)
    BY <2>2, SMT DEF Network, Infra, LastIP, Size, Address
  <2>4. n = VPNSubnet <=> i % MaxAllocatable24s = 2559
    <3>1. i % 65535 \in Nat
      BY <2>1, SMT
    <3> QED
      BY <2>2, <3>1, SMT DEF Network, Slot, VPNSubnet, Address, MaxAllocatable24s
  <2>5. /\ n < IncIP(n, 1)
        /\ IncIP(n, 1) < IncIP(n, 1 + ReservedForStatic)
        /\ IncIP(n, 1 + ReservedForStatic) < IncIP(LastIP(n), -1)
        /\ IncIP(LastIP(n), -1) < LastIP(n)
    BY <2>3, SMT DEF IncIP, LastIP, Size, ReservedForStatic
  <2> QED BY <2>3, <2>4, <2>5 DEF ResolveLAN
<1> QED BY <1>1, LanInvariant, PTL

-----------------------------------------------------------------------------
(* Telemetry.                                                              *)

StatRow == [pc : {"wait", "traffic", "store"}, bytes : Nat, read : BOOLEAN,
            at : Nat, boot : Nat]

(* How a row's counters stand to the router's of now: what was carried     *)
(* since is what the counter grew by, or, after a reboot, all it shows and *)
(* perhaps more.                                                           *)
Behind(r) ==
  r.read =>
    /\ r.boot <= reboots /\ r.at <= carried
    /\ r.boot = reboots => carried - r.at = counter - r.bytes
    /\ r.boot # reboots => counter <= carried - r.at

(* The same between a row and a later one. *)
Consistent(r, q) ==
  (r.read /\ q.read) =>
    /\ r.at <= q.at
    /\ r.boot = q.boot => q.at - r.at = q.bytes - r.bytes
    /\ r.boot # q.boot => q.bytes <= q.at - r.at

TeleInv ==
  /\ counter \in Nat /\ carried \in Nat /\ reboots \in Nat
  /\ sample \in StatRow /\ Behind(sample)
  /\ stats \in Seq(StatRow)
  /\ \A i \in 1..Len(stats) : Behind(stats[i]) /\ Consistent(stats[i], sample)
  /\ \A i, j \in 1..Len(stats) : i < j => Consistent(stats[i], stats[j])

LEMMA StatRowIs ==
  \A r \in StatRow : r.bytes \in Nat /\ r.at \in Nat /\ r.boot \in Nat
  BY DEF StatRow

LEMMA UnreadSample ==
  /\ NoSample \in StatRow /\ ~NoSample.read
  /\ \A c \in {"traffic", "store"} :
       LET d == [NoSample EXCEPT !.pc = c] IN d \in StatRow /\ ~d.read
<1>1. NoSample \in StatRow /\ ~NoSample.read
  BY DEF NoSample, StatRow
<1>2. \A r \in StatRow, c \in {"traffic", "store"} :
        LET d == [r EXCEPT !.pc = c] IN d \in StatRow /\ d.read = r.read
  BY DEF StatRow
<1>3. QED
  BY <1>1, <1>2

(* The router's counters move on; rows keep their places behind them. *)
LEMMA CountersMove ==
  ASSUME TeleInv, UNCHANGED <<sample, stats>>, counter' \in Nat, carried' \in Nat, reboots' \in Nat,
         \A r \in StatRow : Behind(r) => Behind(r)'
  PROVE  TeleInv'
<1>1. \A i \in 1..Len(stats) : Behind(stats[i])'
  BY DEF TeleInv, Behind
<1>2. Behind(sample)'
  BY DEF TeleInv, Behind
<1>3. \A i, j \in 1..Len(stats) : i < j => Consistent(stats[i], stats[j])'
  BY DEF TeleInv, Consistent
<1>4. \A i \in 1..Len(stats) : Consistent(stats[i], sample)'
  BY DEF TeleInv, Consistent
<1>5. QED
  BY <1>1, <1>2, <1>3, <1>4 DEF TeleInv

LEMMA CarryInv == ASSUME TeleInv, Carry PROVE TeleInv'
<1>1. /\ counter' = counter + 1 /\ carried' = carried + 1 /\ reboots' = reboots
      /\ counter \in Nat /\ carried \in Nat /\ reboots \in Nat
  BY DEF Carry, TeleInv
<1>2. \A r \in StatRow : Behind(r) => Behind(r)'
  BY <1>1, StatRowIs DEF Behind
<1>3. QED
  BY <1>1, <1>2, CountersMove DEF Carry

LEMMA RebootInv == ASSUME TeleInv, Reboot PROVE TeleInv'
<1>1. /\ counter' = 0 /\ carried' = carried /\ reboots' = reboots + 1
      /\ counter \in Nat /\ carried \in Nat /\ reboots \in Nat
  BY DEF Reboot, TeleInv
<1>2. \A r \in StatRow : Behind(r) => Behind(r)'
  BY <1>1, StatRowIs DEF Behind
<1>3. QED
  BY <1>1, <1>2, CountersMove DEF Reboot

(* The poller goes on without having read the counters. *)
LEMMA SampleMoves ==
  ASSUME TeleInv, UNCHANGED <<counter, carried, reboots, stats>>,
         NEW d \in StatRow, sample' = d, Behind(d), \A i \in 1..Len(stats) : Consistent(stats[i], d)
  PROVE  TeleInv'
<1>1. \A i \in 1..Len(stats) : Behind(stats[i])' /\ Consistent(stats[i], sample)'
  BY DEF TeleInv, Behind, Consistent
<1>2. Behind(sample)'
  BY DEF Behind
<1>3. \A i, j \in 1..Len(stats) : i < j => Consistent(stats[i], stats[j])'
  BY DEF TeleInv, Consistent
<1>4. QED
  BY <1>1, <1>2, <1>3 DEF TeleInv

LEMMA PollTrafficInv == ASSUME TeleInv, PollTraffic PROVE TeleInv'
<1>1. CASE sample' = [NoSample EXCEPT !.pc = "store"]
  <2>1. PICK d \in StatRow : sample' = d /\ ~d.read
    BY <1>1, UnreadSample
  <2>2. Behind(d) /\ \A i \in 1..Len(stats) : Consistent(stats[i], d)
    BY <2>1 DEF Behind, Consistent
  <2>3. QED
    BY <2>1, <2>2, SampleMoves DEF PollTraffic
<1>2. CASE sample' = [pc |-> "store", bytes |-> counter, read |-> TRUE,
                      at |-> carried, boot |-> reboots]
  <2>1. counter \in Nat /\ carried \in Nat /\ reboots \in Nat
    BY DEF TeleInv
  <2>2. PICK d \in StatRow : /\ sample' = d /\ d.bytes = counter /\ d.read
                             /\ d.at = carried /\ d.boot = reboots
    <3> DEFINE d == [pc |-> "store", bytes |-> counter, read |-> TRUE,
                     at |-> carried, boot |-> reboots]
    <3>1. d \in StatRow
      BY <2>1 DEF StatRow
    <3>2. d.bytes = counter /\ d.read /\ d.at = carried /\ d.boot = reboots
      OBVIOUS
    <3> HIDE DEF d
    <3>3. QED
      BY <1>2, <3>1, <3>2 DEF d
  <2>3. Behind(d)
    BY <2>1, <2>2 DEF Behind
  <2>4. \A i \in 1..Len(stats) : Consistent(stats[i], d)
    BY <2>1, <2>2 DEF Consistent, Behind, TeleInv
  <2>5. QED
    BY <2>2, <2>3, <2>4, SampleMoves DEF PollTraffic
<1>3. QED
  BY <1>1, <1>2 DEF PollTraffic

LEMMA PollResourceInv == ASSUME TeleInv, PollResource PROVE TeleInv'
<1>1. PICK d \in StatRow : sample' = d /\ ~d.read
  BY UnreadSample DEF PollResource
<1>2. Behind(d) /\ \A i \in 1..Len(stats) : Consistent(stats[i], d)
  BY <1>1 DEF Behind, Consistent
<1>3. QED
  BY <1>1, <1>2, SampleMoves DEF PollResource

LEMMA StoreStatInv == ASSUME TeleInv, StoreStat PROVE TeleInv'
<1>1. /\ NoSample \in StatRow /\ Behind(NoSample)
      /\ \A r : Consistent(r, NoSample)
  BY UnreadSample DEF Behind, Consistent
<1>2. CASE UNCHANGED stats
  BY <1>1, <1>2, SampleMoves DEF StoreStat
<1>3. CASE stats' = Append(stats, sample)
  <2>1. /\ stats \in Seq(StatRow) /\ sample \in StatRow /\ Len(stats) \in Nat
        /\ UNCHANGED <<counter, carried, reboots>> /\ sample' = NoSample
    BY DEF StoreStat, TeleInv
  <2>2. /\ stats' \in Seq(StatRow) /\ Len(stats') = Len(stats) + 1
        /\ stats'[Len(stats) + 1] = sample
        /\ \A i \in 1..Len(stats) : stats'[i] = stats[i]
    BY <1>3, <2>1
  <2>3. \A i \in 1..Len(stats') : i \in 1..Len(stats) \/ i = Len(stats) + 1
    BY <2>1, <2>2
  <2>4. \A i \in 1..Len(stats') : Behind(stats'[i])
    BY <2>2, <2>3 DEF TeleInv
  <2>5. \A i \in 1..Len(stats') : Behind(stats[i])' /\ Consistent(stats[i], sample)'
    BY <1>1, <2>1, <2>4 DEF Behind, Consistent
  <2>6. \A i, j \in 1..Len(stats') : i < j => Consistent(stats'[i], stats'[j])
    <3> SUFFICES ASSUME NEW i \in 1..Len(stats'), NEW j \in 1..Len(stats'), i < j
                 PROVE  Consistent(stats'[i], stats'[j])
      OBVIOUS
    <3>1. i \in 1..Len(stats)
      BY <2>1, <2>2
    <3>2. j \in 1..Len(stats) \/ j = Len(stats) + 1
      BY <2>3
    <3>3. QED
      BY <2>2, <3>1, <3>2 DEF TeleInv
  <2>7. Behind(sample)'
    BY <1>1, <2>1 DEF Behind
  <2>8. QED
    BY <1>1, <2>1, <2>2, <2>5, <2>6, <2>7 DEF TeleInv, Consistent
<1>4. QED
  BY <1>2, <1>3 DEF StoreStat

(* The rows without the first n. *)
LEMMA NewestRows ==
  ASSUME NEW s \in Seq(StatRow), NEW n \in Nat, n <= Len(s)
  PROVE  LET t == SubSeq(s, n + 1, Len(s)) IN
         /\ t \in Seq(StatRow) /\ Len(t) = Len(s) - n
         /\ \A i \in 1..Len(t) : n + i \in 1..Len(s) /\ t[i] = s[n + i]
<1> DEFINE t == SubSeq(s, n + 1, Len(s))
<1>1. Len(s) \in Nat /\ n + 1 \in Int /\ \A i \in (n + 1)..Len(s) : s[i] \in StatRow
  OBVIOUS
<1>2. /\ t \in Seq(StatRow)
      /\ Len(t) = IF n + 1 <= Len(s) THEN Len(s) - (n + 1) + 1 ELSE 0
      /\ \A i \in 1..(Len(s) - (n + 1) + 1) : t[i] = s[(n + 1) + i - 1]
  BY <1>1, SubSeqProperties
<1> HIDE DEF t
<1>3. Len(t) = Len(s) - n
  BY <1>1, <1>2
<1>4. ASSUME NEW i \in 1..Len(t) PROVE n + i \in 1..Len(s) /\ t[i] = s[n + i]
  <2>1. i \in 1..(Len(s) - (n + 1) + 1) /\ (n + 1) + i - 1 = n + i
    BY <1>1, <1>3
  <2>2. n + i \in 1..Len(s)
    BY <1>1, <1>3
  <2>3. t[i] = s[(n + 1) + i - 1]
    BY <1>2, <2>1
  <2>4. QED
    BY <2>1, <2>2, <2>3
<1>5. QED
  BY <1>2, <1>3, <1>4 DEF t

(* Pruning keeps the newest rows in their order. *)
LEMMA PruneInv == ASSUME TeleInv, NEW n \in Nat, PruneOldStats(n) PROVE TeleInv'
<1>1. /\ stats \in Seq(StatRow) /\ Len(stats) \in Nat /\ n <= Len(stats)
      /\ UNCHANGED <<counter, carried, reboots, sample>>
      /\ stats' = SubSeq(stats, n + 1, Len(stats))
  BY DEF PruneOldStats, TeleInv
<1>2. /\ stats' \in Seq(StatRow) /\ Len(stats') = Len(stats) - n
      /\ \A i \in 1..Len(stats') : n + i \in 1..Len(stats) /\ stats'[i] = stats[n + i]
  BY <1>1, NewestRows
<1>3. \A i \in 1..Len(stats') : Behind(stats'[i]) /\ Consistent(stats'[i], sample)
  BY <1>2 DEF TeleInv
<1>4. \A i \in 1..Len(stats') : Behind(stats[i])' /\ Consistent(stats[i], sample)'
  BY <1>1, <1>3 DEF Behind, Consistent
<1>5. \A i, j \in 1..Len(stats') : i < j => Consistent(stats[i], stats[j])'
  <2> SUFFICES ASSUME NEW i \in 1..Len(stats'), NEW j \in 1..Len(stats'), i < j
               PROVE  Consistent(stats'[i], stats'[j])
    BY DEF Consistent
  <2>1. n + i < n + j
    BY <1>1, <1>2
  <2>2. QED
    BY <1>2, <2>1 DEF TeleInv
<1>6. Behind(sample)'
  BY <1>1 DEF TeleInv, Behind
<1>7. QED
  BY <1>1, <1>2, <1>4, <1>5, <1>6 DEF TeleInv

LEMMA TelemetryInvariant == TelemetryInit /\ [][TelemetryNext]_teleVars => []TeleInv
<1>1. TelemetryInit => TeleInv
  BY UnreadSample DEF TelemetryInit, TeleInv, Behind, Consistent
<1>2. TeleInv /\ [TelemetryNext]_teleVars => TeleInv'
  <2> SUFFICES ASSUME TeleInv, [TelemetryNext]_teleVars PROVE TeleInv'
    OBVIOUS
  <2>1. CASE UNCHANGED teleVars
    BY <2>1 DEF teleVars, TeleInv, Behind, Consistent
  <2>2. ASSUME NEW n \in 1..MaxSamples, PruneOldStats(n) PROVE TeleInv'
    BY <2>2, PruneInv
  <2>3. QED
    BY <2>1, <2>2, CarryInv, RebootInv, PollResourceInv, PollTrafficInv, StoreStatInv
    DEF TelemetryNext
<1>3. QED
  BY <1>1, <1>2, PTL

(* The rows of the chart keep their order, however many the table holds. *)
LEMMA SeriesIs ==
  ASSUME TeleInv
  PROVE  /\ Len(Series) \in Nat
         /\ \A i \in 1..Len(Series) : Series[i] \in StatRow
         /\ \A i, j \in 1..Len(Series) : i < j => Consistent(Series[i], Series[j])
<1>1. stats \in Seq(StatRow) /\ Len(stats) \in Nat
  BY DEF TeleInv
<1>2. CASE Len(stats) <= HistoryLimit
  BY <1>1, <1>2 DEF Series, TeleInv
<1>3. CASE ~(Len(stats) <= HistoryLimit)
  <2>1. PICK n \in Nat : n = Len(stats) - HistoryLimit /\ n <= Len(stats)
    BY <1>1, <1>3, TelemetryAssumption
  <2>2. Series = SubSeq(stats, n + 1, Len(stats))
    BY <1>3, <2>1 DEF Series
  <2>3. /\ Series \in Seq(StatRow) /\ Len(Series) = Len(stats) - n
        /\ \A i \in 1..Len(Series) : n + i \in 1..Len(stats) /\ Series[i] = stats[n + i]
    BY <1>1, <2>1, <2>2, NewestRows
  <2> HIDE DEF Series
  <2>4. Len(Series) \in Nat /\ \A i, j \in 1..Len(Series) : i < j => n + i < n + j
    BY <1>1, <2>1, <2>3
  <2>5. ASSUME NEW i \in 1..Len(Series), NEW j \in 1..Len(Series), i < j
        PROVE  Consistent(Series[i], Series[j])
    BY <2>3, <2>4, <2>5 DEF TeleInv
  <2>6. \A i \in 1..Len(Series) : Series[i] \in StatRow
    BY <2>3
  <2>7. QED
    BY <2>4, <2>5, <2>6
<1>4. QED
  BY <1>2, <1>3

(* However the router reboots and rows are pruned, the chart shows between *)
(* two rows with counters no more than was carried, and exactly that when  *)
(* the router did not reboot between them.                                 *)
THEOREM ChartsAreTrue == TelemetryInit /\ [][TelemetryNext]_teleVars => []ChartIsTrue
<1>1. TeleInv => ChartIsTrue
  <2> SUFFICES ASSUME TeleInv, NEW i \in 2..Len(Series), Series[i].read, Series[i - 1].read
               PROVE  /\ Download(i) <= Series[i].at - Series[i - 1].at
                      /\ Series[i].boot = Series[i - 1].boot =>
                           Download(i) = Series[i].at - Series[i - 1].at
    BY DEF ChartIsTrue
  <2>1. Len(Series) \in Nat /\ i \in 1..Len(Series) /\ i - 1 \in 1..Len(Series) /\ i - 1 < i /\ i # 1
    BY SeriesIs
  <2>2. PICK r \in StatRow : r = Series[i - 1]
    BY <2>1, SeriesIs
  <2>3. PICK q \in StatRow : q = Series[i]
    BY <2>1, SeriesIs
  <2>4. Consistent(r, q)
    BY <2>1, <2>2, <2>3, SeriesIs
  <2>5. Download(i) = IF q.bytes < r.bytes THEN 0 ELSE q.bytes - r.bytes
    BY <2>1, <2>2, <2>3 DEF Download
  <2>6. QED
    BY <2>2, <2>3, <2>4, <2>5, StatRowIs DEF Consistent
<1>2. QED
  BY <1>1, TelemetryInvariant, PTL

-----------------------------------------------------------------------------
(* Remote access.                                                          *)

FirewallRule == [id : Nat, kind : Port \cup {"block"}]
Order == [enabled : BOOLEAN, remove : SUBSET FirewallRule,
          add : {<<>>, <<"8291">>, <<"8728">>, <<"block">>, <<"8291", "8728">>},
          busy : BOOLEAN]

(* What the device has got to when nothing disturbed the request so far:   *)
(* what the request saw and has not removed, and what it added.            *)
Opening(c) ==
  \/ c.add = <<"8291", "8728">> /\ rules = c.remove
  \/ c.add = <<"8728">> /\ c.remove = {} /\ \E i \in Nat : rules = {Rule(i, "8291")}
  \/ /\ c.add = <<>> /\ c.remove = {}
     /\ \E i, j \in Nat : rules = {Rule(i, "8291"), Rule(j, "8728")}
Closing(c) ==
  /\ c.remove = {r \in rules : IsRemoteAccessRule(r)}
  /\ \/ c.add = <<>> /\ \E r \in rules : IsWanBlockRule(r)
     \/ c.add = <<"block">>
OnCourse(c) == c.busy /\ IF c.enabled THEN Opening(c) ELSE Closing(c)

RemoteTyped ==
  /\ rules \in SUBSET FirewallRule /\ lastId \in Nat /\ flag \in BOOLEAN
  /\ request \in [Operator -> Order]
  /\ alone \in Operator \cup {Nobody}
  /\ exact \in BOOLEAN

RemoteInv ==
  /\ RemoteTyped
  /\ alone \in Operator => OnCourse(request[alone])
  /\ OneRunRepairs

LEMMA Kinds ==
  ASSUME NEW r \in FirewallRule
  PROVE  /\ r.kind \in {"8291", "8728", "block"} /\ r.id \in Nat
         /\ IsRemoteAccessRule(r) <=> ~IsWanBlockRule(r)
  BY DEF FirewallRule, IsRemoteAccessRule, IsWanBlockRule, Port

LEMMA RuleIs ==
  ASSUME NEW i \in Nat, NEW k \in Port \cup {"block"}
  PROVE  Rule(i, k) \in FirewallRule /\ Rule(i, k).kind = k
  BY DEF Rule, FirewallRule

LEMMA OrderIs ==
  ASSUME NEW c \in Order
  PROVE  /\ c.enabled \in BOOLEAN /\ c.remove \in SUBSET FirewallRule /\ c.busy \in BOOLEAN
         /\ c.add \in {<<>>, <<"8291">>, <<"8728">>, <<"block">>, <<"8291", "8728">>}
  BY DEF Order

LEMMA OrderRemoves ==
  ASSUME NEW c \in Order, NEW r
  PROVE  LET d == [c EXCEPT !.remove = c.remove \ {r}] IN
         /\ d \in Order /\ d.enabled = c.enabled /\ d.busy = c.busy
         /\ d.remove = c.remove \ {r} /\ d.add = c.add
  BY DEF Order

LEMMA OrderAdds ==
  ASSUME NEW c \in Order, c.add # <<>>
  PROVE  /\ LET d == [c EXCEPT !.add = Tail(c.add)] IN
            /\ d \in Order /\ d.enabled = c.enabled /\ d.busy = c.busy
            /\ d.remove = c.remove /\ d.add = Tail(c.add)
         /\ Head(c.add) \in Port \cup {"block"}
<1>1. /\ Tail(c.add) \in {<<>>, <<"8728">>}
      /\ Head(c.add) \in Port \cup {"block"}
  <2>1. CASE c.add \in {<<"8291">>, <<"8728">>, <<"block">>}
    <3>1. PICK k \in Port \cup {"block"} : c.add = <<k>>
      BY <2>1 DEF Port
    <3>2. Tail(<<k>>) = <<>> /\ Head(<<k>>) = k
      OBVIOUS
    <3>3. QED
      BY <3>1, <3>2
  <2>2. CASE c.add = <<"8291", "8728">>
    BY <2>2 DEF Port
  <2>3. QED
    BY <2>1, <2>2, OrderIs
<1>2. QED
  BY <1>1 DEF Order

LEMMA NoneIs == None \in Order
  BY DEF None, Order

(* Two ports and no block, or the block and no port. *)
LEMMA Opened ==
  ASSUME NEW i \in Nat, NEW j \in Nat, rules = {Rule(i, "8291"), Rule(j, "8728")}
  PROVE  IsOpen /\ \E r \in rules : IsRemoteAccessRule(r)
<1>1. Rule(i, "8291").kind = "8291" /\ Rule(j, "8728").kind = "8728"
  BY DEF Rule
<1>2. {r.kind : r \in rules} = Port
  BY <1>1 DEF Port
<1>3. \A q, r \in rules : q.kind = r.kind => q = r
  BY <1>1
<1>4. QED
  BY <1>1, <1>2, <1>3 DEF IsOpen, IsRemoteAccessRule, Port

LEMMA Closed ==
  ASSUME rules \in SUBSET FirewallRule, {r \in rules : IsRemoteAccessRule(r)} = {},
         \E r \in rules : IsWanBlockRule(r)
  PROVE  IsClosed /\ ~\E r \in rules : IsRemoteAccessRule(r)
  BY Kinds DEF IsClosed

LEMMA AskInv ==
  ASSUME RemoteInv, NEW s \in Operator, NEW enabled \in BOOLEAN, Ask(s, enabled)
  PROVE  RemoteInv'
<1> DEFINE P == Plan(enabled, rules)
<1>1. /\ P \in Order /\ P.busy = TRUE /\ P.enabled = enabled
      /\ P.remove = {r \in rules : IsRemoteAccessRule(r) \/ (enabled /\ IsWanBlockRule(r))}
      /\ P.add = IF enabled THEN <<"8291", "8728">>
                 ELSE IF \E r \in rules : IsWanBlockRule(r) THEN <<>> ELSE <<"block">>
  BY DEF Plan, RemoteInv, RemoteTyped, Order
<1> PICK c \in Order : c = P
  BY <1>1
<1>2. request' = [request EXCEPT ![s] = c] /\ request'[s] = c
  BY DEF Ask, RemoteInv, RemoteTyped
<1>3. c.remove \subseteq rules /\ rules \in SUBSET FirewallRule
  BY <1>1 DEF RemoteInv, RemoteTyped
<1>4. OnCourse(c)
  <2>1. CASE enabled
    <3>1. c.remove = rules
      BY <1>1, <1>3, <2>1, Kinds
    <3>2. QED
      BY <1>1, <2>1, <3>1 DEF OnCourse, Opening
  <2>2. CASE ~enabled
    BY <1>1, <2>2 DEF OnCourse, Closing
  <2>3. QED
    BY <2>1, <2>2
<1>5. rules' = rules /\ flag' = flag /\ lastId' = lastId /\ exact' = exact
  BY DEF Ask
<1>6. alone' \in {s, Nobody}
  BY DEF Ask
<1>7. RemoteTyped'
  BY <1>2, <1>5, <1>6 DEF RemoteInv, RemoteTyped
<1>8. (alone \in Operator => OnCourse(request[alone]))'
  BY <1>2, <1>4, <1>5, <1>6, RemoteAssumption DEF OnCourse, Opening, Closing
<1>9. OneRunRepairs'
  BY <1>5 DEF RemoteInv, OneRunRepairs, IsOpen, IsClosed, GetRemoteAccess
<1>10. QED
  BY <1>7, <1>8, <1>9 DEF RemoteInv

(* The undisturbed request executes its next command. *)
LEMMA SendInv ==
  ASSUME RemoteInv, NEW s \in Operator, Send(s)
  PROVE  RemoteInv'
<1>1. PICK c \in Order : c = request[s]
  BY DEF RemoteInv, RemoteTyped
<1>2. alone' \in {alone, Nobody} /\ (alone' \in Operator => alone = s /\ alone' = s) /\ ~exact'
      /\ flag' = flag
  BY RemoteAssumption DEF Send, Keep
<1>3. ASSUME NEW r \in c.remove, Removed(s, r),
             request' = [request EXCEPT ![s].remove = @ \ {r}]
      PROVE  RemoteInv'
  <2>1. PICK d \in Order : /\ d = [c EXCEPT !.remove = c.remove \ {r}]
                           /\ d.enabled = c.enabled /\ d.busy = c.busy
                           /\ d.remove = c.remove \ {r} /\ d.add = c.add
    BY OrderRemoves
  <2>2. request' = [request EXCEPT ![s] = d] /\ request'[s] = d
    BY <1>1, <1>3, <2>1 DEF RemoteInv, RemoteTyped, Order
  <2>3. rules' = rules \ {r} /\ lastId' = lastId
    BY <1>3 DEF Removed
  <2>4. RemoteTyped'
    BY <1>2, <2>2, <2>3 DEF RemoteInv, RemoteTyped, Send
  <2>5. ASSUME alone = s PROVE OnCourse(d)'
    <3>1. OnCourse(c)
      BY <1>1, <2>5 DEF RemoteInv
    <3>2. CASE c.enabled
      BY <2>1, <2>3, <3>1, <3>2 DEF OnCourse, Opening
    <3>3. CASE ~c.enabled
      <4>1. IsRemoteAccessRule(r) /\ ~IsWanBlockRule(r)
        BY <1>3, <3>1, <3>3, Kinds DEF OnCourse, Closing, RemoteInv, RemoteTyped
      <4>2. QED
        BY <2>1, <2>3, <3>1, <3>3, <4>1 DEF OnCourse, Closing
    <3>4. QED
      BY <3>2, <3>3
  <2>6. QED
    BY <1>2, <2>2, <2>4, <2>5 DEF RemoteInv, OneRunRepairs
<1>4. ASSUME Added(s), request' = [request EXCEPT ![s].add = Tail(@)]
      PROVE  RemoteInv'
  <2>1. PICK d \in Order : /\ d = [c EXCEPT !.add = Tail(c.add)]
                           /\ d.enabled = c.enabled /\ d.busy = c.busy
                           /\ d.remove = c.remove /\ d.add = Tail(c.add)
                           /\ Head(c.add) \in Port \cup {"block"}
    <3>1. c.add # <<>>
      BY <1>1, <1>4 DEF Added
    <3>2. QED
      BY <3>1, OrderAdds
  <2>2. request' = [request EXCEPT ![s] = d] /\ request'[s] = d
    BY <1>1, <1>4, <2>1 DEF RemoteInv, RemoteTyped, Order
  <2>3. PICK n \in Nat : lastId' = n /\ rules' = rules \cup {Rule(n, Head(c.add))}
    <3>1. lastId' \in Nat
      BY <1>4 DEF Added, RemoteInv, RemoteTyped
    <3>2. QED
      BY <1>1, <1>4, <3>1 DEF Added
  <2>4. Rule(n, Head(c.add)) \in FirewallRule /\ Rule(n, Head(c.add)).kind = Head(c.add)
    BY <2>1, RuleIs
  <2>5. RemoteTyped'
    BY <1>2, <2>2, <2>3, <2>4 DEF RemoteInv, RemoteTyped, Send
  <2>6. ASSUME alone = s PROVE OnCourse(d)'
    <3>1. OnCourse(c) /\ c.remove = {} /\ c.add # <<>>
      BY <1>1, <1>4, <2>6 DEF RemoteInv, Added
    <3>2. CASE c.enabled
      <4>1. CASE c.add = <<"8291", "8728">>
        <5>1. rules = {} /\ Head(c.add) = "8291" /\ Tail(c.add) = <<"8728">>
          BY <3>1, <3>2, <4>1 DEF OnCourse, Opening
        <5>2. rules' = {Rule(n, "8291")}
          BY <2>3, <5>1
        <5>3. QED
          BY <2>1, <3>1, <3>2, <5>1, <5>2 DEF OnCourse, Opening
      <4>2. CASE c.add = <<"8728">>
        <5>1. PICK i \in Nat : rules = {Rule(i, "8291")}
          BY <3>1, <3>2, <4>2 DEF OnCourse, Opening
        <5>2. Head(c.add) = "8728" /\ Tail(c.add) = <<>>
          BY <4>2
        <5>3. rules' = {Rule(i, "8291"), Rule(n, "8728")}
          BY <2>3, <5>1, <5>2
        <5>4. QED
          BY <2>1, <3>1, <3>2, <5>2, <5>3 DEF OnCourse, Opening
      <4>3. QED
        BY <3>1, <3>2, <4>1, <4>2 DEF OnCourse, Opening
    <3>3. CASE ~c.enabled
      <4>1. c.add = <<"block">> /\ c.remove = {r \in rules : IsRemoteAccessRule(r)}
        BY <3>1, <3>3 DEF OnCourse, Closing
      <4>2. Head(c.add) = "block" /\ Tail(c.add) = <<>>
        BY <4>1
      <4>3. IsWanBlockRule(Rule(n, "block")) /\ ~IsRemoteAccessRule(Rule(n, "block"))
        BY <2>4, <4>2 DEF IsWanBlockRule, IsRemoteAccessRule, Port
      <4>4. QED
        BY <2>1, <2>3, <3>1, <3>3, <4>1, <4>2, <4>3 DEF OnCourse, Closing
    <3>4. QED
      BY <3>2, <3>3
  <2>7. QED
    BY <1>2, <2>2, <2>5, <2>6 DEF RemoteInv, OneRunRepairs
<1>5. QED
  BY <1>1, <1>3, <1>4 DEF Send

(* Whatever else touches the device, the row or the request: nobody's run  *)
(* counts as undisturbed any more.                                         *)
LEMMA DisturbInv ==
  ASSUME RemoteInv, RemoteTyped', alone' = Nobody,
         ~exact' \/ UNCHANGED <<rules, flag, exact>>
  PROVE  RemoteInv'
  BY RemoteAssumption
     DEF RemoteInv, RemoteTyped, OneRunRepairs, IsOpen, IsClosed, GetRemoteAccess

LEMMA RecordInv ==
  ASSUME RemoteInv, NEW s \in Operator, Record(s)
  PROVE  RemoteInv'
<1>1. PICK c \in Order : c = request[s]
  BY DEF RemoteInv, RemoteTyped
<1>2. /\ c.busy /\ c.remove = {} /\ c.add = <<>> /\ flag' = c.enabled
      /\ c.enabled \in BOOLEAN
  BY <1>1, OrderIs DEF Record
<1>3. RemoteTyped'
  BY <1>2, NoneIs DEF Record, RemoteInv, RemoteTyped
<1>4. CASE alone = s
  <2>1. OnCourse(c)
    BY <1>1, <1>4 DEF RemoteInv
  <2>2. CASE c.enabled
    <3>1. IsOpen /\ \E r \in rules : IsRemoteAccessRule(r)
      BY <1>2, <2>1, <2>2, Opened DEF OnCourse, Opening
    <3>2. QED
      BY <1>2, <1>3, <2>2, <3>1, RemoteAssumption
         DEF Record, RemoteInv, OneRunRepairs, IsOpen, GetRemoteAccess
  <2>3. CASE ~c.enabled
    <3>1. IsClosed /\ ~\E r \in rules : IsRemoteAccessRule(r)
      BY <1>2, <2>1, <2>3, Closed DEF OnCourse, Closing, RemoteInv, RemoteTyped
    <3>2. QED
      BY <1>2, <1>3, <2>3, <3>1, RemoteAssumption
         DEF Record, RemoteInv, OneRunRepairs, IsClosed, GetRemoteAccess
  <2>4. QED
    BY <2>2, <2>3
<1>5. CASE alone # s
  BY <1>3, <1>5, DisturbInv DEF Record
<1>6. QED
  BY <1>4, <1>5

LEMMA LostInv ==
  ASSUME RemoteInv, NEW s \in Operator, SendUnanswered(s) \/ Fail(s)
  PROVE  RemoteInv'
<1>1. request' \in [Operator -> Order] /\ alone' = Nobody
  BY NoneIs DEF SendUnanswered, Fail, RemoteInv, RemoteTyped
<1>2. CASE Fail(s)
  <2>1. RemoteTyped'
    BY <1>1, <1>2 DEF Fail, RemoteInv, RemoteTyped
  <2>2. QED
    BY <1>1, <1>2, <2>1, DisturbInv DEF Fail
<1>3. CASE SendUnanswered(s)
  <2>1. rules' \in SUBSET FirewallRule /\ lastId' \in Nat
    <3>1. CASE Added(s)
      <4>1. PICK c \in Order : c = request[s] /\ c.add # <<>>
        BY <3>1 DEF Added, RemoteInv, RemoteTyped
      <4>2. PICK n \in Nat : lastId' = n /\ rules' = rules \cup {Rule(n, Head(c.add))}
        BY <3>1, <4>1 DEF Added, RemoteInv, RemoteTyped
      <4>3. Rule(n, Head(c.add)) \in FirewallRule
        BY <4>1, OrderAdds, RuleIs
      <4>4. QED
        BY <4>2, <4>3 DEF RemoteInv, RemoteTyped
    <3>2. CASE \E r \in request[s].remove : Removed(s, r)
      BY <3>2 DEF Removed, RemoteInv, RemoteTyped
    <3>3. QED
      BY <1>3, <3>1, <3>2 DEF SendUnanswered
  <2>2. RemoteTyped' /\ ~exact'
    BY <1>1, <1>3, <2>1 DEF SendUnanswered, RemoteInv, RemoteTyped
  <2>3. QED
    BY <1>1, <2>2, DisturbInv
<1>4. QED
  BY <1>2, <1>3

LEMMA AsideInv ==
  ASSUME RemoteInv, Reimport \/ \E enabled \in BOOLEAN : Update(enabled)
  PROVE  RemoteInv'
<1>1. CASE Reimport
  <2>1. PICK n \in Nat : /\ lastId' = n
                         /\ rules' = {r \in rules : IsRemoteAccessRule(r)}
                                       \cup {Rule(n, "block")}
    BY <1>1 DEF Reimport, RemoteInv, RemoteTyped
  <2>2. Rule(n, "block") \in FirewallRule
    BY RuleIs
  <2>3. RemoteTyped'
    BY <1>1, <2>1, <2>2 DEF Reimport, RemoteInv, RemoteTyped
  <2>4. QED
    BY <1>1, <2>3, DisturbInv DEF Reimport
<1>2. ASSUME NEW enabled \in BOOLEAN, Update(enabled) PROVE RemoteInv'
  <2>1. RemoteTyped'
    BY <1>2 DEF Update, RemoteInv, RemoteTyped
  <2>2. QED
    BY <1>2, <2>1, DisturbInv DEF Update
<1>3. QED
  BY <1>1, <1>2

(* router/remote.go 136-200: whatever failed or overlapping requests,      *)
(* imports of the script and edits of the row left behind, one request     *)
(* that nothing disturbs leaves the device, the row and the answer of GET  *)
(* agreed: two ports and no block, or a block and no port.                 *)
THEOREM OneRunIsEnough == RemoteInit /\ [][RemoteNext]_remoteVars => []OneRunRepairs
<1>1. RemoteInit => RemoteInv
  <2> SUFFICES ASSUME RemoteInit PROVE RemoteInv
    OBVIOUS
  <2>1. Rule(1, "block") \in FirewallRule /\ IsWanBlockRule(Rule(1, "block"))
        /\ ~IsRemoteAccessRule(Rule(1, "block"))
    BY RuleIs DEF IsWanBlockRule, IsRemoteAccessRule, Port, Rule
  <2>2. QED
    BY <2>1, NoneIs, RemoteAssumption
       DEF RemoteInit, RemoteInv, RemoteTyped, OneRunRepairs, IsClosed, GetRemoteAccess
<1>2. RemoteInv /\ [RemoteNext]_remoteVars => RemoteInv'
  <2> SUFFICES ASSUME RemoteInv, [RemoteNext]_remoteVars PROVE RemoteInv'
    OBVIOUS
  <2>1. CASE UNCHANGED remoteVars
    BY <2>1 DEF remoteVars, RemoteInv, RemoteTyped, OnCourse, Opening, Closing,
                OneRunRepairs, IsOpen, IsClosed, GetRemoteAccess
  <2>2. QED
    BY <2>1, AskInv, SendInv, LostInv, RecordInv, AsideInv DEF RemoteNext
<1>3. RemoteInv => OneRunRepairs
  BY DEF RemoteInv
<1>4. QED
  BY <1>1, <1>2, <1>3, PTL
=============================================================================
