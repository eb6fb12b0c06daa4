------------------------------ MODULE Telemetry ------------------------------
(***************************************************************************)
(* The samples of one router and the traffic chart made of them.  A single *)
(* goroutine polls: a resource command that must succeed, the interface    *)
(* counters, which are left at zero if their command fails, and then a row *)
(* is inserted.  A router counts bytes from its last reboot.  The chart    *)
(* shows the difference of each row to the one before it.                  *)
(***************************************************************************)
EXTENDS Integers, Sequences

CONSTANTS
  HistoryLimit,  \* DashboardHistoryLimit
  MaxBytes,      \* bound on what a router carries
  MaxSamples, MaxReboots

ASSUME TelemetryAssumption == HistoryLimit \in Nat

VARIABLES
  counter,   \* RouterOS rx-byte of the hotspot bridge
  carried,   \* bytes carried in all, over reboots
  reboots,
  sample,    \* what the poller is about to store
  stats      \* RouterStat rows, oldest first

teleVars == <<counter, carried, reboots, sample, stats>>

NoSample == [pc |-> "wait", bytes |-> 0, read |-> FALSE, at |-> 0, boot |-> 0]

TelemetryInit ==
  /\ counter = 0 /\ carried = 0 /\ reboots = 0
  /\ sample = NoSample /\ stats = <<>>

Carry ==
  /\ carried < MaxBytes
  /\ carried' = carried + 1 /\ counter' = counter + 1
  /\ UNCHANGED <<reboots, sample, stats>>

Reboot ==
  /\ reboots < MaxReboots
  /\ reboots' = reboots + 1 /\ counter' = 0
  /\ UNCHANGED <<carried, sample, stats>>

(* Without an answer to the first command there is no sample. *)
PollResource ==
  /\ sample.pc = "wait" /\ Len(stats) < MaxSamples
  /\ sample' = [NoSample EXCEPT !.pc = "traffic"]
  /\ UNCHANGED <<counter, carried, reboots, stats>>

PollTraffic ==
  /\ sample.pc = "traffic"
  /\ \/ sample' = [pc |-> "store", bytes |-> counter, read |-> TRUE,
                   at |-> carried, boot |-> reboots]
     \/ sample' = [NoSample EXCEPT !.pc = "store"]
  /\ UNCHANGED <<counter, carried, reboots, stats>>

StoreStat ==
  /\ sample.pc = "store"
  /\ stats' = Append(stats, sample) \/ UNCHANGED stats
  /\ sample' = NoSample
  /\ UNCHANGED <<counter, carried, reboots>>

(* Rows older than the retention window go, however many there are. *)
PruneOldStats(n) ==
  /\ n <= Len(stats)
  /\ stats' = SubSeq(stats, n + 1, Len(stats))
  /\ UNCHANGED <<counter, carried, reboots, sample>>

TelemetryNext ==
  \/ Carry \/ Reboot \/ PollResource \/ PollTraffic \/ StoreStat
  \/ \E n \in 1..MaxSamples : PruneOldStats(n)

(* loadStatSeries: the newest rows, in order... *)
Series ==
  IF Len(stats) <= HistoryLimit THEN stats
  ELSE SubSeq(stats, Len(stats) - HistoryLimit + 1, Len(stats))

(* Seeded fault: uint64 differences are taken whatever the sign. *)
WrappedDownload(i) ==
  IF i = 1 THEN 0 ELSE (Series[i].bytes - Series[i - 1].bytes) % 2^16

(* ... each with what came in since the row before it. *)
Download(i) ==
  IF i = 1 \/ Series[i].bytes < Series[i - 1].bytes THEN 0
  ELSE Series[i].bytes - Series[i - 1].bytes

------------------------------------------------------------------------------
(* Between two rows with counters the chart never shows more than was      *)
(* carried, over reboots and pruning, and exactly that without a reboot.   *)
(* A row whose counters were not read says nothing of its neighbours.      *)
ChartIsTrue ==
  \A i \in 2..Len(Series) :
    (Series[i].read /\ Series[i - 1].read) =>
      LET real == Series[i].at - Series[i - 1].at IN
      /\ Download(i) <= real
      /\ Series[i].boot = Series[i - 1].boot => Download(i) = real
==============================================================================
