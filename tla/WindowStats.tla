------------------------------ MODULE WindowStats ------------------------------
(***************************************************************************)
(* One window of the collector: the arrays and counters that handle_event  *)
(* fills, and the row of dataset.csv that main() makes of them; and what   *)
(* the dashboard makes of the same events.                                 *)
(***************************************************************************)
EXTENDS Statistics

CONSTANTS
  Latencies,    \* latencies of events
  Priorities,   \* their priorities
  Thresholds,   \* of the counters over20, over50 and over100
  MaxEvents,    \* MAX_EVENTS
  MaxSeen,      \* bound on the events of a window
  P95, P99,     \* the percentiles, in percent
  Widths        \* widths of a chart

ASSUME StatsAssumption ==
  /\ Latencies \subseteq Nat /\ Priorities \subseteq Int /\ Thresholds \subseteq Nat
  /\ MaxEvents \in Nat \ {0} /\ MaxSeen \in Nat
  /\ P95 \in 0..99 /\ P99 \in P95..99 /\ Widths \subseteq Nat \ {0}
  /\ \A percent \in {P95, P99} : 100 % (100 - percent) = 0   \* as of 95 and of 99

VARIABLES
  latencies,      \* latencies[0..latency_count - 1]
  priorities,     \* the same of priorities
  switch_count,
  over,           \* per threshold: its counter
  seen,           \* ghost: the latencies of all events since the window began
  row             \* the row just written, or NoRow

vars == <<latencies, priorities, switch_count, over, seen, row>>

NoRow == [count |-> 0]

Init ==
  /\ latencies = << >> /\ priorities = << >> /\ switch_count = 0
  /\ over = [th \in Thresholds |-> 0] /\ seen = << >> /\ row = NoRow

OverOrEqual(lat, th) == lat >= th   \* mutant: >= for >
Over(lat, th) == lat > th

(* handle_event: beyond MAX_EVENTS an event is only counted. *)
HandleEvent(lat, prio) ==
  /\ Len(seen) < MaxSeen
  /\ IF Len(latencies) < MaxEvents
     THEN latencies' = Append(latencies, lat) /\ priorities' = Append(priorities, prio)
     ELSE UNCHANGED <<latencies, priorities>>
  /\ switch_count' = switch_count + 1
  /\ over' = [th \in Thresholds |-> over[th] + IF Over(lat, th) THEN 1 ELSE 0]
  /\ seen' = Append(seen, lat)
  /\ row' = NoRow

(* Averages are kept as sums, and the variance as its n * n-fold. *)
Row ==
  LET n == Len(latencies)
      squares == Total([i \in 1..n |-> latencies[i] * latencies[i]])
  IN
  [count |-> switch_count, n |-> n,
   sum |-> Total(latencies), spread |-> n * squares - Total(latencies) * Total(latencies),
   min |-> Smallest(Values(latencies)), max |-> Largest(Values(latencies)),
   p95 |-> Percentile(latencies, P95), p99 |-> Percentile(latencies, P99),
   over |-> over, sum_prio |-> Total(priorities),
   highest_prio |-> Smallest({140} \cup Values(priorities)),
   of |-> seen]   \* ghost

(* Mutant: switch_count is not reset. *)
ResetForgetful == latencies' = << >> /\ UNCHANGED switch_count
Reset == latencies' = << >> /\ switch_count' = 0

(* The end of a window, and that of the program, which makes the same row. *)
EndWindow ==
  /\ row' = IF latencies # << >> THEN Row ELSE NoRow
  /\ Reset
  /\ priorities' = << >> /\ over' = [th \in Thresholds |-> 0] /\ seen' = << >>

Next ==
  \/ \E lat \in Latencies, prio \in Priorities : HandleEvent(lat, prio)
  \/ EndWindow

Spec == Init /\ [][Next]_vars

-----------------------------------------------------------------------------
Written == row # NoRow
Complete == Written /\ row.n = row.count   \* no event was beyond MAX_EVENTS

(* collector.c:320-322: what a row says of a window fits together, although *)
(* two loops, a sort and five counters have made it.                        *)
RowOrdered ==
  Written =>
    /\ row.min <= row.p95 /\ row.p95 <= row.p99 /\ row.p99 <= row.max
    /\ row.n * row.min <= row.sum /\ row.sum <= row.n * row.max
    /\ row.spread >= 0 /\ (row.spread = 0 <=> row.min = row.max)
    /\ row.n * row.highest_prio <= row.sum_prio

(* A row is of one window: every event since the last row is counted, and   *)
(* no older one (collector.c:326-332).                                      *)
RowOfWindow ==
  Written =>
    /\ row.count = Len(row.of) /\ row.n = IF row.count < MaxEvents THEN row.count ELSE MaxEvents
    /\ {row.min, row.max, row.p95, row.p99} \subseteq Values(row.of)

(* The counters and the percentiles, found independently of each other,     *)
(* agree: p95 is over a threshold if and only if more events are over it    *)
(* than the percentile leaves above (collector.c:132-134, 143-148).         *)
OverAgrees ==
  Complete => \A th \in Thresholds :
    /\ row.p95 > th <=> row.over[th] >= row.n - Index(row.n, P95)
    /\ row.p99 > th <=> row.over[th] >= row.n - Index(row.n, P99)

(* The dashboard computes percentiles of the same events by another rule    *)
(* (tui.py:413-418): it never shows a higher one than dataset.csv has.      *)
SummaryNotAbove ==
  Complete =>
    /\ Hundredfold(row.of, P95) <= 100 * row.p95
    /\ Hundredfold(row.of, P99) <= 100 * row.p99

(* tui.py:428-443: a chart has no more samples than columns, shows nothing  *)
(* that was not measured, and of every latency but perhaps the newest one   *)
(* a sample that is at least as high: no spike disappears between buckets.  *)
ChartKeepsSpikes ==
  \A width \in Widths : \A cut \in Cuts(Len(seen), width) :
    LET samples == Reduced(seen, cut, width) IN
    /\ Len(samples) <= width
    /\ Values(samples) \subseteq Values(seen)
    /\ \A k \in 1..(Len(seen) - 1) : \E i \in DOMAIN samples : samples[i] >= seen[k]
=============================================================================
