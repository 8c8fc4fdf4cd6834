----------------------------- MODULE MCCollector -----------------------------
EXTENDS Collector
MCCommandLines == {[argc |-> 2, tgid |-> 0, min_us |-> 0, rate |-> 0],
                   [argc |-> 5, tgid |-> 1, min_us |-> 0, rate |-> -1],
                   [argc |-> 6, tgid |-> 1, min_us |-> 0, rate |-> 1]}
MCEvents == {[tgid |-> 1, latency_ns |-> 1000], [tgid |-> 1, latency_ns |-> 2999]}
=============================================================================
