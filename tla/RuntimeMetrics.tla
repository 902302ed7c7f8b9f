----------------------------- MODULE RuntimeMetrics -----------------------------
(* What the process counts of the requests it lets in (ops/metrics.py): the  *)
(* middleware of main.py begins and ends a measurement around each of them,  *)
(* whether the handler answers, raises or is cancelled, or admission refuses *)
(* it; /ops/status reads the counters while other requests are under way.    *)
EXTENDS Naturals, Sequences, FiniteSets, FiniteSetsExt

CONSTANTS
  Callers,      \* requests that may be under way at once
  Routes,       \* sequences of path segments
  JobIds,       \* those segments that are UUIDs or hexadecimal digests
  Durations,    \* how long requests take
  Window,       \* durations that are kept
  MaxMeasured   \* requests that are begun

(* The routes are the application's; what stands for an identifier is not    *)
(* one; the window is never below 64.                                        *)
ASSUME MetricsAssumption ==
  /\ IsFiniteSet(Routes) /\ "{id}" \notin JobIds
  /\ Durations \subseteq Nat /\ Window \in Nat \ {0}

VARIABLES
  calls,    \* the requests under way
  metrics,  \* the counters
  begun     \* history: how many were begun
MetricsVars == <<calls, metrics, begun>>

NoCall == [route |-> <<>>]
Classes == {"2xx", "4xx", "5xx"}

normalize_metric_path(route) ==
  [k \in DOMAIN route |-> IF route[k] \in JobIds THEN "{id}" ELSE route[k]]
Labels == {normalize_metric_path(r) : r \in Routes}

(* The nearest rank; the quantile is a fraction.                             *)
Sorted(values) ==
  CHOOSE s \in [DOMAIN values -> Durations] :
    /\ \A k \in 2 .. Len(values) : s[k - 1] <= s[k]
    /\ \A d \in Durations : Cardinality({k \in DOMAIN s : s[k] = d}) =
                            Cardinality({k \in DOMAIN values : values[k] = d})
percentile(values, numerator, denominator) ==
  LET n == Len(values)
      rank == (numerator * n + denominator - 1) \div denominator
  IN IF n = 0 THEN 0 ELSE Sorted(values)[Max({1, Min({n, rank})})]

-----------------------------------------------------------------------------
begin(c) ==
  /\ calls[c] = NoCall /\ begun < MaxMeasured
  /\ \E r \in Routes :
        calls' = [calls EXCEPT ![c] = [route |-> r, label |-> normalize_metric_path(r),
                                       refused |-> FALSE, snapshot |-> <<>>]]
  /\ metrics' = [metrics EXCEPT !.active = @ + 1, !.max_active = Max({@, metrics.active + 1})]
  /\ begun' = begun + 1

(* Slip: what raises or is cancelled leaves without an end.                  *)
end_of_answered(c, class, duration) ==
  /\ calls' = [calls EXCEPT ![c] = NoCall]
  /\ metrics' = IF class = "5xx" THEN metrics
                ELSE [metrics EXCEPT !.active = @ - 1, !.requests = @ + 1,
                                     !.routes[calls[c].label] = @ + 1, !.statuses[class] = @ + 1]

(* The oldest duration goes when the window is full.                         *)
end(c, class, duration) ==
  /\ calls' = [calls EXCEPT ![c] = NoCall]
  /\ metrics' = [metrics EXCEPT
       !.active = IF @ = 0 THEN 0 ELSE @ - 1,
       !.requests = @ + 1,
       !.errors = IF class = "5xx" THEN @ + 1 ELSE @,
       !.routes[calls[c].label] = @ + 1,
       !.statuses[class] = @ + 1,
       !.durations = LET kept == Append(@, duration)
                     IN IF Len(kept) > Window THEN Tail(kept) ELSE kept]

(* An answer, an exception or a cancellation; the last two count as 5xx.     *)
Finish(c) ==
  /\ calls[c] # NoCall
  /\ \E class \in IF calls[c].refused THEN {"5xx"} ELSE Classes, d \in Durations :
        end(c, class, d)
  /\ UNCHANGED begun

admission_rejected(c) ==
  /\ calls[c] # NoCall /\ ~calls[c].refused /\ calls[c].snapshot = <<>>
  /\ calls' = [calls EXCEPT ![c].refused = TRUE]
  /\ metrics' = [metrics EXCEPT !.rejections = @ + 1]
  /\ UNCHANGED begun

read_snapshot(c) ==
  /\ calls[c] # NoCall /\ ~calls[c].refused /\ calls[c].snapshot = <<>>
  /\ calls' = [calls EXCEPT ![c].snapshot =
       <<[active |-> metrics.active, requests |-> metrics.requests,
          p50 |-> percentile(metrics.durations, 50, 100),
          p95 |-> percentile(metrics.durations, 95, 100),
          samples |-> metrics.durations]>>]
  /\ UNCHANGED <<metrics, begun>>

MetricsInit ==
  /\ calls = [c \in Callers |-> NoCall] /\ begun = 0
  /\ metrics = [active |-> 0, max_active |-> 0, requests |-> 0, errors |-> 0, rejections |-> 0,
                routes |-> [l \in Labels |-> 0], statuses |-> [c \in Classes |-> 0],
                durations |-> <<>>]

MetricsNext ==
  \E c \in Callers : begin(c) \/ Finish(c) \/ admission_rejected(c) \/ read_snapshot(c)

-----------------------------------------------------------------------------

MetricsTypeOK ==
  /\ metrics.durations \in UNION {[1 .. n -> Durations] : n \in 0 .. Window}
  /\ \A c \in Callers : calls[c] = NoCall \/ calls[c].label \in Labels

UnderWay == {c \in Callers : calls[c] # NoCall}
AtMost(values, d) == Cardinality({k \in DOMAIN values : values[k] <= d})

(* However requests end and whatever order they end in, nothing is counted   *)
(* twice or not at all: what has begun is active or in each of the totals,   *)
(* every refusal is or becomes one of the errors, jobs do not appear in      *)
(* labels, and a snapshot includes its own request, with percentiles that as *)
(* many of its samples stay within as they say and no smaller one does.      *)
MetricsAddUp ==
  LET total(f) == MapThenSumSet(LAMBDA k : f[k], DOMAIN f)
      holds(values, p, percent) ==
        /\ 100 * AtMost(values, p) >= percent * Len(values)
        /\ \A d \in Durations : d < p => 100 * AtMost(values, d) < percent * Len(values)
  IN /\ metrics.active = Cardinality(UnderWay) /\ metrics.active <= metrics.max_active
     /\ metrics.requests + metrics.active = begun
     /\ total(metrics.routes) = metrics.requests /\ total(metrics.statuses) = metrics.requests
     /\ metrics.errors = metrics.statuses["5xx"]
     /\ metrics.rejections <= metrics.errors + Cardinality({c \in UnderWay : calls[c].refused})
     /\ \A l \in Labels : \A k \in DOMAIN l : l[k] \notin JobIds
     /\ \A c \in UnderWay : calls[c].snapshot # <<>> =>
          LET s == calls[c].snapshot[1]
          IN /\ s.active > 0 /\ s.requests + s.active <= begun
             /\ s.samples # <<>> => holds(s.samples, s.p50, 50) /\ holds(s.samples, s.p95, 95)
=============================================================================
