--------------------------- MODULE MetricsRegistry ---------------------------
(***************************************************************************)
(* metrics.Registry (internal/metrics/registry.go): the goroutine of every *)
(* finished request calls Record, scrapers of /metrics and /admin/metrics  *)
(* call Snapshot, and PrometheusText writes a snapshot out.  Record        *)
(* changes two buckets, the total and that of the route, under r.mu.Lock;  *)
(* Snapshot copies the routes one by one and then the total under          *)
(* r.mu.RLock.                                                             *)
(*                                                                         *)
(* A route id is a text: a sequence of characters, of which the ones that  *)
(* have to be escaped in a label matter.                                   *)
(***************************************************************************)
EXTENDS Integers, Sequences, FiniteSets, SequencesExt

CONSTANTS
  Recorders,   \* request goroutines that call Record
  Scrapers,    \* scrapers, each of which scrapes any number of times
  Characters,  \* what route ids are made of
  RouteIDs,    \* what record.RouteID may be
  StatusCodes, \* what record.StatusCode may be
  Latencies,   \* what record.Latency may be
  Boundaries,  \* defaultDurationBucketsSeconds, in the unit of Latencies
  MaxRecords   \* bound: calls of Record

None == "none"

(* The bounds of the histogram are listed in ascending order. *)
ASSUME RegistryAssumption ==
  /\ None \notin Recorders /\ Recorders \cap Scrapers = {}
  /\ RouteIDs \subseteq Seq(Characters)
  /\ Latencies \subseteq Int /\ StatusCodes \subseteq Int
  /\ Boundaries \in Seq(Nat) /\ MaxRecords \in Nat
  /\ \A k \in 2 .. Len(Boundaries) : Boundaries[k - 1] < Boundaries[k]

VARIABLES
  total, routes,   \* r.total; r.routes, a function from the ids it has
  writer, readers, \* who holds r.mu for writing, and for reading
  pc,              \* where each recorder and each scraper is
  record,          \* the record of each recorder's call
  copied,          \* the routes each scraper has copied
  scraped,         \* the last snapshot each scraper was given
  calls            \* calls of Record so far

registry == <<total, routes, writer, record, calls>>
vars == <<registry, readers, pc, copied, scraped>>
-----------------------------------------------------------------------------
Unknown == <<"unknown">>
Inc(f, k) == [x \in DOMAIN f \cup {k} |-> IF x = k THEN (IF k \in DOMAIN f THEN f[k] + 1 ELSE 1)
                                                   ELSE f[x]]

NewBucket ==
  [requests |-> 0, totalLatency |-> 0, maxLatency |-> 0, statusCodes |-> <<>>,
   counts |-> [i \in DOMAIN Boundaries |-> 0]]

(* Mutant: only the first bucket that fits is counted. *)
RecordBucketFirst(b, rec) ==
  [requests     |-> b.requests + 1,
   totalLatency |-> b.totalLatency + rec.latency,
   maxLatency   |-> IF rec.latency > b.maxLatency THEN rec.latency ELSE b.maxLatency,
   statusCodes  |-> Inc(b.statusCodes, rec.status),
   counts       |-> [i \in DOMAIN b.counts |->
                       IF i = SelectInSeq(Boundaries, LAMBDA x : rec.latency <= x)
                       THEN b.counts[i] + 1 ELSE b.counts[i]]]

(* recordBucket: every bucket that reaches the latency is counted.  The     *)
(* bytes written are left out: they are added up as the latencies are.      *)
RecordBucket(b, rec) ==
  [requests     |-> b.requests + 1,
   totalLatency |-> b.totalLatency + rec.latency,
   maxLatency   |-> IF rec.latency > b.maxLatency THEN rec.latency ELSE b.maxLatency,
   statusCodes  |-> Inc(b.statusCodes, rec.status),
   counts       |-> [i \in DOMAIN b.counts |->
                       IF rec.latency <= Boundaries[i] THEN b.counts[i] + 1 ELSE b.counts[i]]]

(* What Record makes of its argument before it takes the lock. *)
Sanitized(id, status, latency) ==
  [id      |-> IF id = <<>> THEN Unknown ELSE id,
   status  |-> IF status <= 0 THEN 200 ELSE status,
   latency |-> IF latency < 0 THEN 0 ELSE latency]

NoSnapshot == [total |-> NewBucket, routes |-> <<>>]
NoRecord == Sanitized(<<>>, 0, 0)

Init ==
  /\ total = NewBucket /\ routes = <<>>
  /\ writer = None /\ readers = {}
  /\ pc = [p \in Recorders \cup Scrapers |-> "idle"]
  /\ record = [r \in Recorders |-> NoRecord]
  /\ copied = [s \in Scrapers |-> <<>>]
  /\ scraped = [s \in Scrapers |-> NoSnapshot]
  /\ calls = 0

GoTo(p, to) == pc' = [pc EXCEPT ![p] = to]
-----------------------------------------------------------------------------
(* sync.RWMutex: a writer waits for the readers, and while one waits no     *)
(* new reader gets in; Unlock lets in all the readers that wait.            *)
CanLock == writer = None /\ readers = {}
CanRLock == writer = None /\ \A r \in Recorders : pc[r] # "lock"
WaitingReaders == {s \in Scrapers : pc[s] = "rlock"}
Unlock(r) ==
  /\ writer' = None
  /\ readers' = WaitingReaders
  /\ pc' = [p \in DOMAIN pc |-> IF p = r THEN "idle"
                                ELSE IF p \in WaitingReaders THEN "copy" ELSE pc[p]]

Record(r, id, status, latency) ==
  /\ pc[r] = "idle" /\ calls < MaxRecords
  /\ calls' = calls + 1
  /\ record' = [record EXCEPT ![r] = Sanitized(id, status, latency)]
  /\ GoTo(r, "lock")
  /\ UNCHANGED <<total, routes, writer, readers, copied, scraped>>

(* r.mu.Lock, and the total. *)
RecordTotal(r) ==
  /\ pc[r] = "lock" /\ CanLock
  /\ writer' = r
  /\ total' = RecordBucket(total, record[r])
  /\ GoTo(r, "route")
  /\ UNCHANGED <<routes, readers, record, copied, scraped, calls>>

RouteBucket(id) == IF id \in DOMAIN routes THEN routes[id] ELSE NewBucket

PutRoute(id, b) ==
  routes' = [i \in DOMAIN routes \cup {id} |-> IF i = id THEN b ELSE routes[i]]

(* Mutant: the lock is kept. *)
RecordRouteKeepsLock(r) ==
  /\ pc[r] = "route"
  /\ PutRoute(record[r].id, RecordBucket(RouteBucket(record[r].id), record[r]))
  /\ GoTo(r, "idle")
  /\ record' = [record EXCEPT ![r] = NoRecord]
  /\ UNCHANGED <<total, writer, readers, copied, scraped, calls>>

(* The bucket of the route, made when there is none, and r.mu.Unlock. *)
RecordRoute(r) ==
  /\ pc[r] = "route"
  /\ PutRoute(record[r].id, RecordBucket(RouteBucket(record[r].id), record[r]))
  /\ record' = [record EXCEPT ![r] = NoRecord]
  /\ Unlock(r)
  /\ UNCHANGED <<total, copied, scraped, calls>>
-----------------------------------------------------------------------------
(* handlePrometheusMetrics or handleAdminMetrics calls Snapshot, which asks *)
(* for the read lock.                                                       *)
Scrape(s) ==
  /\ pc[s] = "idle"
  /\ GoTo(s, "rlock")
  /\ UNCHANGED <<registry, readers, copied, scraped>>

(* Mutant: no lock is taken. *)
BeginSnapshotUnlocked(s) ==
  /\ pc[s] = "rlock"
  /\ GoTo(s, "copy")
  /\ UNCHANGED <<registry, readers, copied, scraped>>

BeginSnapshot(s) ==
  /\ pc[s] = "rlock" /\ CanRLock
  /\ readers' = readers \cup {s}
  /\ GoTo(s, "copy")
  /\ UNCHANGED <<registry, copied, scraped>>

CopyRoute(s) ==
  /\ pc[s] = "copy"
  /\ \E id \in DOMAIN routes \ DOMAIN copied[s] :
       copied' = [copied EXCEPT ![s] =
                    [i \in DOMAIN @ \cup {id} |-> IF i = id THEN routes[id] ELSE @[i]]]
  /\ UNCHANGED <<registry, readers, pc, scraped>>

(* The total, and r.mu.RUnlock. *)
EndSnapshot(s) ==
  /\ pc[s] = "copy" /\ DOMAIN copied[s] = DOMAIN routes
  /\ scraped' = [scraped EXCEPT ![s] = [total |-> total, routes |-> copied[s]]]
  /\ copied' = [copied EXCEPT ![s] = <<>>]
  /\ readers' = readers \ {s}
  /\ GoTo(s, "idle")
  /\ UNCHANGED registry
-----------------------------------------------------------------------------
(* PrometheusText *)

(* strings.ReplaceAll for one character. *)
ReplaceEach(text, old, new) ==
  FlattenSeq([i \in DOMAIN text |-> IF text[i] = old THEN new ELSE <<text[i]>>])

(* Mutant: the backslash comes after the line feed. *)
EscapeLabelValueLate(value) ==
  LET v1 == ReplaceEach(value, "LF", <<"\\", "n">>)
      v2 == ReplaceEach(v1, "\\", <<"\\", "\\">>)
  IN  ReplaceEach(v2, "\"", <<"\\", "\"">>)

EscapeLabelValue(value) ==
  LET v1 == ReplaceEach(value, "\\", <<"\\", "\\">>)
      v2 == ReplaceEach(v1, "LF", <<"\\", "n">>)
  IN  ReplaceEach(v2, "\"", <<"\\", "\"">>)

(* writeHistogram: the buckets in ascending order, +Inf last. *)
HistogramLines(b) == Append(b.counts, b.requests)

(* The lines of one bucket, under the label of its route. *)
BucketLines(label, b) ==
  [label |-> label, requests |-> b.requests, status |-> b.statusCodes,
   sum |-> b.totalLatency, max |-> b.maxLatency, buckets |-> HistogramLines(b)]

PrometheusText(snapshot) ==
  [total  |-> BucketLines(<<>>, snapshot.total),
   routes |-> [id \in DOMAIN snapshot.routes |->
                 BucketLines(EscapeLabelValue(id), snapshot.routes[id])]]
-----------------------------------------------------------------------------
RecordStep(r) == RecordTotal(r) \/ RecordRoute(r)
ScrapeStep(s) == BeginSnapshot(s) \/ CopyRoute(s) \/ EndSnapshot(s)

Next ==
  \/ \E r \in Recorders :
       \/ \E id \in RouteIDs, status \in StatusCodes, latency \in Latencies :
            Record(r, id, status, latency)
       \/ RecordStep(r)
  \/ \E s \in Scrapers : Scrape(s) \/ ScrapeStep(s)

Spec == Init /\ [][Next]_vars

(* Goroutines that have begun a call are scheduled. *)
FairSpec ==
  /\ Spec
  /\ \A r \in Recorders : WF_vars(RecordStep(r))
  /\ \A s \in Scrapers : WF_vars(ScrapeStep(s))
-----------------------------------------------------------------------------
Count(f, k) == IF k \in DOMAIN f THEN f[k] ELSE 0

(* Every scrape adds up, whatever is recorded meanwhile: the total is the   *)
(* sum of the routes, in requests, latency and every status; no status is   *)
(* missing; and the average is not above the maximum (Registry.Record,      *)
(* Registry.Snapshot).                                                      *)
ScrapesAddUp ==
  \A s \in Scrapers :
    LET text   == PrometheusText(scraped[s])
        all == text.total
        route  == text.routes
        ids    == DOMAIN route
    IN  /\ all.requests = SumFunction([i \in ids |-> route[i].requests])
        /\ all.sum = SumFunction([i \in ids |-> route[i].sum])
        /\ \A c \in DOMAIN all.status :
             all.status[c] = SumFunction([i \in ids |-> Count(route[i].status, c)])
        /\ all.requests = SumFunction(all.status)
        /\ all.sum <= all.max * all.requests

(* The histograms are what Prometheus takes them for: each line counts the  *)
(* requests up to its bound, so the lines never fall, the last one is the   *)
(* count, and a line reaches the count just when its bound reaches the      *)
(* maximum (recordBucket, writeHistogram).                                  *)
HistogramsCumulate ==
  \A s \in Scrapers :
    LET text == PrometheusText(scraped[s])
    IN  \A b \in {text.total} \cup {text.routes[i] : i \in DOMAIN text.routes} :
          /\ \A k \in 2 .. Len(b.buckets) : b.buckets[k - 1] <= b.buckets[k]
          /\ b.buckets[Len(b.buckets)] = b.requests
          /\ \A k \in DOMAIN Boundaries :
               b.buckets[k] = b.requests <=> b.max <= Boundaries[k]

(* Different routes have different series, whatever characters their ids    *)
(* hold (escapeLabelValue).                                                 *)
SeriesTellRoutesApart ==
  \A s \in Scrapers :
    LET text == PrometheusText(scraped[s])
    IN  \A i, j \in DOMAIN text.routes :
          text.routes[i].label = text.routes[j].label => i = j

(* No request waits for ever to be counted, though scrapes never cease, and *)
(* no scrape waits for ever.                                                *)
CallsReturn ==
  /\ \A r \in Recorders : pc[r] = "lock" ~> pc[r] = "idle"
  /\ \A s \in Scrapers : pc[s] = "rlock" ~> pc[s] = "idle"
=============================================================================
