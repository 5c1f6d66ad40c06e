------------------------------- MODULE HeroStats -------------------------------
(***************************************************************************)
(* GET /stats and GET /predict over the table a client finds: which        *)
(* requests are refused, which share a cached body, and what a body says:  *)
(* counts, aggregates of the numeric fields, the series of records over    *)
(* time, and the history a forecast starts from.  The records they look at *)
(* are the first of the table by id, up to a cap.                          *)
(*                                                                         *)
(* The statements of one body see the same table here; StatsCache has what *)
(* happens between them.  Of an average, its count and total are kept, and *)
(* of a forecast, what it starts from and its length.                      *)
(***************************************************************************)
EXTENDS HeroQueries

CONSTANTS
  CreatedIn,   (* CreatedIn[b][i]: created_at of i, rounded down to b      *)
  Requests,    (* [kind, scope, bucket] and [kind, bucket, field, periods] *)
  Cap          (* MAX_HISTORY_RECORDS                                      *)

Buckets == {"day", "week"}

NumericFields == {"id", "power_level"}

ASSUME HeroStatsAssumption ==
  /\ Cap \in Nat /\ Null \notin Buckets
  /\ \A q \in Requests : q.kind \in {"stats", "predict"}

-----------------------------------------------------------------------------
(* The requests and their keys.                                            *)

Refused == [status |-> 422]

(* 422, before the cache is asked.                                         *)
Rejected(q) ==
  \/ q.bucket \notin Buckets \cup {Null}
  \/ q.kind = "stats" /\ q.scope = "archived"
  \/ q.kind = "predict" /\ (\/ q.field \notin NumericFields \cup {Null}
                            \/ q.periods \notin {Null} \cup 1..52)

(* What is parsed of a request, defaults included.                         *)
Parsed(q) ==
  IF q.kind = "stats" THEN [included |-> q.scope = "all", bucket |-> q.bucket]
  ELSE [bucket |-> IF q.bucket = Null THEN "day" ELSE q.bucket,
        field |-> q.field,
        periods |-> IF q.periods = Null THEN 4 ELSE q.periods]

(* Variant of KeyOf: the key leaves out the bucket.                        *)
KeyWithoutBucket(q) == <<q.kind, [Parsed(q) EXCEPT !.bucket = Null]>>

(* The key of cached_json: the kind and the parsed parameters.             *)
KeyOf(q) == <<q.kind, Parsed(q)>>

-----------------------------------------------------------------------------
(* The bodies, of table T.                                                 *)

Visible(T, included) == {h \in T : included \/ h.live}

(* count of either repository, without filters.                            *)
Count(T, included) == Cardinality(Visible(T, included))

(* list(0, MAX_HISTORY_RECORDS, ...): without a sort, by id.               *)
Records(T, included) ==
  {h \in Visible(T, included) :
     Cardinality({g \in Visible(T, included) : g.id < h.id}) < Cap}

(* Variant of HasValue: a hero without a level counts as one at zero.      *)
CountsAsZero(h, field) == TRUE

(* numeric_value: filter_map drops a record whose field is None.           *)
HasValue(h, field) == FieldOf(h, field) # Null

NumericValue(h, field) == IF FieldOf(h, field) = Null THEN 0 ELSE FieldOf(h, field)

Holding(S, field) == {h \in S : HasValue(h, field)}

Total(S, field) == SumFunctionOnSet([h \in S |-> NumericValue(h, field)], S)

NumericStat(S, field) ==
  LET held == Holding(S, field)
      values == {NumericValue(h, field) : h \in held}
  IN  IF held = {}
        THEN [count |-> 0, minimum |-> Null, maximum |-> Null, total |-> Null]
        ELSE [count |-> Cardinality(held), minimum |-> Min(values), maximum |-> Max(values),
              total |-> Total(held, field)]

BucketStart(b, h) == CreatedIn[b][h.id]

(* time_series: the buckets that hold a record, and how many.              *)
TimeSeries(S, b) ==
  [start \in {BucketStart(b, h) : h \in S} |-> Cardinality({h \in S : BucketStart(b, h) = start})]

(* get_stats                                                               *)
Stats(T, p) ==
  LET records == Records(T, p.included)
  IN  [total |-> Count(T, p.included),
       numeric |-> [field \in NumericFields |-> NumericStat(records, field)],
       series |-> IF p.bucket = Null THEN Null ELSE TimeSeries(records, p.bucket),
       archived |-> Count(T, TRUE) - Count(T, FALSE)]

(* get_prediction: the history of the live records' number, or of the sums *)
(* of one field, over the buckets in which some record has it.             *)
History(T, p) ==
  IF p.field = Null THEN TimeSeries(Records(T, FALSE), p.bucket)
  ELSE LET held == Holding(Records(T, FALSE), p.field)
       IN  [start \in {BucketStart(p.bucket, h) : h \in held} |->
              Total({h \in held : BucketStart(p.bucket, h) = start}, p.field)]

(* forecast refuses fewer than two buckets, and last_known is the last.    *)
Prediction(T, p) ==
  LET history == History(T, p)
      last == Max(DOMAIN history)
  IN  IF Cardinality(DOMAIN history) < 2 THEN Refused
      ELSE [field |-> p.field, bucket |-> p.bucket, last_known |-> <<last, history[last]>>,
            predictions |-> p.periods]

(* A refusal of the builder passes through and is not stored.              *)
Body(T, q) == IF q.kind = "stats" THEN Stats(T, Parsed(q)) ELSE Prediction(T, Parsed(q))

(* What a request is answered with: a body just built or one that another  *)
(* request has left under the same key.                                    *)
AnswersTo(T, q) ==
  IF Rejected(q) THEN {Refused}
  ELSE {Body(T, r) : r \in {r \in Requests : ~Rejected(r) /\ KeyOf(r) = KeyOf(q)}}

-----------------------------------------------------------------------------
(* Properties.                                                             *)

SumOver(f) == SumFunctionOnSet(f, DOMAIN f)

(* The parts of a stats body fit together and what the request asked for.  *)
StatsFit(T, q, stats) ==
  LET included == q.scope = "all"
      seen == Min({stats.total, Cap})
      level == stats.numeric["power_level"]
  IN  /\ stats.total = Count(T, FALSE) + IF included THEN stats.archived ELSE 0
      /\ stats.numeric["id"].count = seen
      /\ level.count = Cardinality({h \in Records(T, included) : h.level # Null})
      /\ \A field \in NumericFields :
           LET s == stats.numeric[field]
           IN  IF s.count = 0 THEN s.total = Null
               ELSE s.minimum * s.count <= s.total /\ s.total <= s.maximum * s.count
      /\ IF q.bucket = Null THEN stats.series = Null
         ELSE /\ SumOver(stats.series) = seen
              /\ DOMAIN stats.series \subseteq {BucketStart(q.bucket, h) : h \in T}

(* A forecast goes on from the last point of the history of what was asked *)
(* for, which the statistics of the live records have as well.             *)
PredictionFits(T, q, prediction) ==
  LET b == IF q.bucket = Null THEN "day" ELSE q.bucket
      stats == Stats(T, [included |-> FALSE, bucket |-> b])
      history == History(T, [field |-> q.field, bucket |-> b])
      last == Max(DOMAIN history)
  IN  /\ DOMAIN history \subseteq DOMAIN stats.series
      /\ q.field = Null => history = stats.series
      /\ q.field # Null => SumOver(history) = stats.numeric[q.field].total
      /\ prediction.field = q.field /\ prediction.bucket = b
      /\ prediction.last_known = <<last, history[last]>>
      /\ q.periods # Null => prediction.predictions = q.periods

AddsUp ==
  [T \in Tables |-> \A q \in Requests : \A body \in AnswersTo(T, q) :
     IF body = Refused THEN Rejected(q) \/ q.kind = "predict"
     ELSE IF q.kind = "stats" THEN StatsFit(T, q, body) ELSE PredictionFits(T, q, body)]

(* The body of a read answers that read, whichever request it was built    *)
(* for: one key stands for one question.  Its aggregates and its series    *)
(* look at every record up to the cap, a field some records lack is not    *)
(* counted for them, and a forecast continues the series and the totals of *)
(* the live records.  Beyond the cap, total alone counts on.               *)
AggregatesAddUp == AddsUp[heroes]
=============================================================================
