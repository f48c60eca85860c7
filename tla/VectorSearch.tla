---------------------------- MODULE VectorSearch ----------------------------
(***************************************************************************)
(* Search and Get of the memory adapters as functions of the stored rows.  *)
(* sqlite scans all rows, keeps those whose metadata match, and inserts    *)
(* each into a list of the k nearest; the others send the same question to *)
(* a server and turn its scores into distances.  A row has a distance from *)
(* the query (distances are small numbers), a metadata value, and may be   *)
(* the zero vector, which has no direction.                                *)
(***************************************************************************)
EXTENDS Integers, Sequences, FiniteSetsExt

(* A metadata value: the type it has in Go or JSON, and what it says.      *)
Value == [type : {"int", "float", "string"}, is : {"1", "2"}]

(* A row: [dist, zero, meta], meta a Value or None.                        *)

-----------------------------------------------------------------------------
(* valuesEqual: equal values, or equal numbers of two types.               *)
Number(v) == v.type \in {"int", "float"}
ValuesEqual(a, b) == a = b \/ (Number(a) /\ Number(b) /\ a.is = b.is)

(* matchesFilter, for a filter of one predicate at most.                   *)
MatchesFilter(row, filter) ==
  filter = {} \/ (row.meta # {} /\ \A want \in filter : \E got \in row.meta : ValuesEqual(got, want))

(* insertHit: the hit goes to the end, or takes the place of the last one  *)
(* if it is nearer, and moves up past the hits that are farther.           *)
BubbleUp(hits, h) ==
  LET place == Max({0} \union {i \in DOMAIN hits : hits[i].dist <= h.dist})
  IN SubSeq(hits, 1, place) \o <<h>> \o SubSeq(hits, place + 1, Len(hits))

(* Slip: a hit as far as the last one takes its place.                     *)
InsertLatest(hits, h, k) ==
  IF Len(hits) < k THEN BubbleUp(hits, h)
  ELSE IF h.dist > hits[Len(hits)].dist THEN hits
  ELSE BubbleUp(SubSeq(hits, 1, Len(hits) - 1), h)

InsertHit(hits, h, k) ==
  IF Len(hits) < k THEN BubbleUp(hits, h)
  ELSE IF h.dist >= hits[Len(hits)].dist THEN hits
  ELSE BubbleUp(SubSeq(hits, 1, Len(hits) - 1), h)

(* sqlite's Search.                                                        *)
SqliteSearch(rows, k, filter) ==
  IF k <= 0 THEN <<>>
  ELSE LET hits[n \in 0 .. Len(rows)] ==
             IF n = 0 THEN <<>>
             ELSE IF MatchesFilter(rows[n], filter) /\ ~ rows[n].zero THEN InsertHit(hits[n - 1], rows[n], k)
             ELSE hits[n - 1]
       IN hits[Len(rows)]

-----------------------------------------------------------------------------
(* The k nearest rows of a set of places, from the nearest on, the earlier *)
(* before the later at the same distance.                                  *)
Before(rows, i, j) == rows[i].dist < rows[j].dist \/ (rows[i].dist = rows[j].dist /\ i < j)
Rank(rows, places, i) == 1 + Cardinality({j \in places : Before(rows, j, i)})

Nearest(rows, places, k) ==
  LET size == IF Cardinality(places) < k THEN Cardinality(places) ELSE k
  IN [r \in 1 .. size |-> rows[CHOOSE i \in places : Rank(rows, places, i) = r]]

-----------------------------------------------------------------------------
(* The servers: k is 10 where it is not positive, the filter is part of    *)
(* the question, and the rows come back from the nearest to the farthest;  *)
(* nobody compares the order of two at the same distance.                  *)
Limit(k) == IF k <= 0 THEN 10 ELSE k

(* pgvector compares the text of the metadata with the text of the value.  *)
PgvectorSearch(rows, k, filter) ==
  Nearest(rows, {i \in DOMAIN rows : \A want \in filter : \E got \in rows[i].meta : got.is = want.is}, Limit(k))

(* The others compare values of one type.                                  *)
Equal(rows, filter) == {i \in DOMAIN rows : filter \subseteq rows[i].meta}

(* chroma's distances are passed on as they are.                           *)
ChromaSearch(rows, k, filter) == Nearest(rows, Equal(rows, filter), Limit(k))

(* qdrant answers with scores: 1 - d for Cosine, a product (larger is      *)
(* nearer) for Dot, a distance for Euclid; the adapter turns Cosine back.  *)
Score(metric, d) == CASE metric = "Cosine" -> 1 - d [] metric = "Dot" -> 0 - d [] OTHER -> d
Distance(metric, score) == IF metric = "Cosine" THEN 1 - score ELSE score

QdrantSearch(rows, k, filter, metric) ==
  LET found == Nearest(rows, Equal(rows, filter), Limit(k))
  IN [i \in DOMAIN found |-> [found[i] EXCEPT !.dist = Distance(metric, Score(metric, found[i].dist))]]

-----------------------------------------------------------------------------
(* Properties, of every input of a run: rows, k and filter.                *)

(* The scan's bounded list is the nearest k of the rows that match, in the *)
(* order of their distance, the earlier row before the later at a tie.     *)
Fitting(rows, filter) == {i \in DOMAIN rows : MatchesFilter(rows[i], filter) /\ ~ rows[i].zero}

ScanIsNearest(rows, k, filter) ==
  SqliteSearch(rows, k, filter) = IF k <= 0 THEN <<>> ELSE Nearest(rows, Fitting(rows, filter), k)

(* A program that changes its adapter gets the distances it got before, as *)
(* long as every row has a direction, it asks for some hits, and it        *)
(* filters by texts, or by nothing; pgvector, which compares texts, finds  *)
(* numbers too.                                                            *)
Distances(hits) == [i \in DOMAIN hits |-> hits[i].dist]

AdaptersAgree(rows, k, filter) ==
  k > 0 /\ (\A i \in DOMAIN rows : ~ rows[i].zero) /\ (\A v \in filter : v.type = "string") =>
    LET scan == Distances(SqliteSearch(rows, k, filter))
    IN /\ Distances(ChromaSearch(rows, k, filter)) = scan
       /\ Distances(QdrantSearch(rows, k, filter, "Cosine")) = scan
       /\ IF filter = {} THEN Distances(PgvectorSearch(rows, k, filter)) = scan
          ELSE Len(PgvectorSearch(rows, k, filter)) >= Len(scan)

(* Whatever the metric, a nearer hit has a smaller distance (qdrant.go:    *)
(* "the SPI calls for distances where smaller = closer regardless of       *)
(* metric").                                                               *)
SmallerIsCloser(rows, k, metric) ==
  LET hits == QdrantSearch(rows, k, {}, metric)
  IN \A i \in 1 .. Len(hits) - 1 : hits[i].dist <= hits[i + 1].dist
=============================================================================
