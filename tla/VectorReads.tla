----------------------------- MODULE VectorReads -----------------------------
(***************************************************************************)
(* The three ways a client reads a dataset - GET /vectors/{id}, GET        *)
(* /vectors with its offset cursor, POST /query with top_k and filter -    *)
(* over the embedded recall backend (RB_RECALL_BACKEND=memory), and the    *)
(* writes and folds they race.                                             *)
(*                                                                         *)
(* A read by id or a page resolves the newest catalog row (shard and       *)
(* watermark together), reads the shard's sidecar, then the memtable above *)
(* that watermark.  A query resolves, then scans the memtable on another   *)
(* thread while it searches the shard.  Each memtable call holds its lock  *)
(* throughout, so is one step.  A listing is a walk: one read per page,    *)
(* the client handing back the cursor of the page before.                  *)
(*                                                                         *)
(* Ids are numbered in the order in which their strings sort.  The payload *)
(* of a write is its LSN: a metadata filter, when there is one, matches    *)
(* the even ones, and a query vector is as near to a payload as the LSN is *)
(* low, or high.  Shards are searched exactly, as the flat index of a      *)
(* small shard is.  The dataset exists; without it every read is a 404.    *)
(*                                                                         *)
(* An index holds int64 hashes; only the sidecar leads from them to ids    *)
(* and metadata, and whoever fails to read it goes on with an empty one:   *)
(* a get, a page, a query, and a fold, which writes what it read into the  *)
(* next shard's sidecar.                                                   *)
(***************************************************************************)
EXTENDS Integers, Sequences, FiniteSets, SequencesExt

CONSTANTS
  Ids,           \* vector ids, numbered in sort order
  Readers,       \* clients reading
  DefaultLimit,  \* _VECTORS_LIST_DEFAULT_LIMIT
  MaxLimit,      \* _VECTORS_LIST_MAX_LIMIT
  Limits,        \* the page sizes clients ask for
  MaxTopK,       \* MAX_TOP_K
  TopKs,         \* the values of top_k clients ask for
  Nears,         \* whether a query vector is nearest to the "low" or the "high" payloads
  RecallMaxRows, \* RB_RECALL_MAX_ROWS
  MaxBatch,      \* bound: most records one POST /vectors carries
  MaxLsn,        \* bound: LSNs handed out
  MaxFaults      \* bound: failed calls

ASSUME ReadsAssumption ==
  /\ Ids \subseteq Nat /\ IsFiniteSet(Ids)
  /\ DefaultLimit \in Nat \ {0} /\ MaxLimit \in Nat \ {0} /\ Limits \subseteq Int
  /\ MaxTopK \in Nat /\ TopKs \subseteq Int
  /\ RecallMaxRows \in Nat
  /\ MaxBatch \in Nat /\ MaxLsn \in Nat /\ MaxFaults \in Nat

VARIABLES
  parts,    \* _MemRecall._parts: a row per id, lsn 0 when there is none
  last_lsn, \* _MemRecall._lsn
  shards,   \* the committed shards, oldest first: index, sidecar, consolidated_lsn
  objects,  \* the shards whose files are still there
  wanted,   \* a CONSOLIDATE message is waiting
  fold,     \* the consolidation under way
  req,      \* the request, or the walk, of each reader
  truth,    \* history: the version the last acknowledged write left at each id
  reshaped, \* history: the LSN of the last write that changed which ids are live
  forgotten, \* history: the ids whose record was in a shard, and not in recall, when a
             \* fold failed to read that shard's sidecar, and not written since
  faults    \* history: failed calls

storeVars == <<parts, last_lsn, truth, reshaped, forgotten>>
shardVars == <<shards, objects>>
vars == <<storeVars, shardVars, wanted, fold, req, faults>>

NoRow   == [lsn |-> 0, deleted |-> FALSE]
NoRows  == [i \in Ids |-> NoRow]
Nothing == [i \in Ids |-> 0]

Version(row) == IF row.deleted THEN 0 ELSE row.lsn
Resident     == {i \in Ids : parts[i].lsn > 0}

Newest == Len(shards)
Prior  == IF Newest = 0 THEN 0 ELSE Newest - 1

\* A shard without consolidated_lsn, and no shard at all, has watermark 0.
_watermark_of(g) == IF g = 0 THEN 0 ELSE shards[g].lsn

\* The vectors of a shard's index, and its sidecar's entry for each: under the id the
\* client gave, under the stringified hash with empty metadata, or none.
Vectors(g) == IF g = 0 THEN Nothing ELSE shards[g].vecs

NoNames == [i \in Ids |-> "none"]

Names(g) == IF g = 0 THEN NoNames ELSE shards[g].names

\* The decimal of an id's int64 hash, which is no client's id and sorts before them.
Hash(i) == -1 - i

Hashes == {Hash(i) : i \in Ids}

\* The records of a version map, as responses list them.
Records(vecs) == {[id |-> i, version |-> vecs[i]] : i \in {j \in Ids : vecs[j] > 0}}

\* The vectors of S under the names a sidecar has for them.  That of a hash has a
\* version, its vector's, but no payload.
Named(vecs, names, S) ==
  {[id |-> IF names[i] = "own" THEN i ELSE Hash(i), version |-> vecs[i]] :
     i \in {j \in S : vecs[j] > 0}}

\* What sidecars and memtable rows can hold.
Entries == [id : Ids \cup Hashes, version : 1..MaxLsn]

\* The elements of S, no two of one key, in the order of their keys.
InOrder(S, key) ==
  CHOOSE s \in [1..Cardinality(S) -> S] :
    \A i, j \in 1..Cardinality(S) : i < j => key[s[i]] < key[s[j]]

ById == [e \in Entries |-> e.id]

metadata_matches_filter(filter, e) == filter => e.id \in Ids /\ e.version % 2 = 0

Matching(records, filter) == {e \in records : metadata_matches_filter(filter, e)}

Idle == [pc |-> "idle"]

Init ==
  /\ parts = NoRows /\ last_lsn = 0
  /\ shards = <<>> /\ objects = {}
  /\ wanted = FALSE
  /\ fold = Idle
  /\ req = [r \in Readers |-> Idle]
  /\ truth = Nothing /\ reshaped = 0 /\ forgotten = {}
  /\ faults = 0

Fault == /\ faults < MaxFaults
         /\ faults' = faults + 1

-----------------------------------------------------------------------------
(* Writes *)

_alloc_block(n) == /\ last_lsn + n <= MaxLsn
                   /\ last_lsn' = last_lsn + n

\* After the write the endpoint asks for a fold when the partition is over its
\* cap; that the ask fails is swallowed.
CapTrigger ==
  wanted' \in IF Cardinality(Resident') > RecallMaxRows THEN {wanted, TRUE} ELSE {wanted}

Acknowledged(written) ==
  /\ truth' = [i \in Ids |-> IF i \in written THEN Version(parts'[i]) ELSE truth[i]]
  /\ reshaped' = IF \A i \in Ids : (truth'[i] > 0) = (truth[i] > 0) THEN reshaped
                                                                    ELSE last_lsn'
  /\ forgotten' = forgotten \ written

Batches(n) == {w \in [1..n -> Ids] : IsInjective(w)}

\* A batch, duplicates collapsed, is stamped with one block of LSNs in its order.
recall_upsert_vectors(winners) ==
  /\ _alloc_block(Len(winners))
  /\ parts' = [i \in Ids |->
       IF i \in Range(winners)
       THEN [lsn |-> last_lsn + (CHOOSE k \in DOMAIN winners : winners[k] = i),
             deleted |-> FALSE]
       ELSE parts[i]]
  /\ Acknowledged(Range(winners))
  /\ CapTrigger
  /\ UNCHANGED <<shardVars, fold, req, faults>>

recall_delete_vector(i) ==
  /\ _alloc_block(1)
  /\ parts' = [parts EXCEPT ![i] = [lsn |-> last_lsn', deleted |-> TRUE]]
  /\ Acknowledged({i})

\* DELETE /vectors/{id}: the tombstone, then the cap check, then 204.
delete_vector_endpoint(i) ==
  /\ recall_delete_vector(i)
  /\ CapTrigger
  /\ UNCHANGED <<shardVars, fold, req, faults>>

\* The idle tick names every partition whose newest row is old enough; time is
\* abstracted to "at any moment".
recall_idle_partitions ==
  /\ ~ wanted /\ Resident # {}
  /\ wanted' = TRUE
  /\ UNCHANGED <<storeVars, shardVars, fold, req, faults>>

-----------------------------------------------------------------------------
(* Folds, as far as the reads see them *)

\* The rows and their highest LSN are taken under one lock.
recall_snapshot_for_consolidation ==
  /\ fold.pc = "idle" /\ wanted
  /\ wanted' = FALSE
  /\ fold' = IF Resident = {} THEN Idle
             ELSE [pc |-> "snapped", rows |-> parts,
                   lsn |-> CHOOSE n \in {parts[i].lsn : i \in Resident} :
                             \A i \in Resident : parts[i].lsn <= n]
  /\ UNCHANGED <<storeVars, shardVars, req, faults>>

FoldedIndex ==
  [i \in Ids |-> IF fold.rows[i].lsn > 0 THEN Version(fold.rows[i])
                                         ELSE Vectors(Newest)[i]]

\* Only a fold that replaces or removes vectors of the index writes all of it anew.
Rebuilds == \E i \in Ids : fold.rows[i].lsn > 0 /\ Vectors(Newest)[i] > 0

\* A live row's entry is written; an older vector keeps the entry that was read.
\* Where there was none a rebuilt sidecar has one under the hash, and an extended
\* one none.
FoldedSidecar(read) ==
  [i \in Ids |->
     IF fold.rows[i].lsn > 0 THEN IF Version(fold.rows[i]) > 0 THEN "own" ELSE "none"
     ELSE IF read /\ Names(Newest)[i] # "none" THEN Names(Newest)[i]
     ELSE IF Vectors(Newest)[i] > 0 /\ Rebuilds THEN "hash" ELSE "none"]

\* The shard is built on the newest one, uploaded and its row added; a fold of
\* tombstones over no shard writes nothing.  That the older sidecar cannot be read
\* is swallowed.
add_shard ==
  /\ fold.pc = "snapped"
  /\ IF Newest = 0 /\ FoldedIndex = Nothing
     THEN /\ fold' = Idle
          /\ UNCHANGED <<shardVars, forgotten, faults>>
     ELSE \E read \in BOOLEAN :
          /\ IF read THEN UNCHANGED <<forgotten, faults>>
             ELSE /\ Newest # 0 /\ Fault
                  /\ forgotten' = forgotten \cup
                       {i \in Ids : parts[i].lsn = 0 /\ Vectors(Newest)[i] > 0}
          /\ shards' = Append(shards, [lsn |-> fold.lsn, vecs |-> FoldedIndex,
                                       names |-> FoldedSidecar(read)])
          /\ objects' = objects \cup {Newest + 1}
          /\ fold' = [pc |-> "committed"]
  /\ UNCHANGED <<parts, last_lsn, truth, reshaped, wanted, req>>

\* All but the two newest shards lose their files.
SweepSuperseded ==
  /\ fold.pc = "committed"
  /\ objects' = objects \cap {Newest, Prior}
  /\ fold' = [pc |-> "swept"]
  /\ UNCHANGED <<storeVars, shards, wanted, req, faults>>

\* The rows that both kept shards cover leave the memtable.
recall_trim ==
  /\ fold.pc = "swept"
  /\ parts' = [i \in Ids |-> IF parts[i].lsn <= _watermark_of(Prior) THEN NoRow
                                                                     ELSE parts[i]]
  /\ fold' = Idle
  /\ UNCHANGED <<last_lsn, truth, reshaped, forgotten, shardVars, wanted, req, faults>>

\* A fold that raises ends where it is; the next one starts afresh.
FoldFails ==
  /\ fold.pc # "idle"
  /\ Fault
  /\ fold' = Idle
  /\ UNCHANGED <<storeVars, shardVars, wanted, req>>

-----------------------------------------------------------------------------
(* Reads by id and listings *)

Read(r, next) == /\ req' = [req EXCEPT ![r] = next]
                 /\ UNCHANGED <<storeVars, shardVars, wanted, fold>>

\* get_latest_shard: the shard and its watermark come from one catalog row.
Resolved(what) == [pc |-> "resolved", shard |-> Newest, what |-> what]

get_vector_endpoint(r, i, include_values) ==
  /\ req[r].pc = "idle"
  /\ Read(r, Resolved([kind |-> "get", id |-> i, values |-> include_values]))
  /\ UNCHANGED faults

Walk(limit, filter) ==
  [kind |-> "list", offset |-> 0, limit |-> limit, filter |-> filter,
   got |-> <<>>, exact |-> TRUE, since |-> last_lsn]

\* A missing limit is the default, a larger one the maximum.
PageLimit(limit) == IF limit > MaxLimit THEN MaxLimit ELSE limit

\* The cursor carries the offset of the next page; a string that does not decode
\* to one is a 400.
_encode_cursor(offset) == [o |-> offset]
_decode_cursor(cursor) == cursor.o

\* A limit below 1 is a 400.
list_vectors_first(r, limit, filter) ==
  /\ req[r].pc = "idle"
  /\ limit >= 1
  /\ Read(r, Resolved(Walk(PageLimit(limit), filter)))
  /\ UNCHANGED faults

list_vectors_next(r) ==
  /\ req[r].pc = "paged"
  /\ Read(r, Resolved([req[r].what EXCEPT !.offset = _decode_cursor(req[r].cursor)]))
  /\ UNCHANGED faults

Loaded(r, names, whole) ==
  [pc |-> "loaded", shard |-> req[r].shard, what |-> req[r].what,
   names |-> names, whole |-> whole]

\* read_shard_sidecar: missing or unreadable degrades to an empty sidecar.
read_shard_sidecar(r) ==
  /\ req[r].pc = "resolved" /\ req[r].what.kind # "query"
  /\ LET g == req[r].shard
     IN  \/ /\ g \in objects \cup {0}
            /\ Read(r, Loaded(r, Names(g), TRUE))
            /\ UNCHANGED faults
         \/ /\ g \notin objects \cup {0}
            /\ Read(r, Loaded(r, NoNames, FALSE))
            /\ UNCHANGED faults
         \/ /\ g \in objects
            /\ Read(r, Loaded(r, NoNames, FALSE))
            /\ Fault

\* The shard a read resolved has been superseded at most once.
Fresh(r) == req[r].shard \in {Newest, Prior}

Above(r, i) == parts[i].lsn > _watermark_of(req[r].shard)

\* What the sidecar answers for an id: version 0 is a 404, -1 an entry under the hash.
Entry(r, i) ==
  CASE req[r].names[i] = "own"  -> Vectors(req[r].shard)[i]
    [] req[r].names[i] = "hash" -> -1
    [] OTHER                    -> 0

\* Mutant: the shard's copy is returned when the recall row is a tombstone.
GetIgnoringTombstone(r, i) ==
  IF Above(r, i) /\ Version(parts[i]) > 0 THEN Version(parts[i]) ELSE Entry(r, i)

\* "live" answers from recall, "tombstone" is a 404 (version 0), and only an id
\* recall does not know above the watermark falls through to the sidecar.
recall_get_vector(r, i) ==
  IF Above(r, i) THEN Version(parts[i]) ELSE Entry(r, i)

\* The embedding is known for a live recall row alone.
recall_get_vector_with_embedding(r, i) ==
  [version   |-> recall_get_vector(r, i),
   embedding |-> Above(r, i) /\ Version(parts[i]) > 0]

GetAnswer(r) ==
  /\ req[r].pc = "loaded" /\ req[r].what.kind = "get"
  /\ LET i == req[r].what.id
         answer == IF req[r].what.values THEN recall_get_vector_with_embedding(r, i)
                   ELSE [version |-> recall_get_vector(r, i), embedding |-> FALSE]
     IN  Read(r, [pc |-> "got", answer |-> answer, want |-> truth[i],
                  timely |-> req[r].whole /\ Fresh(r) /\ i \notin forgotten])
  /\ UNCHANGED faults

\* Every id recall knows above the watermark, and its live rows.
recall_list_rows(r) ==
  LET known == {i \in Ids : Above(r, i)}
  IN  [suppress |-> known,
       live |-> Records([i \in Ids |-> IF i \in known THEN Version(parts[i]) ELSE 0])]

SidecarRecords(r) ==
  Named(Vectors(req[r].shard), req[r].names, {i \in Ids : req[r].names[i] # "none"})

\* Mutant: recall's rows are appended to the sidecar's, unsorted.
RecordsUnsorted(r) ==
  LET recall == recall_list_rows(r)
      cold == {e \in SidecarRecords(r) : e.id \notin recall.suppress}
      Sorted(S) == InOrder(Matching(S, req[r].what.filter), ById)
  IN  Sorted(cold) \o Sorted(recall.live)

\* The sidecar's records less what recall knows, joined with recall's live rows,
\* only then filtered, and sorted by id.
SortedRecords(r) ==
  LET recall == recall_list_rows(r)
      cold == {e \in SidecarRecords(r) : e.id \notin recall.suppress}
  IN  InOrder(Matching(cold \cup recall.live, req[r].what.filter), ById)

\* A page, and the cursor of the next one unless this was the last.
ListAnswer(r) ==
  /\ req[r].pc = "loaded" /\ req[r].what.kind = "list"
  /\ LET what    == req[r].what
         records == SortedRecords(r)
         end     == what.offset + what.limit
         page    == SubSeq(records, what.offset + 1,
                           IF end < Len(records) THEN end ELSE Len(records))
         after   == [what EXCEPT !.got = @ \o [k \in DOMAIN page |-> page[k].id],
                                 !.exact = /\ @ /\ req[r].whole /\ Fresh(r)
                                           /\ forgotten = {}
                                           /\ \A i \in Ids : req[r].names[i] # "hash"]
     IN  IF end < Len(records)
         THEN Read(r, [pc |-> "paged", what |-> after, cursor |-> _encode_cursor(end)])
         ELSE Read(r, [pc |-> "listed", what |-> after])
  /\ UNCHANGED faults

-----------------------------------------------------------------------------
(* Queries *)

\* top_k outside 1..MAX_TOP_K is a 400, like any other malformed body.
validate_query_body(top_k) == top_k >= 1 /\ top_k <= MaxTopK

\* A query names top_k, a filter or none, and a vector near low or high payloads.
run_query(r, top_k, filter, near) ==
  /\ req[r].pc = "idle"
  /\ validate_query_body(top_k)
  /\ Read(r, [pc |-> "resolved", shard |-> Newest, want |-> Nothing, timely |-> FALSE,
              what |-> [kind |-> "query", top_k |-> top_k, filter |-> filter, near |-> near],
              recall |-> <<>>, hits |-> <<>>, named |-> FALSE])
  /\ UNCHANGED faults

Distance(near) == [e \in Entries |-> IF near = "low" THEN e.version ELSE -e.version]

\* The k records nearest to the query vector, nearest first.
Nearest(records, k, near) ==
  LET ranked == InOrder(records, Distance(near))
  IN  SubSeq(ranked, 1, IF k < Len(ranked) THEN k ELSE Len(ranked))

\* The recall worker's scan: what it suppresses is every id above the watermark,
\* what it matches the top_k nearest live rows that pass the filter.
recall_search(r) ==
  /\ req[r].pc = "resolved" /\ req[r].what.kind = "query" /\ req[r].recall = <<>>
  /\ LET what == req[r].what
         rows == recall_list_rows(r)
         found == [suppress |-> rows.suppress,
                   matches |-> Nearest(Matching(rows.live, what.filter), what.top_k, what.near)]
     IN  Read(r, [req[r] EXCEPT !.recall = <<found>>, !.want = truth, !.timely = Fresh(r)])
  /\ UNCHANGED faults

\* With a filter FAISS is asked for the whole shard, which is then filtered and
\* cut to top_k; without, for top_k hits.  A hit without entry goes by its hash.
_run_faiss_search(r, names) ==
  Nearest(Matching(Named(Vectors(req[r].shard), names, Ids), req[r].what.filter),
          req[r].what.top_k, req[r].what.near)

\* The query answers 503 once the recall worker is done; nothing is merged.
_consolidated_error_response(r) == Read(r, Idle)

\* Searching the shard meanwhile.  A shard whose files are gone is served from the
\* process's cache or fails the query (503).  The sidecar is empty where this query,
\* or the one that put the shard into the cache, could not read it.
_search_consolidated_shard(r) ==
  /\ req[r].pc = "resolved" /\ req[r].what.kind = "query" /\ req[r].hits = <<>>
  /\ \/ /\ \E names \in {Names(req[r].shard), NoNames} :
             Read(r, [req[r] EXCEPT
                        !.hits = <<_run_faiss_search(r, names)>>,
                        !.named = \A i \in Ids : Vectors(req[r].shard)[i] > 0
                                                   => names[i] = "own"])
        /\ UNCHANGED faults
     \/ /\ req[r].shard \notin objects \cup {0}
        /\ _consolidated_error_response(r)
        /\ UNCHANGED faults
     \/ /\ req[r].shard # 0
        /\ _consolidated_error_response(r)
        /\ Fault

\* Mutant: only the ids that became recall matches hide the shard's copies.
MergedByMatches(recall, hits, top_k, near) ==
  LET matched == {recall.matches[k].id : k \in DOMAIN recall.matches}
  IN  Nearest(Range(recall.matches) \cup {e \in Range(hits) : e.id \notin matched},
              top_k, near)

\* Recall's matches and the hits whose ids recall does not know, nearest first.
_merge_recall_and_consolidated(recall, hits, top_k, near) ==
  Nearest(Range(recall.matches) \cup {e \in Range(hits) : e.id \notin recall.suppress},
          top_k, near)

\* With no shard and nothing in recall the query becomes an ephemeral job.
QueryAnswer(r) ==
  /\ req[r].pc = "resolved" /\ req[r].what.kind = "query"
  /\ req[r].recall # <<>> /\ req[r].hits # <<>>
  /\ LET what == req[r].what
         recall == Head(req[r].recall)
         hits == Head(req[r].hits)
     IN  IF req[r].shard = 0 /\ recall.suppress = {}
         THEN Read(r, [pc |-> "ephemeral"])
         ELSE Read(r, [pc |-> "matched", what |-> what, want |-> req[r].want,
                       timely |-> req[r].timely, named |-> req[r].named,
                       hidden |-> \E e \in Range(hits) : e.id \in recall.suppress,
                       matches |-> _merge_recall_and_consolidated(recall, hits, what.top_k,
                                                                  what.near)])
  /\ UNCHANGED faults

\* The client is done with the answer, or gives up a walk between two pages.
Finish(r) ==
  /\ req[r].pc \in {"got", "paged", "listed", "matched", "ephemeral"}
  /\ Read(r, Idle)
  /\ UNCHANGED faults

-----------------------------------------------------------------------------

Write == \/ \E n \in 1..MaxBatch : \E winners \in Batches(n) : recall_upsert_vectors(winners)
         \/ \E i \in Ids : delete_vector_endpoint(i)

Consolidate == \/ recall_idle_partitions \/ recall_snapshot_for_consolidation
               \/ add_shard \/ SweepSuperseded \/ recall_trim \/ FoldFails

Crud(r) ==
  \/ \E i \in Ids, values \in BOOLEAN : get_vector_endpoint(r, i, values)
  \/ \E limit \in Limits \cup {DefaultLimit}, filter \in BOOLEAN :
       list_vectors_first(r, limit, filter)
  \/ list_vectors_next(r)
  \/ read_shard_sidecar(r)
  \/ GetAnswer(r) \/ ListAnswer(r)

Query(r) ==
  \/ \E top_k \in TopKs, filter \in BOOLEAN, near \in Nears :
       run_query(r, top_k, filter, near)
  \/ recall_search(r) \/ _search_consolidated_shard(r) \/ QueryAnswer(r)

Next == Write \/ Consolidate \/ \E r \in Readers : Crud(r) \/ Query(r) \/ Finish(r)

Spec == Init /\ [][Next]_vars

-----------------------------------------------------------------------------
(* Properties *)

\* GET by id reads its caller's writes and deletes: if the shard it resolved was
\* superseded at most once before the memtable was read, and its sidecar could be
\* read, the answer (404 is version 0) is what the last acknowledged write left, and a
\* returned embedding belongs to a live vector.  Only a fold that could not read a
\* sidecar makes this fail, for the ids it found in the shard alone, and for each of
\* them until its next write.
GetReadsTruth ==
  \A r \in Readers :
    req[r].pc = "got" /\ req[r].timely
      => /\ req[r].answer.version = req[r].want
         /\ req[r].answer.embedding => req[r].answer.version > 0

\* Nothing a client did since the walk began changes which ids it should list.
Steady(what) == IF what.filter THEN last_lsn = what.since ELSE reshaped <= what.since

Listing(filter) ==
  InOrder({e.id : e \in Matching(Records(truth), filter)}, [i \in Ids |-> i])

\* A walk over the pages lists every id once, in order, although folds, sweeps and
\* trims move records from the memtable into the shard between and within pages and
\* although ids are overwritten meanwhile: the pages so far are a prefix of the
\* listing, and the last page completes it.  A walk is no longer exact when a sidecar
\* cannot be read for a page, while an id is forgotten, or when an entry under a hash
\* that a fold left is still there.
WalkIsExact ==
  \A r \in Readers :
    req[r].pc \in {"paged", "listed"} /\ req[r].what.exact /\ Steady(req[r].what)
      => /\ IsPrefix(req[r].what.got, Listing(req[r].what.filter))
         /\ req[r].pc = "listed" => req[r].what.got = Listing(req[r].what.filter)

\* A query whose shard was superseded at most once before its recall scan returns
\* under its clients' ids live vectors only, at their last acknowledged version,
\* however scan, search and folds interleave and whatever sidecars could not be read;
\* under a filter it returns nothing else.  If every vector of its shard had a name
\* and recall hides none of the hits it returns exactly the top_k nearest.
MatchesAreLive ==
  \A r \in Readers :
    req[r].pc = "matched" /\ req[r].timely
      => LET what == req[r].what
             live == Matching(Records(req[r].want), what.filter)
         IN  /\ \A e \in Range(req[r].matches) :
                  e.id \in Ids \/ what.filter => e \in live
             /\ req[r].named /\ ~ req[r].hidden
                  => req[r].matches = Nearest(live, what.top_k, what.near)

=============================================================================
