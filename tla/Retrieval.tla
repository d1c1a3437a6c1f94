------------------------------ MODULE Retrieval -------------------------------
(***************************************************************************)
(* One collection of a retrieval store: a vector store, a full-text index,  *)
(* or both, indexed, searched and pruned by concurrent tasks                *)
(* (retrieval/indexing.py, provider.py, hybrid.py, vector/memory.py,        *)
(* fulltext/memory_fts.py).                                                 *)
(*                                                                         *)
(* Only the embedding of texts suspends a task, and only it can fail: the   *)
(* stores are dictionaries in memory.  A text is the document, its version  *)
(* and the range of characters it is cut from; what it scores for the query *)
(* is given.  Ids are assumed not to look like those of chunks.             *)
(***************************************************************************)
EXTENDS Integers, Sequences, FiniteSets, FiniteSetsExt, SequencesExt

CONSTANTS
  Tasks,
  Documents,        \* the versions of texts: their ids, numbers and lengths
  Configs,          \* the stores, and what each task does
  K,                \* RRFFusion.k; 60
  Unit,             \* scores are multiples of 1/Unit; K + rank and score spans divide it
  VectorScore(_),   \* _cosine(query, text), scaled
  TermScore(_)      \* query terms in the text

Text(doc, from, to) == [doc |-> doc.id, version |-> doc.version, from |-> from, to |-> to]

TextsOf(doc) == {Text(doc, from, to) : from, to \in 0 .. doc.length}

ASSUME FusionAssumption == K \in Nat /\ Unit \in Nat \ {0}

ASSUME DocumentsAssumption ==
  /\ \A d \in Documents : d.length \in Nat
  /\ \A d, e \in Documents : d.id = e.id /\ d.version = e.version => d = e

ASSUME ScoresAssumption ==
  \A d \in Documents : \A text \in TextsOf(d) : VectorScore(text) \in Int /\ TermScore(text) \in Nat

VARIABLES
  config,    \* kind, fusion, chunk size and overlap, and the jobs
  vector,    \* InMemoryVectorProvider._collections[...], in the order of the dictionary
  fulltext,  \* InMemoryFullTextProvider._indexes[...]
  task,      \* where each task is in its job
  stored     \* history: the versions last indexed and not deleted since

vars == <<config, vector, fulltext, task, stored>>

Kinds == {"vector", "fulltext", "hybrid"}
Fusions == {"rrf", "weighted", "cascade"}

ASSUME ConfigsAssumption ==
  \A c \in Configs :
    /\ c.kind \in Kinds /\ c.fusion \in Fusions
    /\ c.size \in Nat \ {0} /\ c.overlap \in Nat /\ c.batch \in Nat \ {0}
    /\ \A t \in Tasks :
         /\ c.jobs[t].kind = "index" => c.jobs[t].docs \in Seq(Documents)
         /\ c.jobs[t].kind = "search" => c.jobs[t].topK \in Nat /\ c.jobs[t].minScore \in Int

DocumentIds == {d.id : d \in Documents}

Ids == DocumentIds \X Int

Texts == UNION {TextsOf(d) : d \in Documents}

Records == [id : Ids, parent : {"none"} \cup DocumentIds, text : Texts]

Hits == Seq([id : Ids, score : Int])

Idle == [state |-> "idle"]

TaskStates ==
  [state : {"idle", "embedding", "done", "failed"}]
    \cup [state : {"embedding"}, batch : Nat \ {0}]
    \cup [state : {"done"}, v : Hits, f : Hits, chunks : Hits]

(* Embedding is a state of an index job's batch or of a search.  A store is *)
(* a dictionary: it has one record for an id.                               *)
TypeOK ==
  /\ task \in [Tasks -> TaskStates]
  /\ \A t \in Tasks : task[t].state = "embedding" /\ config.jobs[t].kind = "index"
                        => "batch" \in DOMAIN task[t]
  /\ \A store \in {vector, fulltext} :
       store \in Seq(Records) /\ IsInjective([i \in DOMAIN store |-> store[i].id])
  /\ stored \subseteq {[doc |-> d.id, version |-> d.version] : d \in Documents}

Init ==
  /\ config \in Configs
  /\ vector = <<>> /\ fulltext = <<>>
  /\ task = [t \in Tasks |-> Idle]
  /\ stored = {}

Job(t) == config.jobs[t]
HasVectors == config.kind # "fulltext"
HasTerms == config.kind # "vector"

(***************************************************************************)
(* Places of a list, those of higher scores first and equal ones as they    *)
(* stand: sorting is stable and descending.                                 *)
(***************************************************************************)
Before(score, i, j) == score[i] > score[j] \/ (score[i] = score[j] /\ i < j)

InOrder(places, score) ==
  [k \in 1 .. Cardinality(places) |->
     CHOOSE i \in places : Cardinality({j \in places : Before(score, j, i)}) = k - 1]

Ascending(places) == InOrder(places, [i \in places |-> 0])

(* What a list has at some of its places.                                   *)
At(list, places) == LET order == Ascending(places) IN [k \in DOMAIN order |-> list[order[k]]]

(***************************************************************************)
(* DefaultTextSplitter.split: where the chunks of a text begin.             *)
(***************************************************************************)
StepOver == config.size + config.overlap  \* mutant: the overlap is skipped

Step == IF config.size > config.overlap THEN config.size - config.overlap ELSE 1

(* A chunk begins at every multiple of the step, up to the first chunk that *)
(* reaches the end.                                                         *)
IsStart(i, length) ==
  /\ i < length /\ i % Step = 0
  /\ \A j \in 0 .. i - 1 : j % Step = 0 => j + config.size < length

Whole == 0 - 1  \* in place of a chunk's number

Record(doc, k, from, to, parent) ==
  [id |-> <<doc.id, k>>, parent |-> parent,
   text |-> Text(doc, from, to)]

(* Without a split, or without a chunk, the document stands for itself.     *)
Split(doc) ==
  LET starts == Ascending({i \in 0 .. doc.length - 1 : IsStart(i, doc.length)})
      end(i) == IF i + config.size < doc.length THEN i + config.size ELSE doc.length
  IN  IF ~config.split \/ starts = <<>> THEN <<Record(doc, Whole, 0, doc.length, "none")>>
      ELSE [k \in DOMAIN starts |->
              Record(doc, k - 1, starts[k], end(starts[k]), doc.id)]

SplitAll(docs) == FlattenSeq([i \in DOMAIN docs |-> Split(docs[i])])

(***************************************************************************)
(* The dictionaries: an entry keeps its place when it is written again.     *)
(***************************************************************************)
Appended(store, rec) == Append(store, rec)  \* mutant: whether or not the id is there

Put(store, rec) ==
  IF \E i \in DOMAIN store : store[i].id = rec.id
  THEN [i \in DOMAIN store |-> IF store[i].id = rec.id THEN rec ELSE store[i]]
  ELSE Append(store, rec)

PutAll(store, recs) == FoldLeft(Put, store, recs)

(***************************************************************************)
(* IndexingPipeline.index: each batch is split, embedded and written.       *)
(***************************************************************************)
Batch(t, n) == SubSeq(Job(t).docs, (n - 1) * config.batch + 1,
                      Min({n * config.batch, Len(Job(t).docs)}))
Batches(t) == (Len(Job(t).docs) + config.batch - 1) \div config.batch

UpsertVectors(recs) == vector' = IF HasVectors THEN PutAll(vector, recs) ELSE vector

UpsertTerms(recs) == fulltext' = IF HasTerms THEN PutAll(fulltext, recs) ELSE fulltext

(* A hybrid store writes both sides of a batch once it is embedded.         *)
TermsFirst(recs) == UpsertTerms(recs)  \* mutant: the full-text side before it

BeforeEmbedding(recs) == UNCHANGED fulltext

StartsBatch(t, n) ==
  /\ task' = [task EXCEPT ![t] = [state |-> "embedding", batch |-> n]]
  /\ BeforeEmbedding(SplitAll(Batch(t, n)))

StartIndex(t) ==
  /\ task[t].state = "idle" /\ Job(t).kind = "index"
  /\ StartsBatch(t, 1)
  /\ UNCHANGED <<config, vector, stored>>

(* Of two documents of a batch that have the same id the later one stays.   *)
IsLatest(docs, i) == \A j \in DOMAIN docs : j > i => docs[j].id # docs[i].id

VersionsOf(docs) ==
  {[doc |-> docs[i].id, version |-> docs[i].version] : i \in {j \in DOMAIN docs : IsLatest(docs, j)}}

(* A full-text index alone needs no embedding: its batches follow at once.  *)
WriteBatch(t) ==
  /\ task[t].state = "embedding" /\ Job(t).kind = "index"
  /\ LET n == task[t].batch
         docs == Batch(t, n)
         recs == SplitAll(docs)
     IN  /\ UpsertVectors(recs) /\ UpsertTerms(recs)
         /\ stored' = {s \in stored : \A i \in DOMAIN docs : s.doc # docs[i].id} \cup VersionsOf(docs)
         /\ task' = [task EXCEPT ![t] = IF n < Batches(t) THEN [state |-> "embedding", batch |-> n + 1]
                                        ELSE [state |-> "done"]]
  /\ UNCHANGED config

EmbeddingFails(t) ==
  /\ task[t].state = "embedding" /\ HasVectors
  /\ task' = [task EXCEPT ![t] = [state |-> "failed"]]
  /\ UNCHANGED <<config, vector, fulltext, stored>>

(***************************************************************************)
(* Deletion by ids, or else by filter; no ids and no filter match anything. *)
(***************************************************************************)
Matches(rec, filter) == filter = "none" \/ rec.parent = filter

Without(store, ids, filter) ==
  At(store, {i \in DOMAIN store : IF ids # {} THEN store[i].id \notin ids
                                  ELSE ~Matches(store[i], filter)})

DeleteVectors(t) == vector' = Without(vector, Job(t).ids, Job(t).filter)

DeleteTerms(t) == fulltext' = Without(fulltext, Job(t).ids, Job(t).filter)

Delete(t) ==
  /\ task[t].state = "idle" /\ Job(t).kind = "delete"
  /\ DeleteVectors(t) /\ DeleteTerms(t)
  /\ LET removed == (ToSet(vector) \cup ToSet(fulltext)) \ (ToSet(vector') \cup ToSet(fulltext'))
     IN  stored' = {s \in stored : \A rec \in removed :
                      rec.text.doc = s.doc => rec.text.version # s.version}
  /\ task' = [task EXCEPT ![t] = [state |-> "done"]]
  /\ UNCHANGED config

(***************************************************************************)
(* The search.                                                              *)
(***************************************************************************)
Sorted(hits) ==
  LET order == InOrder(DOMAIN hits, [i \in DOMAIN hits |-> hits[i].score])
  IN  [k \in DOMAIN order |-> hits[order[k]]]

Top(hits, k) == SubSeq(hits, 1, Min({k, Len(hits)}))

Hit(rec, score) == [id |-> rec.id, score |-> score]

Matching(store, filter) == At(store, {i \in DOMAIN store : Matches(store[i], filter)})

VectorHits(filter, k) ==
  LET recs == Matching(vector, filter)
  IN  Top(Sorted([i \in DOMAIN recs |-> Hit(recs[i], VectorScore(recs[i].text))]), k)

TermHits(filter, k) ==
  LET matching == Matching(fulltext, filter)
      recs == At(matching, {i \in DOMAIN matching : TermScore(matching[i].text) > 0})
  IN  Top(Sorted([i \in DOMAIN recs |-> Hit(recs[i], TermScore(recs[i].text))]), k)

(* 1 / (k + rank), the rank counted from 1.                                 *)
Reciprocal(hits) == [i \in DOMAIN hits |-> [hits[i] EXCEPT !.score = Unit \div (K + i)]]

(* Min-max normalisation: a list whose scores are all equal gets zeros.     *)
Normalised(hits) ==
  LET scores == {hits[i].score : i \in DOMAIN hits}
      span == IF Cardinality(scores) > 1 THEN Max(scores) - Min(scores) ELSE 1
  IN  [i \in DOMAIN hits |-> [hits[i] EXCEPT !.score = ((@ - Min(scores)) * Unit) \div span]]

IdsOf(hits) == {hits[i].id : i \in DOMAIN hits}
ScoreIn(hits, id) == IF id \in IdsOf(hits)
                     THEN (CHOOSE h \in ToSet(hits) : h.id = id).score ELSE 0

(* The dictionary of scores lists the vector hits before the others.        *)
Merged(v, f) == v \o At(f, {i \in DOMAIN f : f[i].id \notin IdsOf(v)})

Overwritten(v, f, id) ==  \* mutant: the second list replaces the score of the first
  IF id \in IdsOf(f) THEN ScoreIn(f, id) ELSE ScoreIn(v, id)

Accumulated(v, f, id) == ScoreIn(v, id) + ScoreIn(f, id)

Summed(v, f) ==
  LET all == Merged(v, f)
  IN  Sorted([i \in DOMAIN all |-> [all[i] EXCEPT !.score = Accumulated(v, f, all[i].id)]])

(* Recall by terms, or by vectors if no term is found; what has no vector   *)
(* hit scores nothing.                                                      *)
Cascade(v, f) ==
  LET recalled == IF f = <<>> THEN v ELSE f
      all == Merged(recalled, v)
  IN  Sorted([i \in DOMAIN all |-> [all[i] EXCEPT !.score = ScoreIn(v, all[i].id)]])

Fuse(v, f, k) ==
  Top(CASE config.fusion = "rrf" -> Summed(Reciprocal(v), Reciprocal(f))
        [] config.fusion = "weighted" -> Summed(Normalised(v), Normalised(f))
        [] config.fusion = "cascade" -> Cascade(v, f), k)

StartSearch(t) ==
  /\ task[t].state = "idle" /\ Job(t).kind = "search" /\ HasVectors
  /\ task' = [task EXCEPT ![t] = [state |-> "embedding"]]
  /\ UNCHANGED <<config, vector, fulltext, stored>>

(* Scores below 0, the default of min_score, are dropped.                   *)
AtLeast(hits, score) == At(hits, {i \in DOMAIN hits : hits[i].score >= score})

Found(hits, v, f) == [state |-> "done", v |-> v, f |-> f, chunks |-> AtLeast(hits, 0)]

SearchVectors(filter, k) ==
  LET v == VectorHits(filter, k) IN Found(v, v, <<>>)

SearchTerms(filter, k) ==
  LET f == TermHits(filter, k) IN Found(f, <<>>, f)

(* Both stores are searched for twice as many.                              *)
SearchBoth(filter, k) ==
  LET v == VectorHits(filter, 2 * k)
      f == TermHits(filter, 2 * k)
  IN  Found(Fuse(v, f, k), v, f)

(* A Knowledge node takes the chunks that reach its own min_score, if it    *)
(* has one; fused scores are compared as they are.                          *)
KnowledgeChunks(t, chunks) ==
  IF Job(t).minScore = 0 THEN chunks ELSE AtLeast(chunks, Job(t).minScore)

Search(t) ==
  /\ Job(t).kind = "search"
  /\ task[t].state = IF HasVectors THEN "embedding" ELSE "idle"
  /\ LET k == Job(t).topK
         filter == Job(t).filter
         found == CASE config.kind = "hybrid" -> SearchBoth(filter, k)
                    [] config.kind = "vector" -> SearchVectors(filter, k)
                    [] config.kind = "fulltext" -> SearchTerms(filter, k)
     IN  task' = [task EXCEPT ![t] =
                    [found EXCEPT !.chunks = KnowledgeChunks(t, @)]]
  /\ UNCHANGED <<config, vector, fulltext, stored>>

Next ==
  \E t \in Tasks : StartIndex(t) \/ WriteBatch(t) \/ EmbeddingFails(t) \/ Delete(t)
                   \/ StartSearch(t) \/ Search(t)

Spec == Init /\ [][Next]_vars

-------------------------------------------------------------------------------
(* Whatever is embedded, fails, is deleted or overtaken, the two stores of  *)
(* a hybrid store hold the same records: a hit of either can be fused.      *)
StoresAgree == config.kind = "hybrid" => vector = fulltext

(* The version of a document that was indexed last and not deleted can be   *)
(* found whole: each of its characters is in a record, whatever its older   *)
(* versions left behind.                                                    *)
DocumentsAreFindable ==
  \A t \in Tasks : Job(t).kind = "index" =>
    \A i \in DOMAIN Job(t).docs :
      LET doc == Job(t).docs[i]
          recs(store) == {r \in ToSet(store) : r.text.doc = doc.id /\ r.text.version = doc.version}
          whole(store) == /\ recs(store) # {}
                          /\ \A c \in 0 .. doc.length - 1 :
                               \E r \in recs(store) : r.text.from <= c /\ c < r.text.to
      IN  [doc |-> doc.id, version |-> doc.version] \in stored =>
            (HasVectors => whole(vector)) /\ (HasTerms => whole(fulltext))

(* A record that is ranked before another in both lists is not behind it in *)
(* the answer, nor cut off by it; a record one list lacks is ranked last.   *)
Rank(hits, id) == IF id \in IdsOf(hits)
                  THEN CHOOSE i \in DOMAIN hits : hits[i].id = id ELSE Len(hits) + 1

BetterInBothIsNotBehind ==
  \A t \in Tasks : "chunks" \in DOMAIN task[t] /\ config.fusion # "cascade" =>
    LET v == task[t].v
        f == task[t].f
        answer == task[t].chunks
    IN  \A a, b \in IdsOf(v) \cup IdsOf(f) :
          a # b /\ Rank(v, a) <= Rank(v, b) /\ Rank(f, a) <= Rank(f, b)
            => Rank(answer, a) <= Rank(answer, b)
===============================================================================
