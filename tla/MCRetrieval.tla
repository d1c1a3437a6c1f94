----------------------------- MODULE MCRetrieval ------------------------------
(***************************************************************************)
(* Retrieval for TLC: two indexers of overlapping documents, a search and a *)
(* deletion, over every kind of store and every fusion.                     *)
(***************************************************************************)
EXTENDS Retrieval

MCTasks == {"writer", "rewriter", "reader", "pruner"}

Doc(id, version, length) == [id |-> id, version |-> version, length |-> length]

Old == <<Doc("a", 1, 4), Doc("b", 1, 2), Doc("c", 1, 0)>>
New == <<Doc("c", 2, 1), Doc("c", 3, 2), Doc("a", 2, 2)>>

MCDocuments == ToSet(Old) \cup ToSet(New)

Jobs(topK, filter, ids) ==
  [writer |-> [kind |-> "index", docs |-> Old],
   rewriter |-> [kind |-> "index", docs |-> New],
   reader |-> [kind |-> "search", topK |-> topK, filter |-> filter,
               minScore |-> IF topK = 2 THEN 20 ELSE 0],
   pruner |-> [kind |-> "delete", ids |-> ids, filter |-> IF ids = {} THEN "a" ELSE "none"]]

Config(kind, fusion, split, size, overlap, batch, jobs) ==
  [kind |-> kind, fusion |-> fusion, split |-> split, size |-> size, overlap |-> overlap,
   batch |-> batch, jobs |-> jobs]

MCConfigs ==
  {Config(kind, fusion, TRUE, 2, overlap, batch, Jobs(topK, filter, ids)) :
     kind \in Kinds, fusion \in Fusions, overlap \in {0, 1, 3}, batch \in {1, 2}, topK \in {1, 2},
     filter \in {"none", "a"}, ids \in {{}, {<<"a", 0>>, <<"b", 0>>}}}
  \cup {Config("hybrid", fusion, FALSE, 2, 0, 3, Jobs(2, "none", {<<"c", Whole>>})) :
          fusion \in Fusions}

(* Negative cosines, equal scores, and texts only one store finds.          *)
MCVectorScore(text) ==
  CASE text.doc = "a" -> 2 - text.from
    [] text.doc = "b" -> 1
    [] text.doc = "c" -> 0 - text.version

MCTermScore(text) ==
  CASE text.doc = "a" -> IF text.from = 0 THEN 1 ELSE 0
    [] text.doc = "b" -> 2
    [] text.doc = "c" -> 3 - text.version
===============================================================================
