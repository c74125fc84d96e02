----------------------------- MODULE TextIndex -----------------------------
(***************************************************************************)
(* The inverted index of a text column (src/src/index/text): documents     *)
(* added and removed one by one (GIN), the same index built in sorted       *)
(* blocks (SPIMI), and the candidates of the two rankings.  A term stands   *)
(* for what TextProcessor makes of a word, a score for the terms, counts    *)
(* and totals it is computed from.                                          *)
(***************************************************************************)
EXTENDS Integers, Sequences, FiniteSets, SequencesExt, TLC

CONSTANTS Text,       \* each text's terms, in order
          BlockDocs   \* max_records_per_block

(* rid_to_doc_id, doc_id_to_rid                                             *)
DocId(rid) == rid[1] * 2 ^ 16 + (rid[2] % 2 ^ 16)
DocRid(id) == <<id \div 2 ^ 16, id % 2 ^ 16>>

(* An index: postings <<document, frequency>> of each term, the length of   *)
(* each document, their number, and _doc_norms, empty or what they were     *)
(* computed from.                                                           *)
Nothing == [postings |-> <<>>, lengths |-> <<>>, total |-> 0, norms |-> <<>>]

Counts(tokens) == [t \in ToSet(tokens) |-> Cardinality({i \in DOMAIN tokens : tokens[i] = t})]

(* Postings stay in the order of the documents.                             *)
Posted(list, doc, frequency) ==
  SelectSeq(list, LAMBDA p : p[1] <= doc) \o <<<<doc, frequency>>>> \o SelectSeq(list, LAMBDA p : p[1] > doc)

Postings(x, t) == IF t \in DOMAIN x.postings THEN x.postings[t] ELSE <<>>

(* add_document                                                             *)
WithDocument(x, doc, tokens) ==
  LET counts == Counts(tokens)
  IN [postings |-> [t \in DOMAIN counts |-> Posted(Postings(x, t), doc, counts[t])] @@ x.postings,
      lengths |-> (doc :> Len(tokens)) @@ x.lengths,
      total |-> x.total + 1,
      norms |-> <<>>]

(* remove_document: a term without documents goes.                          *)
WithoutDocument(x, doc) ==
  LET kept == [t \in DOMAIN x.postings |-> SelectSeq(x.postings[t], LAMBDA p : p[1] # doc)]
  IN IF doc \notin DOMAIN x.lengths THEN x
     ELSE [postings |-> [t \in {u \in DOMAIN kept : kept[u] # <<>>} |-> kept[t]],
           lengths |-> [d \in DOMAIN x.lengths \ {doc} |-> x.lengths[d]],
           total |-> IF x.total > 0 THEN x.total - 1 ELSE 0,
           norms |-> <<>>]

-----------------------------------------------------------------------------
(* index_corpus: blocks of documents <<id, tokens>>, each spilled as pairs  *)
(* of a term and its postings in the order of the terms, and merged.        *)

Block(docs) == FoldLeft(LAMBDA x, d : WithDocument(x, d[1], d[2]), Nothing, docs).postings

Spill(block) ==
  LET terms == SetToSortSeq(DOMAIN block, LAMBDA t, u : t < u)
  IN [i \in DOMAIN terms |-> <<terms[i], block[terms[i]]>>]

(* Frequencies of a document that several blocks have are added up.         *)
Together(lists) ==
  LET all == FlattenSeq(lists)
      docs == SetToSortSeq({p[1] : p \in ToSet(all)}, LAMBDA d, e : d < e)
      sum(d) == FoldLeft(LAMBDA n, p : IF p[1] = d THEN n + p[2] ELSE n, 0, all)
  IN [i \in DOMAIN docs |-> <<docs[i], sum(docs[i])>>]

(* The heap holds the next pair of each block: all those of the least term  *)
(* go together, and a term that comes up again takes the place of the first.*)
MergeTerm(h) ==
  LET left == SelectSeq(h.blocks, LAMBDA b : b # <<>>)
      least == CHOOSE t \in {b[1][1] : b \in ToSet(left)} : \A b \in ToSet(left) : t <= b[1][1]
      with == SelectSeq(left, LAMBDA b : b[1][1] = least)
  IN [blocks |-> [i \in DOMAIN left |-> IF left[i][1][1] = least THEN Tail(left[i]) ELSE left[i]],
      merged |-> (least :> Together([i \in DOMAIN with |-> with[i][1][2]])) @@ h.merged]

MergeBlocks(blocks) ==
  LET terms == {pair[1] : pair \in UNION {ToSet(b) : b \in ToSet(blocks)}}
      after[n \in 0 .. Cardinality(terms)] ==
        IF n = 0 THEN [blocks |-> blocks, merged |-> <<>>] ELSE MergeTerm(after[n - 1])
  IN after[Cardinality(terms)].merged

IndexCorpus(docs) ==
  LET count == (Len(docs) + BlockDocs - 1) \div BlockDocs
      last(b) == IF b * BlockDocs > Len(docs) THEN Len(docs) ELSE b * BlockDocs
      blocks == [b \in 1 .. count |-> Spill(Block(SubSeq(docs, (b - 1) * BlockDocs + 1, last(b))))]
  IN [postings |-> MergeBlocks(blocks),
      lengths |-> [d \in {e[1] : e \in ToSet(docs)} |-> Len((CHOOSE e \in ToSet(docs) : e[1] = d)[2])],
      total |-> Len(docs), norms |-> <<>>]

-----------------------------------------------------------------------------
(* What a query finds.                                                      *)

(* idf and idf_smooth are zero when there is no document, and only then.    *)
Weighty(x, t) == Postings(x, t) # <<>> /\ x.total > 0

(* compute_doc_norms: each term's weight, from its frequency in the         *)
(* document, the documents that have it and the number of all.              *)
Norms(x) ==
  LET terms(d) == {t \in DOMAIN x.postings : \E p \in ToSet(x.postings[t]) : p[1] = d}
      weight(d, t) == <<t, (CHOOSE p \in ToSet(x.postings[t]) : p[1] = d)[2], Len(x.postings[t]), x.total>>
  IN [d \in {e \in DOMAIN x.lengths : terms(e) # {}} |-> {weight(d, t) : t \in terms(d)}]

WithNorms(x) == IF x.norms = <<>> /\ x.total > 0 THEN [x EXCEPT !.norms = Norms(x)] ELSE x

(* The documents score_bm25 ranks.                                          *)
Bm25(x, query) ==
  IF x.total = 0 THEN {}
  ELSE UNION {{p[1] : p \in ToSet(Postings(x, t))} : t \in {u \in query : Weighty(x, u)}}

(* The documents score_tfidf_cosine ranks: those with a norm.               *)
TfIdf(x, query) == Bm25(x, query) \cap DOMAIN WithNorms(x).norms

(* The documents an index holds, each with its terms.                       *)
Documents(x) ==
  [d \in DOMAIN x.lengths |->
     [t \in {u \in DOMAIN x.postings : \E p \in ToSet(x.postings[u]) : p[1] = d} |->
        (CHOOSE p \in ToSet(x.postings[t]) : p[1] = d)[2]]]
=============================================================================
