------------------------------ MODULE Retrieval ------------------------------
(***************************************************************************)
(* From a pasted text to the chunks that answer a query: a text is cut     *)
(* into chunks, the chunks are embedded if the provider can, inserted one  *)
(* by one and the document after them; a query reads the documents, then   *)
(* the chunks, and ranks by vectors or by words.  One source, on the JSON  *)
(* files (Postgres refuses chunks without a document, Knowledge.tla).      *)
(*                                                                         *)
(* A text is the sequence of its paragraphs' lengths; a chunk knows which  *)
(* paragraphs are in it whole.  A vector is known by the provider that     *)
(* made it; scores are not modelled.                                       *)
(***************************************************************************)
EXTENDS Integers, Sequences, FiniteSets

LOCAL INSTANCE SequencesExt

CONSTANTS
    Texts,       \* what is pasted
    Target,      \* CHUNK_TARGET
    Overlap,     \* CHUNK_OVERLAP
    Gap,         \* length of a blank line
    CorpusCap,   \* SEMANTIC_CORPUS_CAP
    Embedders,   \* the providers that embed
    NoVector,    \* no embedding; no embedder
    MaxPastes,   \* bound: documents pasted
    MaxRestarts  \* bound: restarts

ASSUME RetrievalAssumption ==
    /\ {Target, Overlap, Gap, MaxPastes, MaxRestarts} \subseteq Nat /\ Overlap < Target
    /\ CorpusCap \in Nat \ {0}
    /\ Texts \subseteq Seq(Nat \ {0}) /\ NoVector \notin Embedders

VARIABLES
    embedder,   \* the provider's, if it embeds; fixed while the process runs
    chunkRows,  \* the chunks on record
    documents,  \* the documents on record
    pastes,     \* the number of texts pasted
    adding,     \* the document being added, and the chunks left to insert
    removing,   \* the document being removed
    query,      \* the query being answered
    removed,    \* history: documents whose removal has begun
    restarts    \* history: the embedders of earlier processes

retrievalVars == <<embedder, chunkRows, documents, pastes, adding, removing, query,
                   removed, restarts>>

Free == [at |-> "free"]

(***************************************************************************)
(* chunkText.                                                              *)
(***************************************************************************)
NoText == [length |-> 0, whole |-> {}]

Joined(current, text, i) ==
    [length |-> (IF current.length > 0 THEN current.length + Gap ELSE 0) + text[i],
     whole  |-> current.whole \cup {i}]

\* A chunk that a paragraph starts: with the end of the chunk before, or, when
\* that makes it too long, alone and cut to the target.
Started(current, text, i) ==
    LET tail == IF current.length < Overlap THEN current.length ELSE Overlap
    IN  IF text[i] + Overlap > Target
        THEN [length |-> IF text[i] > Target THEN Target ELSE text[i],
              whole  |-> IF text[i] > Target THEN {} ELSE {i}]
        ELSE [length |-> tail + Gap + text[i], whole |-> {i}]

AddParagraph(cut, text, i) ==
    IF cut.current.length > 0 /\ cut.current.length + text[i] + Gap > Target
    THEN [chunks |-> Append(cut.chunks, cut.current),
          current |-> Started(cut.current, text, i)]
    ELSE [cut EXCEPT !.current = Joined(@, text, i)]

ChunkText(text) ==
    LET all == FoldLeft(LAMBDA cut, i : AddParagraph(cut, text, i),
                        [chunks |-> <<>>, current |-> NoText],
                        [i \in DOMAIN text |-> i])
    IN  IF all.current = NoText THEN all.chunks ELSE Append(all.chunks, all.current)

(***************************************************************************)
(* addDocument and deleteDocument.                                         *)
(***************************************************************************)
\* Embedding may fail: the text is then kept without vectors.
AddDocument ==
    /\ adding = Free /\ pastes < MaxPastes
    /\ pastes' = pastes + 1
    /\ \E text \in Texts, vector \in {embedder, NoVector} :
           LET chunks == ChunkText(text)
               row(i) == [document |-> pastes, ordinal |-> i, chunk |-> chunks[i],
                          vector |-> vector]
           IN  adding' = [at |-> "chunks", document |-> pastes, text |-> text,
                          count |-> Len(chunks), left |-> [i \in DOMAIN chunks |-> row(i)]]
    /\ UNCHANGED <<embedder, chunkRows, documents, removing, query, removed, restarts>>

InsertChunk ==
    /\ adding # Free /\ adding.left # <<>>
    /\ chunkRows' = chunkRows \cup {Head(adding.left)}
    /\ adding' = [adding EXCEPT !.left = Tail(@)]
    /\ UNCHANGED <<embedder, documents, pastes, removing, query, removed, restarts>>

InsertDocument ==
    /\ adding # Free /\ adding.left = <<>>
    /\ documents' = documents \cup {[id |-> adding.document, chunkCount |-> adding.count,
                                     text |-> adding.text]}
    /\ adding' = Free
    /\ UNCHANGED <<embedder, chunkRows, pastes, removing, query, removed, restarts>>

ChunksOf(id) == {r \in chunkRows : r.document = id}

DeleteDocument ==
    /\ removing = Free
    /\ \E d \in documents : removing' = [at |-> "chunks", document |-> d.id,
                                         left |-> ChunksOf(d.id)]
    /\ removed' = removed \cup {removing'.document}
    /\ UNCHANGED <<embedder, chunkRows, documents, pastes, adding, query, restarts>>

RemoveNext ==
    /\ removing # Free
    /\ IF removing.left = {}
       THEN /\ documents' = {d \in documents : d.id # removing.document}
            /\ removing' = Free /\ UNCHANGED chunkRows
       ELSE LET r == CHOOSE r \in removing.left :
                        \A s \in removing.left : r.ordinal <= s.ordinal
            IN  /\ chunkRows' = chunkRows \ {r}
                /\ removing' = [removing EXCEPT !.left = @ \ {r}]
                /\ UNCHANGED documents
    /\ UNCHANGED <<embedder, pastes, adding, query, removed, restarts>>

(***************************************************************************)
(* retrieve.                                                               *)
(***************************************************************************)
ReadDocuments ==
    /\ query.at \in {"free", "answered"}
    /\ query' = [at |-> "chunks", documents |-> documents]
    /\ UNCHANGED <<embedder, chunkRows, documents, pastes, adding, removing, removed, restarts>>

ReadChunks ==
    /\ query.at = "chunks"
    /\ query' = [at |-> "rank", documents |-> query.documents,
                 chunks |-> {r \in chunkRows : r.document \in {d.id : d \in query.documents}}]
    /\ UNCHANGED <<embedder, chunkRows, documents, pastes, adding, removing, removed, restarts>>

\* The chunks in the order of the collection: documents are pasted one by one.
StoredBefore(r, s) == r.document < s.document \/ (r.document = s.document /\ r.ordinal < s.ordinal)

\* The first so many chunks, the only ones that vectors are compared of.
Capped(chunks) ==
    {r \in chunks : Cardinality({s \in chunks : StoredBefore(s, r)}) < CorpusCap}

\* Mutant: the vectors on record are used as soon as there is one.
VectorsIfAny(corpus) ==
    IF \E r \in corpus : r.vector # NoVector
    THEN {r.vector : r \in corpus} ELSE {embedder}

\* The vectors on record, or new ones when any is missing.
Vectors(corpus) ==
    IF \A r \in corpus : r.vector # NoVector
    THEN {r.vector : r \in corpus} ELSE {embedder}

\* Embedding the corpus or the query may fail, and words are compared instead, of
\* every chunk.
Rank ==
    /\ query.at = "rank"
    /\ \/ /\ query.chunks # {} /\ embedder # NoVector
          /\ LET corpus == Capped(query.chunks)
             IN  query' = [query EXCEPT !.at = "answered"]
                          @@ [method |-> "semantic", query |-> embedder, compared |-> corpus,
                              capped |-> Cardinality(query.chunks) > CorpusCap,
                              vectors |-> Vectors(corpus)]
       \/ query' = [query EXCEPT !.at = "answered"]
                   @@ [method |-> "lexical", query |-> NoVector, compared |-> query.chunks,
                       capped |-> FALSE, vectors |-> {}]
    /\ UNCHANGED <<embedder, chunkRows, documents, pastes, adding, removing, removed, restarts>>

\* A new process, perhaps with another provider; what was under way is not resumed.
RestartWith(e) ==
    /\ Cardinality(restarts) < MaxRestarts
    /\ restarts' = restarts \cup {embedder}
    /\ embedder' = e
    /\ adding' = Free /\ removing' = Free /\ query' = Free
    /\ UNCHANGED <<chunkRows, documents, pastes, removed>>

RetrievalInit ==
    /\ embedder \in Embedders \cup {NoVector}
    /\ chunkRows = {} /\ documents = {} /\ pastes = 0
    /\ adding = Free /\ removing = Free /\ query = Free
    /\ removed = {} /\ restarts = {}

RetrievalNext ==
    \/ AddDocument \/ InsertChunk \/ InsertDocument \/ DeleteDocument \/ RemoveNext
    \/ ReadDocuments \/ ReadChunks \/ Rank
    \/ \E e \in Embedders \cup {NoVector} : RestartWith(e)

(***************************************************************************)
(* Properties.                                                             *)
(***************************************************************************)
\* A query is compared with the whole of a document though documents come and go
\* between its two reads: chunks are written before their document and read after
\* it.  Two kinds of documents are compared in part or not at all: one that is being
\* removed, and one behind the cap; the answer then says that the corpus was
\* capped, and it says so only when chunks were left out and the cap is full.
WholeDocuments ==
    query.at = "answered" =>
        /\ \A d \in query.documents :
               \/ d.id \in removed \/ query.capped
               \/ Cardinality({r \in query.compared : r.document = d.id}) = d.chunkCount
        /\ query.capped <=> query.compared # query.chunks
        /\ query.capped => Cardinality(query.compared) = CorpusCap

\* The query is compared with vectors of its own kind, also when embedding failed
\* for some documents; a provider of another kind, set later, is not noticed.
OneSpace ==
    query.at = "answered" /\ query.method = "semantic" =>
        query.vectors = {query.query} \/ restarts \ {NoVector, query.query} # {}

\* Every paragraph of a document is whole in some chunk, and no chunk is longer
\* than the target and a blank line; but a first paragraph longer than the target
\* stays whole, and any other one is cut.
TextIsKept ==
    \A d \in documents : d.id \in removed \/
        /\ \A i \in DOMAIN d.text :
               (\E r \in ChunksOf(d.id) : i \in r.chunk.whole)
                   <=> (i = 1 \/ d.text[i] <= Target)
        /\ \A r \in ChunksOf(d.id) :
               r.chunk.length <= Target + Gap \/ d.text[1] > Target

\* What a query is answered from.
RetrievalIsSound == WholeDocuments /\ OneSpace /\ TextIsKept
=============================================================================
