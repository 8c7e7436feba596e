----------------------------- MODULE Knowledge ------------------------------
(***************************************************************************)
(* The knowledge base: sources, the documents pasted into them and the     *)
(* chunks a document is cut into; and the strategy generator, which keeps  *)
(* one source of generated documents per business.                         *)
(***************************************************************************)
EXTENDS Completions

CONSTANTS
    Businesses,    \* business names typed into the growth form
    Chunks,        \* how many chunks a document may have
    StrategyDocs   \* how many documents a strategy has (STRATEGY_DOCS)

ASSUME KnowledgeAssumption == Chunks \subseteq Nat /\ StrategyDocs \in 1 .. 9

\* Names of sources: the form's are told from the generator's by the prefix.
StrategyName(business) == <<"Strategy", business>>
FormName == <<"", "notes">>

SourceOf(c) ==
    {s \in ById("knowledge_sources", loc[c].source) : s.organizationId = loc[c].org}

ChunksOf(document) == {k \in db["document_chunks"] : k.documentId = document}

NewSource(c, name) ==
    Inserting("knowledge_sources",
        [id |-> Number(c), organizationId |-> loc[c].org, name |-> name,
         kind |-> "upload"])

(***************************************************************************)
(* createSourceAction                                                      *)
(***************************************************************************)
CreateSource(c) ==
    /\ \E m \in SessionContext("knowledge.manage") :
           AcceptFrom(m, c, "source.create", [op |-> "createSource"])
    /\ UNCHANGED <<db, aiVars>>

InsertSource(c) ==
    /\ At(c, "source.create")
    /\ Calling(c, <<NewSource(c, FormName),
                    Auditing(c, "knowledge.source_created", Number(c))>>, "idle")
    /\ UNCHANGED <<db, aiVars>>

(***************************************************************************)
(* addDocument: the source is looked up, the text is cut into chunks and,  *)
(* when the provider can, embedded (an await); then the chunks are         *)
(* inserted one by one and the document that they belong to last.          *)
(***************************************************************************)
ChunkRow(document, ordinal) ==
    [id |-> Under(document, ordinal), documentId |-> document, ordinal |-> ordinal]

AddingDocument(source, document, chunks) ==
    [i \in 1 .. chunks |-> Inserting("document_chunks", ChunkRow(document, i))]
        \o <<Inserting("documents", [id |-> document, sourceId |-> source,
                                     chunkCount |-> chunks])>>

PasteDocument(c) ==
    /\ \E m \in SessionContext("knowledge.manage"), s \in db["knowledge_sources"] :
           AcceptFrom(m, c, "document.source", [op |-> "addDocument", source |-> s.id, logged |-> TRUE])
    /\ UNCHANGED <<db, aiVars>>

\* An agent's knowledge_write, for the organization of its run.
KnowledgeWrite(c) ==
    /\ \E o \in db["organizations"], s \in db["knowledge_sources"] :
           Accept(c, "document.source",
                  [op |-> "addDocument", org |-> o.id, source |-> s.id, logged |-> FALSE])
    /\ UNCHANGED <<db, aiVars>>

AddDocument(c) ==
    /\ At(c, "document.source")
    /\ IF SourceOf(c) = {}
       THEN Respond(c) /\ UNCHANGED aiVars
       ELSE \E chunks \in Chunks :
                /\ Embed(c, {1}, chunks)
                /\ Calling(c, AddingDocument(loc[c].source, 10 * Number(c), chunks)
                              \o IF loc[c].logged
                                 THEN <<Auditing(c, "knowledge.document_added", Number(c))>>
                                 ELSE <<>>,
                           "idle")
    /\ UNCHANGED db

(***************************************************************************)
(* testRetrievalAction: the chunks of the organization's sources, or of    *)
(* one of them, are read; if there are any and the provider can, their     *)
(* texts are embedded, unless all have vectors, and the query after them.  *)
(* What is found is Retrieval.tla's subject.                               *)
(***************************************************************************)
AskKnowledge(c) ==
    /\ \E m \in SessionContext("knowledge.view"),
          s \in {None} \cup {s.id : s \in db["knowledge_sources"]} :
           AcceptFrom(m, c, "knowledge.retrieve", [op |-> "retrieve", source |-> s])
    /\ UNCHANGED <<db, aiVars>>

Corpus(c) ==
    LET sources == {s \in db["knowledge_sources"] :
                       /\ s.organizationId = loc[c].org
                       /\ loc[c].source \in {None, s.id}}
        documents == {d \in db["documents"] : \E s \in sources : d.sourceId = s.id}
    IN  UNION {ChunksOf(d.id) : d \in documents}

Retrieve(c) ==
    /\ At(c, "knowledge.retrieve")
    /\ \E calls \in {{1}, {1, 2}} : Embed(c, calls, Cardinality(Corpus(c)))
    /\ Respond(c)
    /\ UNCHANGED db

(***************************************************************************)
(* deleteDocumentAction, and deleteSource, which does the same for every   *)
(* document of the source that its one query returned.  Neither is logged. *)
(***************************************************************************)
\* Mutant: the chunks stay.
RemovingDocumentOnly(document, chunks) == <<Removing("documents", document)>>

RemovingDocument(document, chunks) ==
    [i \in DOMAIN chunks |-> Removing("document_chunks", chunks[i])]
        \o <<Removing("documents", document)>>

\* The ids of a document's chunks, in the order of their ordinals.
ChunkList(document) ==
    LET ordinals == {k.ordinal : k \in ChunksOf(document)}
        rank(o) == Cardinality({p \in ordinals : p <= o})
    IN  [i \in 1 .. Cardinality(ordinals) |->
            Under(document, CHOOSE o \in ordinals : rank(o) = i)]

DeleteDocument(c) ==
    /\ \E m \in SessionContext("knowledge.manage"), d \in db["documents"] :
           AcceptFrom(m, c, "document.read",
                      [op |-> "deleteDocument", source |-> d.sourceId, document |-> d.id])
    /\ UNCHANGED <<db, aiVars>>

ReadDocument(c) ==
    /\ At(c, "document.read")
    /\ IF SourceOf(c) = {} \/ ById("documents", loc[c].document) = {}
       THEN Respond(c)
       ELSE Goto(c, "document.chunks", Nothing)
    /\ UNCHANGED <<db, aiVars>>

RemoveDocument(c) ==
    /\ At(c, "document.chunks")
    /\ Calling(c, RemovingDocument(loc[c].document, ChunkList(loc[c].document)), "idle")
    /\ UNCHANGED <<db, aiVars>>

(***************************************************************************)
(* generateStrategyAction: a call to see whether the provider answers; the *)
(* business's source, if there is one, is deleted and a new one created;   *)
(* then one call per document.  A call that fails costs its document only. *)
(***************************************************************************)
GenerateStrategy(c) ==
    /\ \E m \in SessionContext("knowledge.manage"), b \in Businesses :
           AcceptFrom(m, c, "strategy.probe",
                      [op |-> "strategy", business |-> b, docs |-> {}, j |-> 0])
    /\ UNCHANGED <<db, aiVars>>

StrategyLogged(c) == Auditing(c, "growth.strategy_generated", Number(c))

Probe(c) ==
    /\ At(c, "strategy.probe")
    /\ IF provider # "none"
       THEN RunAgentCompletion(c, 0, None, "strategy.find")
       ELSE Calling(c, <<StrategyLogged(c)>>, "idle") /\ UNCHANGED aiVars
    /\ UNCHANGED db

FindStrategySource(c) ==
    /\ At(c, "strategy.find")
    /\ LET found == {s \in db["knowledge_sources"] :
                        /\ s.organizationId = loc[c].org
                        /\ s.name = StrategyName(loc[c].business)}
       IN  \/ found = {} /\ Goto(c, "strategy.create", Nothing)
           \/ \E s \in found : Goto(c, "strategy.documents", [source |-> s.id])
    /\ UNCHANGED <<db, aiVars>>

ListDocuments(c) ==
    /\ At(c, "strategy.documents")
    /\ IF SourceOf(c) = {}
       THEN Goto(c, "strategy.create", Nothing)
       ELSE Goto(c, "strategy.delete",
                 [docs |-> {d.id : d \in {d \in db["documents"] :
                                            d.sourceId = loc[c].source}}])
    /\ UNCHANGED <<db, aiVars>>

DeleteSource(c) ==
    /\ At(c, "strategy.delete")
    /\ IF loc[c].docs = {}
       THEN Calling(c, <<Removing("knowledge_sources", loc[c].source)>>,
                    "strategy.create")
       ELSE LET d == CHOOSE d \in loc[c].docs : \A e \in loc[c].docs : d <= e
            IN  Goto(c, "calling",
                     [docs |-> loc[c].docs \ {d}, next |-> "strategy.delete",
                      calls |-> RemovingDocument(d, ChunkList(d))])
    /\ UNCHANGED <<db, aiVars>>

\* The source is marked as web research when the form named a website.
CreateStrategySource(c) ==
    /\ At(c, "strategy.create")
    /\ \E marking \in {<<>>, <<Updating("knowledge_sources", Number(c), [kind |-> "web"])>>} :
          Goto(c, "calling",
               [source |-> Number(c), next |-> "strategy.complete",
                calls |-> <<NewSource(c, StrategyName(loc[c].business))>> \o marking])
    /\ UNCHANGED <<db, aiVars>>

CompleteDocument(c) ==
    /\ At(c, "strategy.complete")
    /\ IF loc[c].j = StrategyDocs
       THEN Calling(c, <<StrategyLogged(c)>>, "idle") /\ UNCHANGED aiVars
       ELSE \E status \in Outcome :
                /\ Ask(c, loc[c].j + 1, status)
                /\ Goto(c, "calling",
                        [j |-> loc[c].j + 1,
                         calls |-> RecordAiRun(c, loc[c].j + 1, None, status),
                         next |-> IF status = "completed" THEN "strategy.add"
                                                          ELSE "strategy.complete"])
    /\ UNCHANGED db

\* A document that finds no source any more is reported as generated all the same.
AddStrategyDocument(c) ==
    /\ At(c, "strategy.add")
    /\ IF SourceOf(c) = {}
       THEN Goto(c, "strategy.complete", Nothing) /\ UNCHANGED aiVars
       ELSE \E chunks \in Chunks :
                /\ Embed(c, {loc[c].j}, chunks)
                /\ Calling(c, AddingDocument(loc[c].source, 10 * Number(c) + loc[c].j, chunks),
                           "strategy.complete")
    /\ UNCHANGED db

KnowledgeSubmit(c) ==
    /\ area = "knowledge"
    /\ \/ CreateSource(c) \/ PasteDocument(c) \/ KnowledgeWrite(c)
       \/ DeleteDocument(c) \/ AskKnowledge(c) \/ GenerateStrategy(c)

KnowledgeStep(c) ==
    /\ area = "knowledge"
    /\ \/ InsertSource(c) \/ AddDocument(c) \/ Retrieve(c)
       \/ ReadDocument(c) \/ RemoveDocument(c)
       \/ Probe(c) \/ FindStrategySource(c) \/ ListDocuments(c) \/ DeleteSource(c)
       \/ CreateStrategySource(c) \/ CompleteDocument(c) \/ AddStrategyDocument(c)

(***************************************************************************)
(* Properties.                                                             *)
(***************************************************************************)
\* Requests whose remaining calls touch this document or its chunks.
WorkingOn(document) ==
    {c \in Clients : pc[c] = "calling" /\ \E i \in DOMAIN loc[c].calls :
        LET k == loc[c].calls[i]
        IN  \/ k.table = "documents" /\ k.call = "remove" /\ k.id = document
            \/ k.table = "documents" /\ k.call = "insert" /\ k.row.id = document}

\* A document that is on record has all of its chunks, and no chunk outlives its
\* document (retrieval would go on scoring it): chunks are inserted before their
\* document and removed before it, and only a request cut off half way, or one
\* still at work on it, leaves one without the other.
DocumentsAreWhole ==
    \/ cuts \cap {"addDocument", "deleteDocument", "strategy"} # {}
    \/ \A document \in {d.id : d \in Table("documents")}
                          \cup {k.documentId : k \in Table("document_chunks")} :
          \/ WorkingOn(document) # {}
          \/ \E d \in ById("documents", document) :
                {k.ordinal : k \in ChunksOf(document)} = 1 .. d.chunkCount

\* Regeneration replaces the previous strategy source wholesale (strategy.ts): a
\* business never has two strategy sources, so that no agent retrieves stale
\* documents next to fresh ones, unless two generations were in flight together.
OneStrategySource ==
    \/ Met({"strategy"})
    \/ \A s, t \in Table("knowledge_sources") :
          s.name = t.name /\ s.name # FormName => s = t

\* A document's source is on record: nothing is left behind in a source that a
\* generation deleted, unless a paste or another generation was in flight with
\* it, looked the source up before, and inserted its document after.
DocumentsHaveSource ==
    \/ Met({"strategy", "addDocument"})
    \/ \A d \in Table("documents") : ById("knowledge_sources", d.sourceId) # {}

\* The three together: what retrieval reads hangs together, from the source down to
\* the chunk, and is there once.
KnowledgeIsWhole == DocumentsAreWhole /\ DocumentsHaveSource /\ OneStrategySource

\* What knowledge.ts says addDocument does on Postgres, where only the
\* embeddings are missing: a pasted document is chunked and indexed.  So no paste
\* into a source that is on record is refused by the store.
PastesAreIndexed ==
    \A c \in Clients :
        pc[c] = "calling" /\ loc[c].op = "addDocument" /\ SourceOf(c) # {} =>
            ~Refused(Head(loc[c].calls))
=============================================================================
