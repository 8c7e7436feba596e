------------------------------ MODULE Console -------------------------------
(***************************************************************************)
(* What a member does in the browser that no other module covers: build an *)
(* automation, look at figures, ask the knowledge base; and what lies      *)
(* under every request: the model providers, the columns of a row.  The    *)
(* five share no state; a behaviour is of one of them, chosen at the       *)
(* start.                                                                  *)
(***************************************************************************)
EXTENDS Builder, Figures, Retrieval, Providers, Columns

VARIABLE part

\* What the parts that do not converse or store have there.
SomeConversation == <<CHOOSE e \in Environments : TRUE, CHOOSE v \in AgentVersions : TRUE>>
SomeField == <<"users", "name">>

vars == <<part, builderVars, figureVars, retrievalVars, providerVars, columnVars>>

Init ==
    /\ part \in {"build", "measure", "ask", "converse", "store"}
    /\ BuilderInit /\ FiguresInit /\ RetrievalInit /\ ProvidersInit /\ ColumnsInit
    /\ embedder = NoVector \/ part = "ask"
    /\ <<env, agent>> = SomeConversation \/ part = "converse"
    /\ subject = SomeField \/ part = "store"

Next ==
    /\ UNCHANGED part
    /\ \/ /\ part = "build" /\ BuilderNext
          /\ UNCHANGED <<figureVars, retrievalVars, providerVars, columnVars>>
       \/ /\ part = "measure" /\ FiguresNext
          /\ UNCHANGED <<builderVars, retrievalVars, providerVars, columnVars>>
       \/ /\ part = "ask" /\ RetrievalNext
          /\ UNCHANGED <<builderVars, figureVars, providerVars, columnVars>>
       \/ /\ part = "converse" /\ ProvidersNext
          /\ UNCHANGED <<builderVars, figureVars, retrievalVars, columnVars>>
       \/ /\ part = "store" /\ ColumnsNext
          /\ UNCHANGED <<builderVars, figureVars, retrievalVars, providerVars>>

Spec == Init /\ [][Next]_vars
=============================================================================
