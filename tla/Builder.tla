------------------------------- MODULE Builder -------------------------------
(***************************************************************************)
(* The automation builder: a draft of steps edited in the browser, sent as *)
(* a whole, cleaned, turned into a linear graph, validated and saved as    *)
(* the next version, which the next visit of the page starts from.         *)
(*                                                                         *)
(* A key is a pair: what was typed or the step's type, and the number the  *)
(* builder appends (0 when the key was typed).  A config is the set of     *)
(* inputs that are filled in; an input that validation refuses whatever    *)
(* else there is (an address that is none, an interval above 10000) is one *)
(* of Wrong.                                                               *)
(***************************************************************************)
EXTENDS Integers, Sequences, FiniteSets

LOCAL INSTANCE SequencesExt

CONSTANTS
    StepTypes,   \* the types the "Add step" menu offers
    TypedKeys,   \* what a person types as a step's key
    MaxSteps,    \* bound: steps of a draft
    MaxSaves     \* bound: versions saved

ASSUME BuilderAssumption == {MaxSteps, MaxSaves} \subseteq Nat /\ StepTypes \subseteq STRING

VARIABLES
    page,     \* "builder", or "automation" after a save
    draft,    \* the steps on the page
    refused,  \* does the page show the errors of the last save?
    version,  \* the latest definition on record
    saves     \* the number of versions saved

builderVars == <<page, draft, refused, version, saves>>

Blank == <<"", 0>>
TriggerKey == <<"trigger", 0>>

DefaultTrigger == [key |-> TriggerKey, type |-> "trigger", config |-> {}]

(***************************************************************************)
(* What each type of step asks for.                                        *)
(***************************************************************************)
Required(type) ==
    CASE type = "condition" -> {"field"}
      [] type = "approval" -> {"action", "rationale"}
      [] type = "log" -> {"message"}
      [] type = "ai" -> {"prompt"}
      [] OTHER -> {}

Wrong(type) ==
    CASE type = "http" -> {"badUrl"}
      [] type = "trigger" -> {"longInterval"}
      [] OTHER -> {}

ValidConfig(step) ==
    Required(step.type) \subseteq step.config /\ step.config \cap Wrong(step.type) = {}

(***************************************************************************)
(* Editing.                                                                *)
(***************************************************************************)
Editing == page = "builder" /\ UNCHANGED <<page, refused, version, saves>>

\* The key a new step gets from its type and its place.
AddStep ==
    /\ Editing /\ Len(draft) < MaxSteps
    /\ \E type \in StepTypes :
           draft' = Append(draft, [key |-> <<type, Len(draft) + 1>>, type |-> type,
                                   config |-> {}])

\* The trigger has no buttons.
RemoveStep ==
    /\ Editing
    /\ \E i \in 2 .. Len(draft) : draft' = RemoveAt(draft, i)

MoveStep ==
    /\ Editing
    /\ \E i \in 2 .. Len(draft), j \in 2 .. Len(draft) :
           j \in {i - 1, i + 1} /\ draft' = InsertAt(RemoveAt(draft, i), j, draft[i])

RenameStep ==
    /\ Editing
    /\ \E i \in 2 .. Len(draft), key \in TypedKeys : draft' = [draft EXCEPT ![i].key = key]

\* An input is filled in, or cleared.
ConfigureStep ==
    /\ Editing
    /\ \E i \in DOMAIN draft : \E f \in Required(draft[i].type) \cup Wrong(draft[i].type) :
           draft' = [draft EXCEPT ![i].config =
                        IF f \in @ THEN @ \ {f} ELSE @ \cup {f}]

(***************************************************************************)
(* Saving.                                                                 *)
(***************************************************************************)
\* Blank keys are numbered by their place; the first step is a trigger.
Cleaned(steps) ==
    LET named == [i \in DOMAIN steps |->
                    IF steps[i].key = Blank THEN [steps[i] EXCEPT !.key = <<"step", i>>]
                                            ELSE steps[i]]
    IN  IF named[1].type = "trigger" THEN named ELSE <<DefaultTrigger>> \o named

StepsToDefinition(steps) ==
    [nodes |-> steps,
     edges |-> {[from |-> steps[i].key, to |-> steps[i + 1].key] : i \in 1 .. Len(steps) - 1}]

KeysOf(def) == {def.nodes[i].key : i \in DOMAIN def.nodes}

\* Lowercase letters, numbers and dashes: of what is typed, one key is not.
WellFormed(key) == key # <<"Not A Key", 0>>

ValidSteps(def) ==
    /\ def.nodes # <<>>
    /\ \A key \in KeysOf(def) : WellFormed(key)
    /\ \A i \in DOMAIN def.nodes : ValidConfig(def.nodes[i])
    /\ Cardinality({i \in DOMAIN def.nodes : def.nodes[i].type = "trigger"}) = 1

ValidEdges(def) ==
    /\ \A e \in def.edges : {e.from, e.to} \subseteq KeysOf(def)
    /\ \A i \in DOMAIN def.nodes : def.nodes[i].type = "trigger" =>
           \A e \in def.edges : e.to # def.nodes[i].key

\* Mutant: keys may repeat, and an edge may leave a step twice.
ValidateStepsAndEdges(def) == ValidSteps(def) /\ ValidEdges(def)

\* No key twice, and so no step with two edges out.
ValidateDefinition(def) ==
    /\ ValidSteps(def) /\ ValidEdges(def)
    /\ \A i, j \in DOMAIN def.nodes : def.nodes[i].key = def.nodes[j].key => i = j
    /\ \A e, f \in def.edges : e.from = f.from => e = f

SaveDefinition ==
    /\ page = "builder"
    /\ LET def == StepsToDefinition(Cleaned(draft))
       IN  IF ValidateDefinition(def)
           THEN /\ version' = def /\ saves' = saves + 1
                /\ page' = "automation" /\ draft' = <<>> /\ refused' = FALSE
           ELSE /\ refused' = TRUE /\ UNCHANGED <<page, draft, version, saves>>

OpenBuilder ==
    /\ page = "automation" /\ saves < MaxSaves
    /\ page' = "builder" /\ draft' = version.nodes /\ refused' = FALSE
    /\ UNCHANGED <<version, saves>>

BuilderInit ==
    /\ page = "automation" /\ draft = <<>> /\ refused = FALSE /\ saves = 0
    /\ version = StepsToDefinition(<<DefaultTrigger>>)

BuilderNext ==
    AddStep \/ RemoveStep \/ MoveStep \/ RenameStep \/ ConfigureStep
        \/ SaveDefinition \/ OpenBuilder

(***************************************************************************)
(* Properties.                                                             *)
(***************************************************************************)
\* The edges are a set here; the code takes the first of the list.
NextNodeKeys(def, key) == {e.to : e \in {e \in def.edges : e.from = key}}

NodeByKey(def, key) ==
    LET at == {i \in DOMAIN def.nodes : def.nodes[i].key = key}
    IN  def.nodes[CHOOSE i \in at : \A j \in at : i <= j]

\* What the engine needs of a version (executor.ts walks from the trigger by
\* nextNodeKey and nodeByKey): whatever was added, moved, renamed and removed on
\* the page, the walk of the version that was saved meets every step of it, in the
\* order of the page, once, and ends.
SavedIsWalked ==
    LET nodes == version.nodes
    IN  /\ nodes[1].type = "trigger"
        /\ \A i \in DOMAIN nodes :
               /\ NodeByKey(version, nodes[i].key) = nodes[i]
               /\ NextNodeKeys(version, nodes[i].key) =
                      IF i = Len(nodes) THEN {} ELSE {nodes[i + 1].key}
=============================================================================
