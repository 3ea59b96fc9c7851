------------------------------- MODULE Builder -------------------------------
(* The test builder (web/src/app/builder/page.tsx): a test is edited as a      *)
(* diagram, as YAML text and by an AI assistant, and is loaded and saved by    *)
(* requests that are answered any time later.  The diagram, not the text, is   *)
(* what Save and Run send; the effect `Synced' copies the diagram to the text  *)
(* unless the last change came from the text or the assistant.                 *)
EXTENDS Integers, Sequences, FiniteSets, SeqFilter, Absent

CONSTANTS Tests,     \* ids of tests
          Names,     \* names of steps
          NewName,   \* the name a step added from the palette is given
          Stored0,   \* manifests stored when the page is opened, by test id
          Typed,     \* manifests the user may type as YAML
          Answers,   \* manifests the assistant may answer with
          Links,     \* requests the page's address may start with (a set of sets)
          Unusable,  \* text that no manifest can be parsed from
          MaxNodes, MaxEdits, MaxAsked   \* bounds

Step == [name : Names, deps : (SUBSET Names) \cup {None}, extract : BOOLEAN, mapped : BOOLEAN]

\* `extra' stands for everything of a manifest the diagram does not carry:
\* setup, teardown, conditions, a subscription's url, schemas and tolerances.
Manifest == [id : Tests, steps : Seq(Step), extra : BOOLEAN]

ASSUME BuilderAssumption ==
    /\ NewName \in Names /\ None \notin Names \cup Nat \cup Tests /\ \A names \in SUBSET Names : names # None
    /\ DOMAIN Stored0 \subseteq Tests
    /\ \A t \in DOMAIN Stored0 : Stored0[t] \in Manifest /\ Stored0[t].id = t
    /\ Typed \cup Answers \subseteq Manifest /\ Unusable \notin Manifest
    /\ \A link \in Links : link \subseteq [kind : {"load", "debug"}, test : DOMAIN Stored0]
                                         \cup [kind : {"catalog"}, name : Names]
    /\ MaxNodes \in Nat /\ MaxEdits \in Nat /\ MaxAsked \in Nat

VARIABLES
    nodes,     \* the diagram: a sequence of [id, name, extract, mapped]
    edges,     \* pairs <<source id, target id>>
    testId,    \* testMeta.id
    counter,   \* nodeIdCounter
    selected,  \* selectedNode
    dialog,    \* pendingConnection: the connection and its target's message then
    text,      \* currentYaml: the manifest it spells, or Unusable
    sync,      \* syncSourceRef
    chatting,  \* chatLoading
    saving,    \* which of the two saves is under way (saving, aiSaving)
    calls,     \* requests in flight
    stored,    \* the server's manifests
    edits,     \* edits of the user so far: of diagram, text, or through the assistant
    asked      \* requests of the user so far

diagram == <<nodes, edges, testId, counter>>
vars == <<nodes, edges, testId, counter, selected, dialog, text, sync,
          chatting, saving, calls, stored, edits, asked>>

-----------------------------------------------------------------------------
(* Conversions.                                                              *)

NodeIds(ns) == { ns[i].id : i \in DOMAIN ns }

\* Mutant: the first step's index is taken for none.
IndexOf_notFirst(steps, name) == { i \in DOMAIN steps : /\ i > 1 /\ steps[i].name = name
                                               /\ \A j \in 1 .. i - 1 : steps[j].name # name }

IndexOf(steps, name) == { i \in DOMAIN steps : /\ steps[i].name = name
                                               /\ \A j \in 1 .. i - 1 : steps[j].name # name }

\* Nodes are numbered by position; a dependency is an edge from the first step
\* of that name; a step that states none follows its predecessor.
NodesOf(m) == [ i \in DOMAIN m.steps |-> [id |-> i, name |-> m.steps[i].name,
                extract |-> m.steps[i].extract, mapped |-> m.steps[i].mapped] ]

EdgesOf(m) ==
    UNION { IF m.steps[i].deps = None
            THEN IF i > 1 THEN {<<i - 1, i>>} ELSE {}
            ELSE { <<s, i>> : s \in UNION { IndexOf(m.steps, d) : d \in m.steps[i].deps } }
            : i \in DOMAIN m.steps }

\* A node's dependencies are its incoming edges, by the source's name; an edge
\* whose source is gone names nothing (the code writes its id).
BuildFrom(ns, es, t) ==
    [id |-> t, extra |-> FALSE,
     steps |-> [ i \in DOMAIN ns |->
         [name |-> ns[i].name, extract |-> ns[i].extract, mapped |-> ns[i].mapped,
          deps |-> LET incoming == { e \in es : e[2] = ns[i].id }
                   IN  IF incoming = {} THEN None
                       ELSE { ns[j].name : j \in { k \in DOMAIN ns :
                                           \E e \in incoming : e[1] = ns[k].id } } ] ] ]

Build == BuildFrom(nodes, edges, testId)

\* The effect that runs when nodes, edges or metadata changed: after a change
\* that came with a text of its own it only re-arms itself.
Synced(given) ==
    IF sync # "diagram" THEN sync' = "diagram" /\ text' = given
    ELSE sync' = sync /\ text' = BuildFrom(nodes', edges', testId')

\* Mutant: the counter does not follow the loaded steps.
Apply_kept(m) ==
    /\ nodes' = NodesOf(m)
    /\ edges' = EdgesOf(m)
    /\ testId' = m.id
    /\ counter' = counter
    /\ selected' = None
    /\ text' = m
    /\ sync' = "diagram"

\* applyManifest: replaces diagram and metadata.  Its callers set the text and
\* `sync' first, so the effect leaves the text alone.
Apply(m) ==
    /\ nodes' = NodesOf(m)
    /\ edges' = EdgesOf(m)
    /\ testId' = m.id
    /\ counter' = IF Len(m.steps) > counter THEN Len(m.steps) ELSE counter
    /\ selected' = None
    /\ text' = m
    /\ sync' = "diagram"

-----------------------------------------------------------------------------
(* Editing the diagram.                                                      *)

Edit == edits < MaxEdits /\ edits' = edits + 1

Idle == UNCHANGED <<chatting, saving, calls, stored, asked>>

Append1(ns, id, name) == Append(ns, [id |-> id, name |-> name, extract |-> FALSE, mapped |-> FALSE])

AddStep ==
    /\ Edit /\ Len(nodes) < MaxNodes
    /\ counter' = counter + 1
    /\ nodes' = Append1(nodes, counter + 1, NewName)
    /\ selected' = counter + 1
    /\ UNCHANGED <<edges, testId, dialog>> /\ Idle
    /\ Synced(text)

Without(ns, id) == Filter(ns, { ns[i] : i \in { j \in DOMAIN ns : ns[j].id # id } })

\* The panel's delete button; the canvas' delete key does the same but for the
\* selection, which then names a node that is gone.
DeleteNode(id, byKey) ==
    /\ Edit /\ id \in NodeIds(nodes)
    /\ nodes' = Without(nodes, id)
    /\ edges' = { e \in edges : e[1] # id /\ e[2] # id }
    /\ selected' = IF selected = id /\ ~byKey THEN None ELSE selected
    /\ UNCHANGED <<testId, counter, dialog>> /\ Idle
    /\ Synced(text)

\* The fields that change take their new values, the others stay.
Mapped(ns, id, change) ==
    [ i \in DOMAIN ns |->
        IF ns[i].id # id THEN ns[i]
        ELSE [ f \in DOMAIN ns[i] |-> IF f \in DOMAIN change THEN change[f] ELSE ns[i][f] ] ]

UpdateNode(change) ==
    /\ Edit /\ selected \in NodeIds(nodes)
    /\ nodes' = Mapped(nodes, selected, change)
    /\ UNCHANGED <<edges, testId, counter, selected, dialog>> /\ Idle
    /\ Synced(text)

\* The configuration panel of the selected node.  Of a step the model keeps the
\* name, whether it extracts something and whether its message holds a mapping;
\* every other edit is a change of the node all the same.
NameStep == \E n \in Names : UpdateNode([name |-> n])
EditConfig == UpdateNode(<<>>)
EditAssertions == UpdateNode(<<>>)
EditExtract == \E some \in BOOLEAN : UpdateNode([extract |-> some])
\* A field of the response is added to the extracts.
PickExtract == UpdateNode([extract |-> TRUE])

\* The type empties the configuration; so do service and method, which are
\* chosen from the catalog, the message.  A REST endpoint leaves a message alone,
\* and editing the message may remove the mapping.
ChangeType == UpdateNode([mapped |-> FALSE])
PickService == UpdateNode([mapped |-> FALSE])
PickMethod == UpdateNode([mapped |-> FALSE])
PickEndpoint == UpdateNode(<<>>)
EditMessage == UpdateNode(<<>>) \/ UpdateNode([mapped |-> FALSE])

Select(id) ==
    /\ id \in NodeIds(nodes) \cup {None} /\ id # selected
    /\ selected' = id
    /\ UNCHANGED <<diagram, dialog, text, sync, edits>> /\ Idle

\* Drawing a connection: if the source extracts something, a dialog asks for a
\* mapping first and keeps both nodes as they are now.
Connect(s, t) ==
    /\ Edit /\ dialog = None
    /\ {s, t} \subseteq NodeIds(nodes) /\ <<s, t>> \notin edges
    /\ UNCHANGED <<nodes, testId, counter, selected>> /\ Idle
    /\ IF \E i \in DOMAIN nodes : nodes[i].id = s /\ nodes[i].extract
       THEN dialog' = <<s, t>> /\ UNCHANGED <<edges, text, sync>>
       ELSE dialog' = dialog /\ edges' = edges \cup {<<s, t>>} /\ Synced(text)

\* The dialog: the edge is drawn, and with a mapping the target's message is
\* replaced, whatever has become of the nodes.
CloseDialog(mapping) ==
    /\ dialog # None
    /\ edges' = edges \cup {dialog}
    /\ nodes' = IF mapping THEN Mapped(nodes, dialog[2], [mapped |-> TRUE]) ELSE nodes
    /\ dialog' = None
    /\ UNCHANGED <<testId, counter, selected, edits>> /\ Idle
    /\ Synced(text)

Reconnect(e, s, t) ==
    /\ Edit /\ dialog = None /\ e \in edges
    /\ {s, t} \subseteq NodeIds(nodes)
    /\ edges' = (edges \ {e}) \cup {<<s, t>>}
    /\ UNCHANGED <<nodes, testId, counter, selected, dialog>> /\ Idle
    /\ Synced(text)

\* Mutant: the text is not told.
RemoveEdge_textKept(e) ==
    /\ Edit /\ e \in edges
    /\ edges' = edges \ {e}
    /\ UNCHANGED <<nodes, testId, counter, selected, dialog>> /\ Idle
    /\ UNCHANGED <<text, sync>>

RemoveEdge(e) ==
    /\ Edit /\ e \in edges
    /\ edges' = edges \ {e}
    /\ UNCHANGED <<nodes, testId, counter, selected, dialog>> /\ Idle
    /\ Synced(text)

Rename(t) ==
    /\ Edit /\ t \in Tests \ {testId}
    /\ testId' = t
    /\ UNCHANGED <<nodes, edges, counter, selected, dialog>> /\ Idle
    /\ Synced(text)

\* The canvas measures, marks or moves a node: the array is new, its content is
\* not, and the effect runs.
Touch ==
    /\ nodes # <<>>
    /\ UNCHANGED <<diagram, selected, dialog, edits>> /\ Idle
    /\ Synced(text)

-----------------------------------------------------------------------------
(* Editing the text.                                                         *)

TypeYaml ==
    /\ Edit
    /\ \/ \E m \in Typed : Apply(m)
       \/ text' = Unusable /\ UNCHANGED <<diagram, selected, sync>>
    /\ UNCHANGED dialog /\ Idle

-----------------------------------------------------------------------------
(* Loading, saving and the assistant.                                        *)

\* Bound: MaxAsked requests of the user.
Ask(c) == asked < MaxAsked /\ asked' = asked + 1 /\ calls' = calls \cup {c}
Done(c) == calls' = calls \ {c}

ClickLoad(t) ==
    /\ t \in DOMAIN stored /\ Ask([kind |-> "load", test |-> t])
    /\ calls' # calls
    /\ UNCHANGED <<diagram, selected, dialog, text, sync, chatting, saving, stored, edits>>

LoadServed(c) ==
    /\ c \in calls /\ c.kind = "load"
    /\ calls' = (calls \ {c}) \cup {[kind |-> "loaded", manifest |-> stored[c.test]]}
    /\ UNCHANGED <<diagram, selected, dialog, text, sync, chatting, saving, stored, edits, asked>>

\* The text is the stored one, the conversation starts over.
LoadArrives(c) ==
    /\ c \in calls /\ Done(c)
    /\ \/ c.kind = "loaded" /\ Apply(c.manifest)
       \/ c.kind = "load" /\ UNCHANGED <<diagram, selected, text, sync>>   \* the request failed
    /\ UNCHANGED <<dialog, chatting, saving, stored, edits, asked>>

\* Opened to debug a run: its detail arrives, then its test is loaded.
DebugArrives(c) ==
    /\ c \in calls /\ c.kind = "debug"
    /\ calls' = (calls \ {c}) \cup {[kind |-> "load", test |-> c.test]}
    /\ UNCHANGED <<diagram, selected, dialog, text, sync, chatting, saving, stored, edits, asked>>

\* Opened from the service catalog: a step for the chosen method is added.
CatalogArrives(c) ==
    /\ c \in calls /\ c.kind = "catalog" /\ Done(c)
    /\ \/ /\ counter' = counter + 1
          /\ nodes' = Append1(nodes, counter + 1, c.name)
          /\ selected' = counter + 1
          /\ UNCHANGED <<edges, testId>>
          /\ Synced(text)
       \/ UNCHANGED <<diagram, selected, text, sync>>
    /\ UNCHANGED <<dialog, chatting, saving, stored, edits, asked>>

\* A question is about the text as it is now, and one is asked at a time: typed
\* in the middle of an empty canvas or in the panel, or made up from the failures
\* of the displayed run, which closes the panel of the selected node.
Question ==
    /\ Edit /\ ~chatting
    /\ chatting' = TRUE /\ Ask([kind |-> "chat", test |-> testId])
    /\ UNCHANGED <<diagram, selected, dialog, text, sync, saving, stored>>

Generate == nodes = <<>> /\ Question
ChatSubmit == Question
DebugWithAI ==
    /\ Edit /\ ~chatting
    /\ chatting' = TRUE /\ Ask([kind |-> "chat", test |-> testId])
    /\ selected' = None
    /\ UNCHANGED <<diagram, dialog, text, sync, saving, stored>>

\* The answer replaces text and diagram; an unusable one replaces the text and
\* leaves `sync' set.
ChatArrives(c) ==
    /\ c \in calls /\ c.kind = "chat" /\ Done(c)
    /\ chatting' = FALSE
    /\ \/ \E m \in Answers : Apply(m)
       \/ sync' = "ai" /\ text' = Unusable /\ UNCHANGED <<diagram, selected>>
       \/ UNCHANGED <<diagram, selected, text, sync>>     \* stopped, or failed
    /\ UNCHANGED <<dialog, saving, stored, edits, asked>>

\* The toolbar saves what the diagram says, the YAML tab saves the text.
Save(via) ==
    /\ via \notin saving /\ saving' = saving \cup {via}
    /\ via = "text" => text # Unusable
    /\ Ask([kind |-> "save", via |-> via, manifest |-> IF via = "text" THEN text ELSE Build])
    /\ UNCHANGED <<diagram, selected, dialog, text, sync, chatting, stored, edits>>

Put(m) == stored' = [ t \in DOMAIN stored \cup {m.id} |-> IF t = m.id THEN m ELSE stored[t] ]

SaveArrives(c) ==
    /\ c \in calls /\ c.kind = "save" /\ Done(c)
    /\ saving' = saving \ {c.via}
    /\ Put(c.manifest) \/ stored' = stored      \* saved, or failed
    /\ UNCHANGED <<diagram, selected, dialog, text, sync, chatting, edits, asked>>

-----------------------------------------------------------------------------

Init ==
    /\ nodes = <<>> /\ edges = {} /\ counter = 0
    /\ testId \in Tests \ DOMAIN Stored0
    /\ selected = None /\ dialog = None
    /\ text = BuildFrom(<<>>, {}, testId) /\ sync = "diagram"
    /\ chatting = FALSE /\ saving = {}
    /\ calls \in Links
    /\ stored = Stored0 /\ edits = 0 /\ asked = 0

EditDiagram ==
    \/ AddStep \/ Touch
    \/ NameStep \/ EditConfig \/ EditAssertions \/ EditExtract \/ PickExtract
    \/ ChangeType \/ PickService \/ PickMethod \/ PickEndpoint \/ EditMessage
    \/ \E id \in NodeIds(nodes), k \in BOOLEAN : DeleteNode(id, k)
    \/ \E id \in NodeIds(nodes) \cup {None} : Select(id)
    \/ \E s, t \in NodeIds(nodes) : Connect(s, t)
    \/ \E k \in BOOLEAN : CloseDialog(k)
    \/ \E e \in edges : RemoveEdge(e) \/ \E s, t \in NodeIds(nodes) : Reconnect(e, s, t)
    \/ \E t \in Tests : Rename(t)

Request == (\E via \in {"diagram", "text"} : Save(via)) \/ Generate \/ ChatSubmit \/ DebugWithAI
           \/ \E t \in DOMAIN stored : ClickLoad(t)

Response == \E c \in calls : \/ LoadServed(c) \/ LoadArrives(c) \/ DebugArrives(c) \/ CatalogArrives(c)
                             \/ ChatArrives(c) \/ SaveArrives(c)

Next == EditDiagram \/ TypeYaml \/ Request \/ Response

Spec == Init /\ [][Next]_vars

-----------------------------------------------------------------------------
(* Properties.                                                               *)

Call == [kind : {"load", "debug"}, test : Tests] \cup [kind : {"chat"}, test : Tests]
        \cup [kind : {"loaded"}, manifest : Manifest] \cup [kind : {"catalog"}, name : Names]
        \cup [kind : {"save"}, via : {"diagram", "text"}, manifest : Manifest]

\* Types of the variables of the builder.
TypeOK ==
    /\ nodes \in Seq([id : Nat, name : Names, extract : BOOLEAN, mapped : BOOLEAN])
    /\ edges \subseteq Nat \X Nat /\ counter \in Nat /\ testId \in Tests
    /\ selected \in Nat \cup {None} /\ dialog \in (Nat \X Nat) \cup {None}
    /\ text \in Manifest \cup {Unusable} /\ sync \in {"diagram", "ai"}
    /\ chatting \in BOOLEAN /\ saving \subseteq {"diagram", "text"}
    /\ calls \subseteq Call /\ DOMAIN stored \subseteq Tests
    /\ \A t \in DOMAIN stored : stored[t] \in Manifest /\ stored[t].id = t

\* No two nodes share an id, though ids come from a counter, from positions in
\* a loaded manifest and from a step added by a late answer of the catalog.
NodeIdsUnique == \A i, j \in DOMAIN nodes : nodes[i].id = nodes[j].id => i = j

\* The text and the diagram are the same test: the text is the diagram's
\* manifest, or the diagram is exactly what the text gave, or the text cannot be
\* used.  Otherwise the two save buttons would store different tests.
Coherent ==
    \/ text = Unusable
    \/ text = Build
    \/ nodes = NodesOf(text) /\ edges = EdgesOf(text) /\ testId = text.id

Dangling(ns, es) == { e \in es : ~({e[1], e[2]} \subseteq NodeIds(ns)) }

Order(ns, es) == { p \in Names \X Names : \E i, j \in DOMAIN ns :
                     p = <<ns[i].name, ns[j].name>> /\ <<ns[i].id, ns[j].id>> \in es }

\* Saving and loading a diagram loses no dependency: what the user drew is
\* still there when the manifest is turned into a diagram again, as long as
\* every name is used once and no edge hangs in the air.
SavedKeepsOrder ==
    (/\ \A i, j \in DOMAIN nodes : nodes[i].name = nodes[j].name => i = j
     /\ Dangling(nodes, edges) = {})
    => Order(nodes, edges) \subseteq Order(NodesOf(Build), EdgesOf(Build))
=============================================================================
