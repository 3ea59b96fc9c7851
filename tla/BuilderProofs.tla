---------------------------- MODULE BuilderProofs ----------------------------
(***************************************************************************)
(* What TLAPS proves of Builder for any tests and names, any number of     *)
(* nodes, edits and requests: no two nodes have one id, diagram and text   *)
(* are one test, and saving loses no dependency; and of Catalog, the page  *)
(* beside it, for any services, hosts and requests under way: a button     *)
(* that waits waits for a request, and what the page says is so.           *)
(***************************************************************************)
EXTENDS Builder, Catalog, SeqFilterProofs, FiniteSetTheorems

Node == [id : Nat, name : Names, extract : BOOLEAN, mapped : BOOLEAN]

(* No id is above the counter the next one is taken from.                  *)
Drawing ==
  /\ nodes \in Seq(Node) /\ edges \subseteq Nat \X Nat /\ counter \in Nat /\ testId \in Tests
  /\ \A i \in 1 .. Len(nodes) : nodes[i].id <= counter
  /\ NodeIdsUnique

(* Only a text no manifest can be read from keeps the effect waiting.      *)
Spelling ==
  /\ text \in Manifest \cup {Unusable} /\ sync \in {"diagram", "ai"}
  /\ sync = "ai" => text = Unusable
  /\ Coherent

(* What is asked for is stored, and what is stored can be drawn.           *)
Around ==
  /\ selected \in Nat \cup {None} /\ dialog \in (Nat \X Nat) \cup {None}
  /\ chatting \in BOOLEAN /\ saving \subseteq {"diagram", "text"}
  /\ calls \subseteq Call /\ \A c \in calls : c.kind \in {"load", "debug"} => c.test \in DOMAIN stored
  /\ DOMAIN stored \subseteq Tests
  /\ \A t \in DOMAIN stored : stored[t] \in Manifest /\ stored[t].id = t

IInv == Drawing /\ Spelling /\ Around

-----------------------------------------------------------------------------
(* Conversions.                                                              *)

LEMMA SeqShape ==
  ASSUME NEW S, NEW s \in Seq(S)
  PROVE  /\ Len(s) \in Nat /\ DOMAIN s = 1 .. Len(s) /\ s \in [1 .. Len(s) -> S]
         /\ \A i \in 1 .. Len(s) : s[i] \in S
  BY LenProperties, ElementOfSeq

LEMMA FunctionIsSeq ==
  ASSUME NEW S, NEW n \in Nat, NEW f \in [1 .. n -> S]
  PROVE  f \in Seq(S) /\ Len(f) = n
  <1>1. f \in Seq(S)
    BY SeqDef
  <1> QED
    BY <1>1, LenProperties

(* A loaded manifest is numbered by position.                              *)
LEMMA NodesOfType ==
  ASSUME NEW m \in Manifest
  PROVE  /\ NodesOf(m) \in Seq(Node) /\ Len(NodesOf(m)) = Len(m.steps) /\ Len(m.steps) \in Nat
         /\ \A i \in 1 .. Len(m.steps) : NodesOf(m)[i].id = i /\ NodesOf(m)[i].name = m.steps[i].name
  <1>1. m.steps \in Seq(Step)
    BY DEF Manifest
  <1>2. Len(m.steps) \in Nat /\ DOMAIN m.steps = 1 .. Len(m.steps)
        /\ \A i \in 1 .. Len(m.steps) : m.steps[i] \in Step
    BY <1>1, SeqShape
  <1>3. NodesOf(m) \in [1 .. Len(m.steps) -> Node]
    BY <1>2 DEF NodesOf, Node, Step
  <1>4. \A i \in 1 .. Len(m.steps) : NodesOf(m)[i].id = i /\ NodesOf(m)[i].name = m.steps[i].name
    BY <1>2 DEF NodesOf
  <1> QED
    BY <1>2, <1>3, <1>4, FunctionIsSeq

LEMMA EdgesOfType ==
  ASSUME NEW m \in Manifest
  PROVE  EdgesOf(m) \subseteq Nat \X Nat
  <1>1. m.steps \in Seq(Step)
    BY DEF Manifest
  <1>2. DOMAIN m.steps \subseteq Nat
    BY <1>1, SeqShape
  <1>3. \A name : IndexOf(m.steps, name) \subseteq Nat
    BY <1>2 DEF IndexOf
  <1>4. ASSUME NEW i \in DOMAIN m.steps
        PROVE  (IF m.steps[i].deps = None THEN IF i > 1 THEN {<<i - 1, i>>} ELSE {}
                ELSE { <<s, i>> : s \in UNION { IndexOf(m.steps, d) : d \in m.steps[i].deps } })
               \subseteq Nat \X Nat
    <2>1. i \in Nat
      BY <1>2, <1>4
    <2>2. UNION { IndexOf(m.steps, d) : d \in m.steps[i].deps } \subseteq Nat
      BY <1>3
    <2> QED
      BY <2>1, <2>2
  <1> QED
    BY <1>4 DEF EdgesOf

(* What a node's step states of its dependencies.                          *)
DepsIn(ns, es, i) ==
  LET incoming == { e \in es : e[2] = ns[i].id }
  IN  IF incoming = {} THEN None
      ELSE { ns[j].name : j \in { k \in DOMAIN ns : \E e \in incoming : e[1] = ns[k].id } }

LEMMA BuildType ==
  ASSUME NEW ns \in Seq(Node), NEW es, NEW t \in Tests
  PROVE  /\ BuildFrom(ns, es, t) \in Manifest
         /\ BuildFrom(ns, es, t).steps \in Seq(Step) /\ DOMAIN BuildFrom(ns, es, t).steps = DOMAIN ns
         /\ \A i \in DOMAIN ns : /\ BuildFrom(ns, es, t).steps[i].name = ns[i].name
                                 /\ BuildFrom(ns, es, t).steps[i].deps = DepsIn(ns, es, i)
  <1> DEFINE step(i) == [name |-> ns[i].name, extract |-> ns[i].extract, mapped |-> ns[i].mapped,
                         deps |-> DepsIn(ns, es, i)]
             steps == [i \in DOMAIN ns |-> step(i)]
  <1>1. BuildFrom(ns, es, t) = [id |-> t, extra |-> FALSE, steps |-> steps]
    BY Zenon DEF BuildFrom, DepsIn
  <1>2. Len(ns) \in Nat /\ DOMAIN ns = 1 .. Len(ns) /\ \A i \in 1 .. Len(ns) : ns[i] \in Node
    BY SeqShape
  <1>3. ASSUME NEW i \in DOMAIN ns PROVE step(i) \in Step
    <2>1. ns[i] \in Node
      BY <1>2
    <2>2. DepsIn(ns, es, i) \in (SUBSET Names) \cup {None}
      <3>1. PICK incoming : incoming = { e \in es : e[2] = ns[i].id }
        OBVIOUS
      <3>2. PICK found : found = { ns[j].name : j \in { k \in DOMAIN ns : \E e \in incoming : e[1] = ns[k].id } }
        OBVIOUS
      <3>3. found \subseteq Names
        BY <1>2, <3>2 DEF Node
      <3>4. DepsIn(ns, es, i) = IF incoming = {} THEN None ELSE found
        BY <3>1, <3>2, Zenon DEF DepsIn
      <3> QED
        BY <3>3, <3>4
    <2> QED
      BY <2>1, <2>2 DEF Step, Node
  <1>4. steps \in [1 .. Len(ns) -> Step]
    BY <1>2, <1>3
  <1>5. steps \in Seq(Step) /\ DOMAIN steps = DOMAIN ns
    <2> HIDE DEF steps
    <2> QED
      BY <1>2, <1>4, FunctionIsSeq
  <1>6. \A i \in DOMAIN ns : steps[i].name = ns[i].name /\ steps[i].deps = DepsIn(ns, es, i)
    OBVIOUS
  <1> HIDE DEF steps
  <1> QED
    BY <1>1, <1>5, <1>6 DEF Manifest

UniqueIds(s) == \A i, j \in 1 .. Len(s) : s[i].id = s[j].id => i = j

LEMMA FilterUnique ==
  ASSUME NEW s \in Seq(Node), NEW keep, UniqueIds(s)
  PROVE  UniqueIds(Filter(s, keep))
  <1> DEFINE P == { t \in Seq(Node) : UniqueIds(t) => UniqueIds(Filter(t, keep)) }
  <1>1. <<>> \in P
    BY FilterEmpty, EmptySeq
  <1>2. ASSUME NEW t \in Seq(Node), NEW e \in Node, t \in P PROVE Append(t, e) \in P
    <2>1. PICK u, f, g : u = Append(t, e) /\ f = Filter(t, keep) /\ g = Filter(u, keep)
      OBVIOUS
    <2>2. g = IF e \in keep THEN Append(f, e) ELSE f
      BY <2>1, FilterAppend
    <2>3. /\ u \in Seq(Node) /\ Len(u) = Len(t) + 1 /\ Len(t) \in Nat
          /\ u[Len(t) + 1] = e /\ \A i \in 1 .. Len(t) : u[i] = t[i]
      BY <2>1, AppendProperties, LenProperties
    <2>4. f \in Seq(Node) /\ \A j \in 1 .. Len(f) : \E i \in 1 .. Len(t) : f[j] = t[i]
      BY <2>1, FilterType
    <2>5. ASSUME UniqueIds(u) PROVE UniqueIds(g)
      <3>1. UniqueIds(f)
        <4>1. UniqueIds(t)
          BY <2>3, <2>5 DEF UniqueIds
        <4> QED
          BY <1>2, <2>1, <4>1
      <3>2. \A j \in 1 .. Len(f) : f[j].id # e.id
        <4> SUFFICES ASSUME NEW j \in 1 .. Len(f) PROVE f[j].id # e.id
          OBVIOUS
        <4>1. PICK i \in 1 .. Len(t) : f[j] = t[i]
          BY <2>4
        <4> QED
          BY <2>3, <2>5, <4>1 DEF UniqueIds
      <3>3. CASE e \notin keep
        BY <2>2, <3>1, <3>3
      <3>4. CASE e \in keep
        <4>1. /\ Len(g) = Len(f) + 1 /\ Len(f) \in Nat
              /\ g[Len(f) + 1] = e /\ \A j \in 1 .. Len(f) : g[j] = f[j]
          BY <2>2, <2>4, <3>4, AppendProperties, LenProperties
        <4> QED
          BY <3>1, <3>2, <4>1 DEF UniqueIds
      <3> QED
        BY <3>3, <3>4
    <2> QED
      BY <2>1, <2>3, <2>5
  <1>3. s \in P
    <2> HIDE DEF P
    <2> QED
      BY <1>1, <1>2, SequenceInduction
  <1> QED
    BY <1>3

-----------------------------------------------------------------------------
(* Nodes.                                                                    *)

LEMMA DrawnShape ==
  ASSUME Drawing
  PROVE  /\ Len(nodes) \in Nat /\ DOMAIN nodes = 1 .. Len(nodes) /\ UniqueIds(nodes)
         /\ \A i \in 1 .. Len(nodes) : nodes[i] \in Node
         /\ NodeIds(nodes) \subseteq Nat
  <1>1. Len(nodes) \in Nat /\ DOMAIN nodes = 1 .. Len(nodes) /\ \A i \in 1 .. Len(nodes) : nodes[i] \in Node
    BY SeqShape DEF Drawing
  <1>2. UniqueIds(nodes)
    BY <1>1 DEF Drawing, NodeIdsUnique, UniqueIds
  <1>3. NodeIds(nodes) \subseteq Nat
    BY <1>1 DEF NodeIds, Node
  <1> QED
    BY <1>1, <1>2, <1>3

(* A diagram is drawn if its nodes are.                                    *)
LEMMA Drawn ==
  ASSUME nodes' \in Seq(Node), UniqueIds(nodes'), \A i \in 1 .. Len(nodes') : nodes'[i].id <= counter',
         edges' \subseteq Nat \X Nat, counter' \in Nat, testId' \in Tests
  PROVE  Drawing'
  <1>1. DOMAIN nodes' = 1 .. Len(nodes')
    BY SeqShape
  <1> QED
    BY <1>1 DEF Drawing, NodeIdsUnique, UniqueIds

(* A step is added under the next number.                                  *)
LEMMA AddedNode ==
  ASSUME Drawing, NEW name \in Names, counter' = counter + 1, nodes' = Append1(nodes, counter + 1, name),
         UNCHANGED <<edges, testId>>
  PROVE  Drawing'
  <1>1. PICK node : node = [id |-> counter + 1, name |-> name, extract |-> FALSE, mapped |-> FALSE]
    OBVIOUS
  <1>2. node \in Node /\ node.id = counter + 1 /\ counter \in Nat /\ nodes \in Seq(Node)
    BY <1>1 DEF Drawing, Node
  <1>3. nodes' = Append(nodes, node)
    BY <1>1 DEF Append1
  <1>4. /\ nodes' \in Seq(Node) /\ Len(nodes') = Len(nodes) + 1
        /\ nodes'[Len(nodes) + 1] = node /\ \A i \in 1 .. Len(nodes) : nodes'[i] = nodes[i]
    BY <1>2, <1>3, AppendProperties
  <1>5. /\ Len(nodes) \in Nat /\ UniqueIds(nodes)
        /\ \A i \in 1 .. Len(nodes) : nodes[i].id \in Nat /\ nodes[i].id <= counter
    BY DrawnShape DEF Drawing, Node
  <1>6. \A i \in 1 .. Len(nodes') : i = Len(nodes) + 1 \/ i \in 1 .. Len(nodes)
    BY <1>4, <1>5
  <1>7. \A i \in 1 .. Len(nodes') : nodes'[i].id <= counter'
    BY <1>2, <1>4, <1>5, <1>6
  <1>8. UniqueIds(nodes')
    BY <1>2, <1>4, <1>5, <1>6 DEF UniqueIds
  <1> QED
    BY <1>2, <1>4, <1>7, <1>8, Drawn DEF Drawing

LEMMA RemovedNode ==
  ASSUME Drawing, NEW id, nodes' = Without(nodes, id), edges' \subseteq edges, UNCHANGED <<testId, counter>>
  PROVE  Drawing'
  <1>1. PICK keep : nodes' = Filter(nodes, keep)
    BY DEF Without
  <1>2. nodes' \in Seq(Node) /\ \A j \in 1 .. Len(nodes') : \E i \in 1 .. Len(nodes) : nodes'[j] = nodes[i]
    BY <1>1, FilterType DEF Drawing
  <1>3. UniqueIds(nodes')
    BY <1>1, DrawnShape, FilterUnique DEF Drawing
  <1>4. \A j \in 1 .. Len(nodes') : nodes'[j].id <= counter'
    BY <1>2 DEF Drawing
  <1> QED
    BY <1>2, <1>3, <1>4, Drawn DEF Drawing

(* A change of a node is of any of its fields but its id.                  *)
Changes == [{} -> {}] \cup [{"name"} -> Names] \cup [{"extract"} -> BOOLEAN] \cup [{"mapped"} -> BOOLEAN]

LEMMA ChangesAre ==
  /\ <<>> \in Changes
  /\ \A n \in Names : [name |-> n] \in Changes
  /\ \A b \in BOOLEAN : [extract |-> b] \in Changes /\ [mapped |-> b] \in Changes
  BY DEF Changes

LEMMA ChangedNode ==
  ASSUME Drawing, NEW id, NEW change \in Changes, nodes' = Mapped(nodes, id, change),
         edges' \subseteq Nat \X Nat, UNCHANGED <<testId, counter>>
  PROVE  Drawing'
  <1>0. /\ Len(nodes) \in Nat /\ DOMAIN nodes = 1 .. Len(nodes) /\ UniqueIds(nodes)
        /\ \A i \in 1 .. Len(nodes) : nodes[i] \in Node /\ nodes[i].id <= counter
    BY DrawnShape DEF Drawing
  <1>1. ASSUME NEW node \in Node
        PROVE  /\ [f \in DOMAIN node |-> IF f \in DOMAIN change THEN change[f] ELSE node[f]] \in Node
               /\ [f \in DOMAIN node |-> IF f \in DOMAIN change THEN change[f] ELSE node[f]].id = node.id
    BY DEF Node, Changes
  <1>2. nodes' \in [1 .. Len(nodes) -> Node] /\ \A i \in 1 .. Len(nodes) : nodes'[i].id = nodes[i].id
    BY <1>0, <1>1 DEF Mapped
  <1>3. nodes' \in Seq(Node) /\ Len(nodes') = Len(nodes)
    BY <1>0, <1>2, FunctionIsSeq
  <1> QED
    BY <1>0, <1>2, <1>3, Drawn DEF Drawing, UniqueIds

LEMMA SameNodes ==
  ASSUME Drawing, UNCHANGED <<nodes, counter>>, edges' \subseteq Nat \X Nat, testId' \in Tests
  PROVE  Drawing'
  BY DrawnShape, Drawn DEF Drawing

-----------------------------------------------------------------------------
(* Text and diagram.                                                         *)

(* After a change of the diagram the effect writes the text, unless the    *)
(* text is one it leaves alone.                                            *)
LEMMA SyncedSpelling ==
  ASSUME Spelling, Drawing', Synced(text)
  PROVE  Spelling'
  <1>1. CASE sync = "diagram"
    <2>1. sync' = "diagram" /\ text' = BuildFrom(nodes', edges', testId')
      BY <1>1 DEF Synced
    <2>2. text' \in Manifest
      BY <2>1, BuildType DEF Drawing
    <2> QED
      BY <2>1, <2>2 DEF Spelling, Coherent, Build
  <1>2. CASE sync # "diagram"
    <2>1. sync' = "diagram" /\ text' = Unusable
      BY <1>2 DEF Synced, Spelling
    <2> QED
      BY <2>1 DEF Spelling, Coherent
  <1> QED
    BY <1>1, <1>2

(* A manifest takes the place of diagram and text.                         *)
LEMMA Applied ==
  ASSUME Drawing, NEW m \in Manifest, Apply(m)
  PROVE  Drawing' /\ Spelling' /\ selected' = None
  <1>1. /\ nodes' = NodesOf(m) /\ edges' = EdgesOf(m) /\ testId' = m.id /\ selected' = None
        /\ counter' = (IF Len(m.steps) > counter THEN Len(m.steps) ELSE counter)
        /\ text' = m /\ sync' = "diagram"
    BY DEF Apply
  <1>2. /\ nodes' \in Seq(Node) /\ Len(nodes') = Len(m.steps) /\ Len(m.steps) \in Nat
        /\ \A i \in 1 .. Len(m.steps) : nodes'[i].id = i
    BY <1>1, NodesOfType
  <1>3. counter' \in Nat /\ Len(m.steps) <= counter'
    BY <1>1, <1>2 DEF Drawing
  <1>4. Drawing'
    <2>1. /\ UniqueIds(nodes') /\ \A i \in 1 .. Len(nodes') : nodes'[i].id <= counter'
          /\ nodes' \in Seq(Node)
      BY <1>2, <1>3 DEF UniqueIds
    <2>2. edges' \subseteq Nat \X Nat /\ counter' \in Nat
      BY <1>1, <1>3, EdgesOfType
    <2>3. testId' \in Tests
      BY <1>1 DEF Manifest
    <2> QED
      BY <2>1, <2>2, <2>3, Drawn
  <1>5. Spelling'
    BY <1>1 DEF Spelling, Coherent
  <1> QED
    BY <1>1, <1>4, <1>5

LEMMA Untouched ==
  ASSUME IInv, UNCHANGED <<diagram, text, sync>>
  PROVE  Drawing' /\ Spelling'
  BY DEF IInv, diagram, Drawing, NodeIdsUnique, Spelling, Coherent, Build

-----------------------------------------------------------------------------
(* The actions.                                                              *)

LEMMA InitIInv == Init => IInv
  <1> SUFFICES ASSUME Init PROVE IInv
    OBVIOUS
  <1>1. nodes = <<>> /\ Len(nodes) = 0 /\ nodes \in Seq(Node) /\ DOMAIN nodes = {}
    BY EmptySeq DEF Init
  <1>2. Drawing
    BY <1>1 DEF Init, Drawing, NodeIdsUnique
  <1>3. Spelling
    <2>1. text = Build /\ sync = "diagram"
      BY DEF Init, Build
    <2>2. Build \in Manifest
      BY <1>2, BuildType DEF Build, Drawing
    <2> QED
      BY <2>1, <2>2 DEF Spelling, Coherent
  <1>4. Around
    <2>1. calls \subseteq [kind : {"load", "debug"}, test : DOMAIN stored] \cup [kind : {"catalog"}, name : Names]
      BY BuilderAssumption DEF Init
    <2>2. DOMAIN stored \subseteq Tests
          /\ \A t \in DOMAIN stored : stored[t] \in Manifest /\ stored[t].id = t
      BY BuilderAssumption DEF Init
    <2>3. calls \subseteq Call /\ \A c \in calls : c.kind \in {"load", "debug"} => c.test \in DOMAIN stored
      BY <2>1, <2>2 DEF Call
    <2> QED
      BY <2>2, <2>3 DEF Init, Around
  <1> QED
    BY <1>2, <1>3, <1>4 DEF IInv

(* An edit of the diagram asks for nothing.                                *)
LEMMA EditedIInv ==
  ASSUME IInv, Drawing', Synced(text), Idle,
         selected' \in Nat \cup {None}, dialog' \in (Nat \X Nat) \cup {None}
  PROVE  IInv'
  <1>1. Spelling'
    BY SyncedSpelling DEF IInv
  <1>2. Around'
    BY DEF Idle, IInv, Around
  <1> QED
    BY <1>1, <1>2 DEF IInv

LEMMA UpdateStep ==
  ASSUME IInv, NEW change \in Changes, UpdateNode(change)
  PROVE  IInv'
  <1>1. Drawing'
    BY ChangedNode DEF UpdateNode, IInv, Drawing
  <1> QED
    BY <1>1, EditedIInv DEF UpdateNode, IInv, Around

LEMMA EditStep ==
  ASSUME IInv, EditDiagram
  PROVE  IInv'
  <1> USE DEF IInv
  <1>0. /\ Drawing /\ selected \in Nat \cup {None} /\ dialog \in (Nat \X Nat) \cup {None}
        /\ NodeIds(nodes) \subseteq Nat /\ edges \subseteq Nat \X Nat /\ counter \in Nat /\ testId \in Tests
    BY DrawnShape DEF Around, Drawing
  <1>1. CASE AddStep
    <2>1. Drawing'
      BY <1>0, <1>1, AddedNode, BuilderAssumption DEF AddStep
    <2> QED
      BY <1>0, <1>1, <2>1, EditedIInv DEF AddStep
  <1>2. CASE Touch
    <2>1. Drawing'
      BY <1>2, <1>0, SameNodes DEF Touch, diagram
    <2> QED
      BY <1>0, <1>2, <2>1, EditedIInv DEF Touch
  <1>3. CASE NameStep \/ EditConfig \/ EditAssertions \/ EditExtract \/ PickExtract
             \/ ChangeType \/ PickService \/ PickMethod \/ PickEndpoint \/ EditMessage
    <2>1. \E change \in Changes : UpdateNode(change)
      BY <1>3, ChangesAre DEF NameStep, EditConfig, EditAssertions, EditExtract, PickExtract,
         ChangeType, PickService, PickMethod, PickEndpoint, EditMessage
    <2> QED
      BY <2>1, UpdateStep
  <1>4. ASSUME NEW id \in NodeIds(nodes), NEW byKey \in BOOLEAN, DeleteNode(id, byKey) PROVE IInv'
    <2>1. Drawing'
      BY <1>0, <1>4, RemovedNode DEF DeleteNode
    <2> QED
      BY <1>0, <1>4, <2>1, EditedIInv DEF DeleteNode
  <1>5. ASSUME NEW id \in NodeIds(nodes) \cup {None}, Select(id) PROVE IInv'
    <2>1. Drawing' /\ Spelling'
      BY <1>5, Untouched DEF Select
    <2> QED
      BY <1>0, <1>5, <2>1 DEF Select, Idle, Around
  <1>6. ASSUME NEW s \in NodeIds(nodes), NEW t \in NodeIds(nodes), Connect(s, t) PROVE IInv'
    <2>1. <<s, t>> \in Nat \X Nat
      BY <1>0
    <2>2. CASE dialog' = <<s, t>> /\ UNCHANGED <<edges, text, sync>>
      <3>1. Drawing' /\ Spelling'
        BY <1>6, <2>2, Untouched DEF Connect, diagram
      <3> QED
        BY <1>0, <1>6, <2>1, <2>2, <3>1 DEF Connect, Idle, Around
    <2>3. CASE dialog' = dialog /\ edges' = edges \cup {<<s, t>>} /\ Synced(text)
      <3>1. Drawing'
        BY <1>0, <1>6, <2>1, <2>3, SameNodes DEF Connect
      <3> QED
        BY <1>0, <1>6, <2>3, <3>1, EditedIInv DEF Connect
    <2> QED
      BY <1>6, <2>2, <2>3 DEF Connect
  <1>7. ASSUME NEW mapping \in BOOLEAN, CloseDialog(mapping) PROVE IInv'
    <2>1. edges' \subseteq Nat \X Nat /\ UNCHANGED <<testId, counter>>
      BY <1>0, <1>7 DEF CloseDialog
    <2>2. Drawing'
      <3>1. CASE mapping
        BY <1>0, <1>7, <2>1, <3>1, ChangesAre, ChangedNode DEF CloseDialog
      <3>2. CASE ~ mapping
        BY <1>0, <1>7, <2>1, <3>2, SameNodes DEF CloseDialog
      <3> QED
        BY <3>1, <3>2
    <2> QED
      BY <1>0, <1>7, <2>2, EditedIInv DEF CloseDialog
  <1>8. ASSUME NEW e \in edges, RemoveEdge(e) PROVE IInv'
    <2>1. Drawing'
      BY <1>0, <1>8, SameNodes DEF RemoveEdge
    <2> QED
      BY <1>0, <1>8, <2>1, EditedIInv DEF RemoveEdge
  <1>9. ASSUME NEW e \in edges, NEW s \in NodeIds(nodes), NEW t \in NodeIds(nodes), Reconnect(e, s, t)
        PROVE  IInv'
    <2>1. edges' \subseteq Nat \X Nat
      BY <1>0, <1>9 DEF Reconnect
    <2>2. Drawing'
      BY <1>0, <1>9, <2>1, SameNodes DEF Reconnect
    <2> QED
      BY <1>0, <1>9, <2>2, EditedIInv DEF Reconnect
  <1>10. ASSUME NEW t \in Tests, Rename(t) PROVE IInv'
    <2>1. Drawing'
      BY <1>0, <1>10, SameNodes DEF Rename
    <2> QED
      BY <1>0, <1>10, <2>1, EditedIInv DEF Rename
  <1> QED
    BY <1>1, <1>2, <1>3, <1>4, <1>5, <1>6, <1>7, <1>8, <1>9, <1>10 DEF EditDiagram

LEMMA TypeStep ==
  ASSUME IInv, TypeYaml
  PROVE  IInv'
  <1>1. CASE \E m \in Typed : Apply(m)
    <2>1. PICK m \in Typed : Apply(m)
      BY <1>1
    <2>2. Drawing' /\ Spelling' /\ selected' = None
      BY <2>1, Applied, BuilderAssumption DEF IInv
    <2> QED
      BY <2>2 DEF TypeYaml, Idle, IInv, Around
  <1>2. CASE text' = Unusable /\ UNCHANGED <<diagram, selected, sync>>
    <2>1. Drawing'
      BY <1>2, SameNodes DEF IInv, diagram, Drawing
    <2>2. Spelling'
      BY <1>2 DEF IInv, Spelling, Coherent
    <2> QED
      BY <1>2, <2>1, <2>2 DEF TypeYaml, Idle, IInv, Around
  <1> QED
    BY <1>1, <1>2 DEF TypeYaml

(* Asking leaves diagram and text alone.                                   *)
LEMMA AskedIInv ==
  ASSUME IInv, NEW c \in Call, Ask(c), c.kind \in {"load", "debug"} => c.test \in DOMAIN stored,
         UNCHANGED <<diagram, text, sync, stored, dialog>>, selected' \in Nat \cup {None},
         chatting' \in BOOLEAN, saving' \subseteq {"diagram", "text"}
  PROVE  IInv'
  <1>1. Drawing' /\ Spelling'
    BY Untouched
  <1> QED
    BY <1>1 DEF Ask, IInv, Around

LEMMA RequestStep ==
  ASSUME IInv, Request
  PROVE  IInv'
  <1> USE DEF IInv
  <1>0. Around /\ Drawing /\ Spelling
    OBVIOUS
  <1>1. ASSUME NEW via \in {"diagram", "text"}, Save(via) PROVE IInv'
    <2>1. PICK m : m = IF via = "text" THEN text ELSE Build
      OBVIOUS
    <2>2. m \in Manifest
      <3>1. Build \in Manifest
        BY BuildType DEF Build, Drawing
      <3> QED
        BY <1>1, <2>1, <3>1 DEF Save, Spelling
    <2>3. PICK c : c = [kind |-> "save", via |-> via, manifest |-> m]
      OBVIOUS
    <2>4. c \in Call /\ c.kind = "save"
      BY <2>2, <2>3 DEF Call
    <2> QED
      BY <1>0, <1>1, <2>1, <2>3, <2>4, AskedIInv DEF Save, Around
  <1>2. CASE Generate \/ ChatSubmit \/ DebugWithAI
    <2>1. PICK c : c = [kind |-> "chat", test |-> testId]
      OBVIOUS
    <2>2. c \in Call /\ c.kind = "chat"
      BY <2>1 DEF Call, Drawing
    <2> QED
      BY <1>0, <1>2, <2>1, <2>2, AskedIInv DEF Generate, ChatSubmit, Question, DebugWithAI, Around
  <1>3. ASSUME NEW t \in DOMAIN stored, ClickLoad(t) PROVE IInv'
    <2>1. PICK c : c = [kind |-> "load", test |-> t]
      OBVIOUS
    <2>2. c \in Call /\ c.test = t
      BY <1>0, <2>1 DEF Call, Around
    <2> QED
      BY <1>0, <1>3, <2>1, <2>2, AskedIInv DEF ClickLoad, Around
  <1> QED
    BY <1>1, <1>2, <1>3 DEF Request

(* The calls that are left, and what one of them turned into.              *)
LEMMA AroundStays ==
  ASSUME Around, calls' \subseteq Call, DOMAIN stored \subseteq DOMAIN stored', DOMAIN stored' \subseteq Tests,
         \A t \in DOMAIN stored' : stored'[t] \in Manifest /\ stored'[t].id = t,
         \A c \in calls' : c \in calls \/ (c.kind \in {"load", "debug"} => c.test \in DOMAIN stored),
         selected' \in Nat \cup {None}, UNCHANGED dialog,
         chatting' \in BOOLEAN, saving' \subseteq {"diagram", "text"}
  PROVE  Around'
  BY DEF Around

LEMMA ResponseStep ==
  ASSUME IInv, Response
  PROVE  IInv'
  <1> USE DEF IInv
  <1>0. Around /\ Drawing /\ Spelling
    OBVIOUS
  <1>c. PICK c \in calls : \/ LoadServed(c) \/ LoadArrives(c) \/ DebugArrives(c) \/ CatalogArrives(c)
                           \/ ChatArrives(c) \/ SaveArrives(c)
    BY DEF Response
  <1>t. c \in Call /\ calls \subseteq Call
    BY DEF Around
  <1>1. CASE LoadServed(c)
    <2>1. c.test \in DOMAIN stored
      BY <1>0, <1>1 DEF LoadServed, Around
    <2>2. PICK d : d = [kind |-> "loaded", manifest |-> stored[c.test]]
      OBVIOUS
    <2>3. d \in Call /\ d.kind = "loaded"
      BY <1>0, <2>1, <2>2 DEF Call, Around
    <2>4. calls' = (calls \ {c}) \cup {d}
      BY <1>1, <2>2 DEF LoadServed
    <2>5. Around'
      BY <1>0, <1>1, <1>t, <2>3, <2>4, AroundStays DEF LoadServed, Around
    <2> QED
      BY <1>1, <2>5, Untouched DEF LoadServed
  <1>2. CASE LoadArrives(c)
    <2>1. calls' = calls \ {c} /\ UNCHANGED <<dialog, chatting, saving, stored>>
      BY <1>2 DEF LoadArrives, Done
    <2>2. CASE c.kind = "loaded" /\ Apply(c.manifest)
      <3>1. c.manifest \in Manifest
        BY <1>t, <2>2 DEF Call
      <3>2. Drawing' /\ Spelling' /\ selected' = None
        BY <1>0, <2>2, <3>1, Applied
      <3> QED
        BY <1>0, <1>t, <2>1, <3>2, AroundStays DEF Around
    <2>3. CASE UNCHANGED <<diagram, selected, text, sync>>
      BY <1>0, <1>t, <2>1, <2>3, AroundStays, Untouched DEF Around
    <2> QED
      BY <1>2, <2>2, <2>3 DEF LoadArrives
  <1>3. CASE DebugArrives(c)
    <2>1. PICK d : d = [kind |-> "load", test |-> c.test]
      OBVIOUS
    <2>2. c.test \in DOMAIN stored
      BY <1>0, <1>3 DEF DebugArrives, Around
    <2>3. d \in Call /\ d.test = c.test
      BY <1>0, <2>1, <2>2 DEF Call, Around
    <2>4. calls' = (calls \ {c}) \cup {d}
      BY <1>3, <2>1 DEF DebugArrives
    <2>5. Around'
      BY <1>0, <1>3, <1>t, <2>2, <2>3, <2>4, AroundStays DEF DebugArrives, Around
    <2> QED
      BY <1>3, <2>5, Untouched DEF DebugArrives
  <1>4. CASE CatalogArrives(c)
    <2>1. calls' = calls \ {c} /\ UNCHANGED <<dialog, chatting, saving, stored>>
      BY <1>4 DEF CatalogArrives, Done
    <2>2. CASE /\ counter' = counter + 1 /\ nodes' = Append1(nodes, counter + 1, c.name)
               /\ selected' = counter + 1 /\ UNCHANGED <<edges, testId>> /\ Synced(text)
      <3>1. c.name \in Names
        BY <1>4, <1>t DEF CatalogArrives, Call
      <3>2. Drawing'
        BY <1>0, <2>2, <3>1, AddedNode
      <3>3. Spelling'
        BY <1>0, <2>2, <3>2, SyncedSpelling
      <3>4. selected' \in Nat
        BY <1>0, <2>2 DEF Drawing
      <3> QED
        BY <1>0, <1>t, <2>1, <3>2, <3>3, <3>4, AroundStays DEF Around
    <2>3. CASE UNCHANGED <<diagram, selected, text, sync>>
      BY <1>0, <1>t, <2>1, <2>3, AroundStays, Untouched DEF Around
    <2> QED
      BY <1>4, <2>2, <2>3 DEF CatalogArrives
  <1>5. CASE ChatArrives(c)
    <2>1. calls' = calls \ {c} /\ UNCHANGED <<dialog, saving, stored>> /\ chatting' = FALSE
      BY <1>5 DEF ChatArrives, Done
    <2>2. ASSUME NEW m \in Answers, Apply(m) PROVE IInv'
      <3>1. Drawing' /\ Spelling' /\ selected' = None
        BY <1>0, <2>2, Applied, BuilderAssumption
      <3> QED
        BY <1>0, <1>t, <2>1, <3>1, AroundStays DEF Around
    <2>3. CASE sync' = "ai" /\ text' = Unusable /\ UNCHANGED <<diagram, selected>>
      <3>1. Drawing'
        BY <1>0, <2>3, SameNodes DEF diagram, Drawing
      <3>2. Spelling'
        BY <2>3 DEF Spelling, Coherent
      <3> QED
        BY <1>0, <1>t, <2>1, <2>3, <3>1, <3>2, AroundStays DEF Around
    <2>4. CASE UNCHANGED <<diagram, selected, text, sync>>
      BY <1>0, <1>t, <2>1, <2>4, AroundStays, Untouched DEF Around
    <2> QED
      BY <1>5, <2>2, <2>3, <2>4 DEF ChatArrives
  <1>6. CASE SaveArrives(c)
    <2>1. /\ calls' = calls \ {c} /\ saving' \subseteq saving
          /\ UNCHANGED <<diagram, selected, dialog, text, sync, chatting>>
      BY <1>6 DEF SaveArrives, Done
    <2>2. c.manifest \in Manifest
      BY <1>6, <1>t DEF SaveArrives, Call
    <2>3. c.manifest.id \in Tests
      BY <2>2 DEF Manifest
    <2>4. /\ DOMAIN stored \subseteq DOMAIN stored' /\ DOMAIN stored' \subseteq Tests
          /\ \A t \in DOMAIN stored' : stored'[t] \in Manifest /\ stored'[t].id = t
      BY <1>0, <1>6, <2>2, <2>3 DEF SaveArrives, Put, Around
    <2>5. Around'
      BY <1>0, <1>t, <2>1, <2>4, AroundStays DEF Around
    <2> QED
      BY <2>1, <2>5, Untouched
  <1> QED
    BY <1>c, <1>1, <1>2, <1>3, <1>4, <1>5, <1>6

-----------------------------------------------------------------------------

LEMMA StutterIInv ==
  ASSUME IInv, UNCHANGED vars
  PROVE  IInv'
  <1>1. Drawing' /\ Spelling'
    BY Untouched DEF vars, diagram
  <1> QED
    BY <1>1 DEF vars, IInv, Around

LEMMA Invariant == Spec => []IInv
  <1>1. IInv /\ [Next]_vars => IInv'
    <2> SUFFICES ASSUME IInv, [Next]_vars PROVE IInv'
      OBVIOUS
    <2> QED
      BY EditStep, TypeStep, RequestStep, ResponseStep, StutterIInv DEF Next
  <1> QED
    BY <1>1, InitIInv, PTL DEF Spec

(* The builder keeps its types: everything saved or loaded is a manifest.  *)
THEOREM TypeCorrect == Spec => []TypeOK
  <1>1. IInv => TypeOK
    BY DEF IInv, Drawing, Spelling, Around, TypeOK, Node
  <1> QED
    BY <1>1, Invariant, PTL

(* Ids come from a counter, from positions in a loaded manifest and from   *)
(* steps added by late answers, and no two nodes ever share one            *)
(* (nodeIdCounter, applyManifest).                                         *)
THEOREM IdsUnique == Spec => []NodeIdsUnique
  <1>1. IInv => NodeIdsUnique
    BY DEF IInv, Drawing
  <1> QED
    BY <1>1, Invariant, PTL

(* Whatever the user edits and whichever answers come in meanwhile, text   *)
(* and diagram are one test, or the text is none (syncSourceRef).          *)
THEOREM OneTest == Spec => []Coherent
  <1>1. IInv => Coherent
    BY DEF IInv, Spelling
  <1> QED
    BY <1>1, Invariant, PTL

(* A diagram of any size, saved and loaded again, has every dependency it  *)
(* was drawn with, if its names are unique (buildManifest, applyManifest). *)
THEOREM SavingKeepsOrder == Spec => []SavedKeepsOrder
  <1>1. ASSUME Drawing, \A i, j \in DOMAIN nodes : nodes[i].name = nodes[j].name => i = j,
               NEW p \in Order(nodes, edges)
        PROVE  p \in Order(NodesOf(Build), EdgesOf(Build))
    <2>1. PICK i \in DOMAIN nodes, j \in DOMAIN nodes :
            p = <<nodes[i].name, nodes[j].name>> /\ <<nodes[i].id, nodes[j].id>> \in edges
      BY <1>1 DEF Order
    <2>2. PICK m \in Manifest : m = Build
      BY <1>1, BuildType DEF Build, Drawing
    <2>3. /\ m.steps \in Seq(Step) /\ DOMAIN m.steps = DOMAIN nodes
          /\ \A k \in DOMAIN nodes : /\ m.steps[k].name = nodes[k].name
                                     /\ m.steps[k].deps = DepsIn(nodes, edges, k)
      BY <1>1, <2>2, BuildType DEF Build, Drawing
    <2>4. DOMAIN m.steps = 1 .. Len(m.steps) /\ m.steps[j] \in Step
      BY <2>1, <2>3, SeqShape
    <2>5. m.steps[j].deps # None /\ nodes[i].name \in m.steps[j].deps
      <3>1. PICK incoming : incoming = { e \in edges : e[2] = nodes[j].id }
        OBVIOUS
      <3>2. <<nodes[i].id, nodes[j].id>> \in incoming
        BY <2>1, <3>1
      <3>3. PICK found : found = { nodes[k].name : k \in { k \in DOMAIN nodes : \E e \in incoming : e[1] = nodes[k].id } }
        OBVIOUS
      <3>4. nodes[i].name \in found
        BY <2>1, <3>2, <3>3
      <3>5. DepsIn(nodes, edges, j) = found
        BY <3>1, <3>2, <3>3 DEF DepsIn
      <3>6. found \subseteq Names
        BY <1>1, <3>3, DrawnShape DEF Node
      <3> QED
        BY <2>1, <2>3, <3>4, <3>5, <3>6, BuilderAssumption
    <2>6. i \in IndexOf(m.steps, nodes[i].name)
      <3>1. ASSUME NEW k \in 1 .. i - 1 PROVE m.steps[k].name # nodes[i].name
        <4>1. k \in DOMAIN nodes /\ k # i
          BY <2>1, <2>3, <2>4, <3>1
        <4> QED
          BY <1>1, <2>1, <2>3, <4>1
      <3> QED
        BY <2>1, <2>3, <3>1 DEF IndexOf
    <2>7. <<i, j>> \in EdgesOf(m)
      <3>1. i \in UNION { IndexOf(m.steps, d) : d \in m.steps[j].deps }
        BY <2>5, <2>6
      <3> QED
        BY <2>1, <2>3, <2>5, <3>1 DEF EdgesOf
    <2>8. /\ i \in DOMAIN NodesOf(m) /\ NodesOf(m)[i].id = i /\ NodesOf(m)[i].name = nodes[i].name
          /\ j \in DOMAIN NodesOf(m) /\ NodesOf(m)[j].id = j /\ NodesOf(m)[j].name = nodes[j].name
      BY <2>1, <2>3 DEF NodesOf
    <2>9. p \in Names \X Names
      BY <1>1 DEF Order
    <2> QED
      BY <2>1, <2>2, <2>7, <2>8, <2>9 DEF Order
  <1>2. Drawing => SavedKeepsOrder
    <2> SUFFICES ASSUME Drawing, \A i, j \in DOMAIN nodes : nodes[i].name = nodes[j].name => i = j
                 PROVE  Order(nodes, edges) \subseteq Order(NodesOf(Build), EdgesOf(Build))
      BY DEF SavedKeepsOrder
    <2> QED
      BY <1>1
  <1>3. IInv => SavedKeepsOrder
    BY <1>2 DEF IInv
  <1> QED
    BY <1>3, Invariant, PTL

-----------------------------------------------------------------------------
(* Catalog: what waits for an answer.                                       *)

CatPageFields == {"filter", "search", "rows", "loading", "syncing", "checking", "one", "group", "report"}
CatFormFields == {"add", "edit", "busy", "target", "seen", "import", "importing"}
CatDrawerFields == {"id", "op", "sending", "result"}

(* What is asked of the server, and which button it keeps waiting.         *)
CatKind(what, for) ==
  \/ what \in {"list", "coverage"} /\ for \in {"effect", "delete", "all", "health", "one", "group", "none"}
  \/ what = "sync" /\ for \in {"all", "one", "group", "none"}
  \/ what \in {"health", "delete"} /\ for = what
  \/ what \in {"save", "saved", "discover", "found", "preview"} /\ for \in {"form", "none"}
  \/ what \in {"import", "imported"} /\ for \in {"import", "none"}
  \/ what = "invoke" /\ for \in {"try", "none"}

(* The trial somebody waits for is that of the operation that is shown.    *)
CatRequest(c) ==
  /\ {"what", "for"} \subseteq DOMAIN c
  /\ CatKind(c.what, c.for)
  /\ c.what = "invoke" /\ c.for = "try" => c.id = catDrawer.id /\ c.op = catDrawer.op

CatShapes ==
  /\ DOMAIN catPage = CatPageFields
  /\ DOMAIN catForms = CatFormFields
  /\ DOMAIN catDrawer = CatDrawerFields

(* Only a form that is shown waits.                                        *)
CatShown ==
  /\ catForms.busy => CatForm(catForms) # None
  /\ catForms.importing => catForms.import

CatIInv ==
  /\ CatShapes
  /\ CatShown
  /\ \A c \in catCalls : CatRequest(c)
  /\ CatButtonsWait
  /\ ResultIsOfOperation

(* d is c with other contents.                                             *)
CatSame(c, d) ==
  /\ {"what", "for"} \subseteq DOMAIN d
  /\ d.what = c.what /\ d.for = c.for
  /\ c.what = "invoke" => d = c

LEMMA CatWrittenSame ==
  ASSUME NEW S, NEW ids, \A c \in S : CatRequest(c)
  PROVE  /\ \A d \in CatWritten(S, ids) : \E c \in S : CatSame(c, d)
         /\ \A c \in S : \E d \in CatWritten(S, ids) : CatSame(c, d)
  <1> DEFINE W(c) ==
        IF c.what = "list" /\ c.rows # None THEN [c EXCEPT !.good = FALSE]
        ELSE IF c.what = "sync" /\ c.jobs # None
          THEN [c EXCEPT !.jobs = { [j EXCEPT !.alone = j.alone /\ j.id \notin ids] : j \in c.jobs }]
        ELSE IF c.what = "delete" THEN [c EXCEPT !.alone = c.alone /\ c.ids \cap ids = {}]
        ELSE c
  <1>1. CatWritten(S, ids) = { W(c) : c \in S }
    BY DEF CatWritten
  <1>2. ASSUME NEW c \in S PROVE CatSame(c, W(c))
    <2>1. {"what", "for"} \subseteq DOMAIN c
      BY DEF CatRequest
    <2>2. ASSUME NEW x PROVE /\ CatSame(c, c)
                             /\ c.what # "invoke" => CatSame(c, [c EXCEPT !.good = x])
                             /\ c.what # "invoke" => CatSame(c, [c EXCEPT !.jobs = x])
                             /\ c.what # "invoke" => CatSame(c, [c EXCEPT !.alone = x])
      BY <2>1 DEF CatSame
    <2> QED
      BY <2>2
  <1> HIDE DEF W
  <1> QED
    BY <1>1, <1>2

(* What a step of the server does to the requests.                         *)
LEMMA CatServerKeeps ==
  ASSUME CatIInv, NEW c \in catCalls, NEW d, NEW T,
         CatSame(c, d) \/ (/\ {"what", "for"} \subseteq DOMAIN d /\ d.for = c.for
                           /\ c.what # "list" /\ d.what # "invoke" /\ CatKind(d.what, d.for)),
         \A y \in T : \E x \in catCalls : CatSame(x, y),
         \A x \in catCalls \ {c} : \E y \in T : CatSame(x, y),
         catCalls' = T \cup {d}, UNCHANGED <<catPage, catForms, catDrawer>>
  PROVE  CatIInv'
  <1>1. CatShapes' /\ CatShown' /\ ResultIsOfOperation'
    BY DEF CatIInv, CatShapes, CatShown, CatForm, ResultIsOfOperation
  <1>2. ASSUME NEW x \in catCalls, NEW y, CatSame(x, y) PROVE CatRequest(y)'
    BY <1>2 DEF CatIInv, CatRequest, CatSame
  <1>3. CatRequest(d)'
    <2>1. CASE CatSame(c, d)
      BY <1>2, <2>1
    <2>2. CASE ~CatSame(c, d)
      BY <2>2 DEF CatRequest
    <2> QED
      BY <2>1, <2>2
  <1>4. \A y \in catCalls' : CatRequest(y)'
    BY <1>2, <1>3
  <1>5. \A x \in catCalls : \E y \in catCalls' : y.for = x.for /\ (x.what = "list" => y.what = "list")
    BY DEF CatSame
  <1>6. CatButtonsWait'
    BY <1>5 DEF CatIInv, CatButtonsWait
  <1> QED
    BY <1>1, <1>4, <1>6 DEF CatIInv

LEMMA CatServeKeeps ==
  ASSUME CatIInv, NEW c \in catCalls, CatServe(c)
  PROVE  CatIInv'
  <1>0. CatRequest(c) /\ {"what", "for"} \subseteq DOMAIN c /\ UNCHANGED <<catPage, catForms, catDrawer>>
    BY DEF CatIInv, CatRequest, CatServe
  <1>1. ASSUME NEW d, CatBecomes(c, d),
               CatSame(c, d) \/ (/\ {"what", "for"} \subseteq DOMAIN d /\ d.for = c.for
                                 /\ c.what # "list" /\ d.what # "invoke" /\ CatKind(d.what, d.for))
        PROVE  CatIInv'
    <2>1. \A x \in catCalls : CatSame(x, x)
      BY DEF CatIInv, CatRequest, CatSame
    <2> DEFINE T == catCalls \ {c}
    <2>2. (\A y \in T : \E x \in catCalls : CatSame(x, y)) /\ (\A x \in catCalls \ {c} : \E y \in T : CatSame(x, y))
      BY <2>1
    <2>3. catCalls' = T \cup {d}
      BY <1>1 DEF CatBecomes
    <2> HIDE DEF T
    <2> QED
      BY <1>0, <1>1, <2>2, <2>3, CatServerKeeps
  <1>2. ASSUME NEW d, NEW ids, CatWrites(c, d, ids),
               CatSame(c, d) \/ (/\ {"what", "for"} \subseteq DOMAIN d /\ d.for = c.for
                                 /\ c.what # "list" /\ d.what # "invoke" /\ CatKind(d.what, d.for))
        PROVE  CatIInv'
    <2> DEFINE T == CatWritten(catCalls \ {c}, ids)
    <2>1. \A x \in catCalls \ {c} : CatRequest(x)
      BY DEF CatIInv
    <2>2. (\A y \in T : \E x \in catCalls \ {c} : CatSame(x, y)) /\ (\A x \in catCalls \ {c} : \E y \in T : CatSame(x, y))
      BY <2>1, CatWrittenSame, Zenon
    <2>3. catCalls' = T \cup {d}
      BY <1>2 DEF CatWrites
    <2> HIDE DEF T
    <2>4. \A y \in T : \E x \in catCalls : CatSame(x, y)
      BY <2>2
    <2> QED
      BY <1>0, <1>2, <2>2, <2>3, <2>4, CatServerKeeps
  <1>3. CASE CatReadList(c)
    <2>1. PICK rows : CatBecomes(c, [c EXCEPT !.rows = rows, !.good = TRUE]) /\ c.what = "list"
      BY <1>3 DEF CatReadList
    <2>2. CatSame(c, [c EXCEPT !.rows = rows, !.good = TRUE])
      BY <1>0, <2>1 DEF CatSame
    <2> QED
      BY <1>1, <2>1, <2>2
  <1>4. CASE CatSync(c)
    <2>1. ASSUME c.what = "sync", NEW jobs, NEW report, NEW failed
          PROVE  /\ CatSame(c, [c EXCEPT !.jobs = jobs])
                 /\ CatSame(c, [c EXCEPT !.jobs = jobs, !.report = report])
                 /\ CatSame(c, [c EXCEPT !.jobs = jobs, !.report = report, !.failed = failed])
                 /\ CatSame(c, [c EXCEPT !.jobs = jobs, !.failed = failed, !.report = report])
      BY <1>0, <2>1 DEF CatSame
    <2>2. CASE CatReadRows(c)
      <3>1. PICK jobs, report, failed :
               CatBecomes(c, [c EXCEPT !.jobs = jobs, !.failed = failed, !.report = report]) /\ c.what = "sync"
        BY <2>2 DEF CatReadRows
      <3> QED
        BY <1>1, <2>1, <3>1
    <2>3. CASE CatReach(c)
      <3>1. PICK jobs : CatBecomes(c, [c EXCEPT !.jobs = jobs]) /\ c.what = "sync"
        BY <2>3 DEF CatReach
      <3> QED
        BY <1>1, <2>1, <3>1
    <2>4. CASE c.what = "sync" /\ \E j \in c.jobs : CatRefuse(c, j) \/ CatNote(c, j) \/ CatStore(c, j)
      <3>1. PICK j \in c.jobs : CatRefuse(c, j) \/ CatNote(c, j) \/ CatStore(c, j)
        BY <2>4
      <3>2. CASE CatRefuse(c, j)
        <4>1. PICK jobs, report, failed, ids :
                 CatWrites(c, [c EXCEPT !.jobs = jobs, !.report = report, !.failed = failed], ids)
          BY <3>2 DEF CatRefuse
        <4> QED
          BY <1>2, <2>1, <2>4, <4>1
      <3>3. CASE CatNote(c, j)
        <4>1. PICK jobs, ids : CatWrites(c, [c EXCEPT !.jobs = jobs], ids)
          BY <3>3 DEF CatNote
        <4> QED
          BY <1>2, <2>1, <2>4, <4>1
      <3>4. CASE CatStore(c, j)
        <4>1. PICK jobs, report, ids : CatWrites(c, [c EXCEPT !.jobs = jobs, !.report = report], ids)
          BY <3>4 DEF CatStore
        <4> QED
          BY <1>2, <2>1, <2>4, <4>1
      <3> QED
        BY <3>1, <3>2, <3>3, <3>4
    <2> QED
      BY <1>4, <2>2, <2>3, <2>4 DEF CatSync
  <1>5. CASE CatUpsert(c)
    <2>1. PICK ids : CatWrites(c, [c EXCEPT !.what = "saved"], ids) /\ c.what = "save"
      BY <1>5 DEF CatUpsert
    <2> DEFINE d == [c EXCEPT !.what = "saved"]
    <2>2. {"what", "for"} \subseteq DOMAIN d /\ d.for = c.for /\ d.what = "saved"
      BY <1>0
    <2>3. CatKind(d.what, d.for)
      BY <1>0, <2>1, <2>2 DEF CatRequest, CatKind
    <2> QED
      BY <1>2, <2>1, <2>2, <2>3
  <1>6. CASE CatBulkUpsert(c)
    <2>1. PICK ids : CatWrites(c, [c EXCEPT !.what = "imported"], ids) /\ c.what = "import"
      BY <1>6 DEF CatBulkUpsert
    <2> DEFINE d == [c EXCEPT !.what = "imported"]
    <2>2. {"what", "for"} \subseteq DOMAIN d /\ d.for = c.for /\ d.what = "imported"
      BY <1>0
    <2>3. CatKind(d.what, d.for)
      BY <1>0, <2>1, <2>2 DEF CatRequest, CatKind
    <2> QED
      BY <1>2, <2>1, <2>2, <2>3
  <1>7. CASE CatReflect(c)
    <2>1. PICK todo, failed, d : /\ d = [c EXCEPT !.what = "found", !.failed = failed, !.todo = todo]
                                 /\ CatBecomes(c, d) /\ c.what = "discover"
      BY <1>7 DEF CatReflect
    <2>2. {"what", "for"} \subseteq DOMAIN d /\ d.for = c.for /\ d.what = "found"
      BY <1>0, <2>1
    <2>3. CatKind(d.what, d.for)
      BY <1>0, <2>1, <2>2 DEF CatRequest, CatKind
    <2> QED
      BY <1>1, <2>1, <2>2, <2>3
  <1>8. CASE CatKeep(c) \/ CatDelete(c)
    <2>1. PICK todo, ids : CatWrites(c, [c EXCEPT !.todo = todo], ids) /\ c.what \in {"found", "delete"}
      BY <1>8 DEF CatKeep, CatDelete
    <2>2. CatSame(c, [c EXCEPT !.todo = todo])
      BY <1>0, <2>1 DEF CatSame
    <2> QED
      BY <1>2, <2>1, <2>2
  <1> QED
    BY <1>3, <1>4, <1>5, <1>6, <1>7, <1>8 DEF CatServe

(* Changing forms, and what the drawer shows.                              *)
LEMMA CatShowKeeps ==
  ASSUME CatShapes, CatShown, NEW f, NEW asks, \A c \in asks : CatRequest(c),
         DOMAIN f = CatFormFields, f.busy = catForms.busy, f.importing = catForms.importing,
         CatShow(f, asks), catDrawer' = catDrawer
  PROVE  /\ DOMAIN catForms' = CatFormFields
         /\ CatShown'
         /\ \A c \in catCalls' : CatRequest(c)'
         /\ catForms'.busy => catForms.busy /\ CatForm(f) # None
         /\ catForms'.importing => catForms.importing /\ f.import
         /\ \A c \in asks : \E d \in catCalls' :
              /\ d.what = c.what
              /\ c.for \notin {"form", "import"} => d.for = c.for
              /\ c.for = "form" /\ catForms'.busy => d.for = "form"
              /\ c.for = "import" /\ catForms'.importing => d.for = "import"
  <1> DEFINE other == CatForm(f) # CatForm(catForms)
             leaves == ~(f.import /\ catForms.import)
             Left(c) == \/ other /\ c.for = "form"
                        \/ c.for = "import" /\ leaves
             N(c) == IF Left(c) THEN [c EXCEPT !.for = "none"] ELSE c
  <1>1. catCalls' = { N(c) : c \in asks }
    BY DEF CatShow
  <1>2. PICK target, seen : catForms' = [f EXCEPT !.busy = @ /\ ~other, !.target = target, !.seen = seen,
                                                  !.importing = @ /\ f.import /\ catForms.import]
    BY DEF CatShow
  <1>3. /\ DOMAIN catForms' = CatFormFields
        /\ catForms'.edit = f.edit /\ catForms'.add = f.add /\ catForms'.import = f.import
        /\ catForms'.busy = (f.busy /\ ~other) /\ catForms'.importing = (f.importing /\ ~leaves)
    BY <1>2 DEF CatFormFields
  <1>4. CatForm(catForms') = CatForm(f)
    BY <1>3 DEF CatForm
  <1>5. catForms'.busy => catForms.busy /\ CatForm(f) # None
    BY <1>3 DEF CatShown
  <1>6. CatShown'
    BY <1>3, <1>4, <1>5 DEF CatShown
  <1>7. ASSUME NEW c \in asks, NEW d, d = N(c)
        PROVE  /\ CatRequest(d)'
               /\ d.what = c.what
               /\ d.for = IF Left(c) THEN "none" ELSE c.for
    <2>1. CatRequest(c) /\ {"what", "for"} \subseteq DOMAIN c /\ CatKind(c.what, c.for)
      BY DEF CatRequest
    <2>2. CASE Left(c)
      <3>1. d = [c EXCEPT !.for = "none"]
        BY <1>7, <2>2
      <3>2. DOMAIN d = DOMAIN c /\ d.what = c.what /\ d.for = "none"
        BY <2>1, <3>1
      <3> QED
        BY <2>1, <2>2, <3>2 DEF CatRequest, CatKind
    <2>3. CASE ~Left(c)
      <3>1. d = c
        BY <1>7, <2>3
      <3>2. CatRequest(c)'
        BY <2>1 DEF CatRequest
      <3> QED
        BY <2>3, <3>1, <3>2
    <2> QED
      BY <2>2, <2>3
  <1> HIDE DEF N
  <1>8. \A c \in asks : N(c) \in catCalls'
    BY <1>1
  <1>9. \A d \in catCalls' : CatRequest(d)'
    BY <1>1, <1>7
  <1>10. ASSUME NEW c \in asks
         PROVE  \E d \in catCalls' :
                   /\ d.what = c.what
                   /\ c.for \notin {"form", "import"} => d.for = c.for
                   /\ c.for = "form" /\ catForms'.busy => d.for = "form"
                   /\ c.for = "import" /\ catForms'.importing => d.for = "import"
    <2>1. PICK d : d = N(c)
      OBVIOUS
    <2>2. d \in catCalls' /\ d.what = c.what /\ d.for = IF Left(c) THEN "none" ELSE c.for
      BY <1>7, <1>8, <2>1
    <2> QED
      BY <1>3, <2>2
  <1> QED
    BY <1>3, <1>5, <1>6, <1>9, <1>10

LEMMA CatDrawKeeps ==
  ASSUME CatShapes, ResultIsOfOperation, NEW d, NEW rows, NEW asks, \A c \in asks : CatRequest(c),
         DOMAIN d = CatDrawerFields, d.sending = catDrawer.sending, d.result \in {None, catDrawer.result},
         CatDraw(d, rows, asks)
  PROVE  /\ DOMAIN catDrawer' = CatDrawerFields
         /\ ResultIsOfOperation'
         /\ \A c \in catCalls' : CatRequest(c)'
         /\ catDrawer'.sending => catDrawer.sending
         /\ \A c \in asks : \E e \in catCalls' :
              /\ e.what = c.what
              /\ c.for # "try" \/ catDrawer'.sending => e.for = c.for
  <1> DEFINE e == IF d.id \in DOMAIN rows THEN d ELSE [d EXCEPT !.op = None]
             same == <<e.id, e.op>> = <<catDrawer.id, catDrawer.op>>
             N(c) == IF c.for = "try" THEN [c EXCEPT !.for = "none"] ELSE c
  <1>1. DOMAIN e = CatDrawerFields /\ e.sending = catDrawer.sending /\ e.result \in {None, catDrawer.result}
    BY DEF CatDrawerFields
  <1>2. \/ same /\ catDrawer' = e /\ catCalls' = asks
        \/ catDrawer' = [e EXCEPT !.sending = FALSE, !.result = None] /\ catCalls' = { N(c) : c \in asks }
    BY DEF CatDraw
  <1> HIDE DEF e
  <1>3. CASE same /\ catDrawer' = e /\ catCalls' = asks
    <2>1. catDrawer'.id = catDrawer.id /\ catDrawer'.op = catDrawer.op
      BY <1>3
    <2>2. ResultIsOfOperation'
      BY <1>1, <1>3 DEF ResultIsOfOperation
    <2>3. \A c \in catCalls' : CatRequest(c)'
      BY <1>3, <2>1 DEF CatRequest
    <2> QED
      BY <1>1, <1>3, <2>2, <2>3
  <1>4. CASE catDrawer' = [e EXCEPT !.sending = FALSE, !.result = None] /\ catCalls' = { N(c) : c \in asks }
    <2>1. DOMAIN catDrawer' = CatDrawerFields /\ catDrawer'.sending = FALSE /\ catDrawer'.result = None
      BY <1>1, <1>4 DEF CatDrawerFields
    <2>2. ResultIsOfOperation'
      BY <2>1 DEF ResultIsOfOperation
    <2>3. ASSUME NEW c \in asks
          PROVE  CatRequest(N(c))' /\ N(c).what = c.what /\ (c.for # "try" => N(c).for = c.for)
      <3>1. CatRequest(c) /\ {"what", "for"} \subseteq DOMAIN c /\ CatKind(c.what, c.for)
        BY DEF CatRequest
      <3>2. CASE c.for = "try"
        <4>1. N(c) = [c EXCEPT !.for = "none"]
          BY <3>2
        <4>2. DOMAIN N(c) = DOMAIN c /\ N(c).what = c.what /\ N(c).for = "none"
          BY <3>1, <4>1
        <4> QED
          BY <3>1, <3>2, <4>2 DEF CatRequest, CatKind
      <3>3. CASE c.for # "try"
        <4>1. N(c) = c
          BY <3>3
        <4>2. CatRequest(c)'
          BY <3>1, <3>3 DEF CatRequest
        <4> HIDE DEF N
        <4> QED
          BY <3>3, <4>1, <4>2
      <3> QED
        BY <3>2, <3>3
    <2> HIDE DEF N
    <2> QED
      BY <1>4, <2>1, <2>2, <2>3
  <1> QED
    BY <1>2, <1>3, <1>4

(* Answers.                                                                *)
LEMMA CatOverKeeps ==
  ASSUME CatIInv, NEW c \in catCalls, NEW astray, CatOver(c, astray), c.what \notin {"list", "invoke"}
  PROVE  CatIInv'
  <1>1. CatRequest(c) /\ CatKind(c.what, c.for) /\ c.for # "try"
    BY DEF CatIInv, CatRequest, CatKind
  <1>2. /\ DOMAIN catForms' = CatFormFields
        /\ catForms'.edit = catForms.edit /\ catForms'.add = catForms.add /\ catForms'.import = catForms.import
        /\ catForms'.busy = (catForms.busy /\ c.for # "form")
        /\ catForms'.importing = (catForms.importing /\ c.for # "import")
    BY DEF CatOver, CatReleased, CatIInv, CatShapes, CatFormFields
  <1>3. /\ DOMAIN catPage' = CatPageFields
        /\ catPage'.loading = catPage.loading
        /\ catPage'.syncing => catPage.syncing /\ c.for # "all"
        /\ catPage'.checking => catPage.checking /\ c.for # "health"
        /\ catPage'.one # None => catPage.one # None /\ c.for # "one"
        /\ catPage'.group # None => catPage.group # None /\ c.for # "group"
    BY DEF CatOver, CatReleased, CatIInv, CatShapes, CatPageFields
  <1>4. catDrawer' = catDrawer /\ catCalls' = catCalls \ {c}
    BY DEF CatOver
  <1>5. CatShapes' /\ ResultIsOfOperation'
    BY <1>2, <1>3, <1>4 DEF CatIInv, CatShapes, ResultIsOfOperation
  <1>6. CatShown'
    BY <1>2 DEF CatIInv, CatShown, CatForm
  <1>7. \A d \in catCalls' : CatRequest(d)'
    BY <1>4 DEF CatIInv, CatRequest
  <1>8. \A x \in catCalls : x.what = "list" \/ x.for # c.for => x \in catCalls'
    BY <1>4
  <1>9. ASSUME NEW f, f # c.for, \E x \in catCalls : x.for = f PROVE \E x \in catCalls' : x.for = f
    BY <1>8, <1>9
  <1>10. CatButtonsWait'
    <2>1. CatButtonsWait
      BY DEF CatIInv
    <2>2. catPage'.loading => \E x \in catCalls' : x.what = "list"
      BY <1>3, <1>8, <2>1 DEF CatButtonsWait
    <2>3. catPage'.syncing => \E x \in catCalls' : x.for = "all"
      <3>1. catPage'.syncing => "all" # c.for /\ \E x \in catCalls : x.for = "all"
        BY <1>3, <2>1 DEF CatButtonsWait
      <3> QED
        BY <1>9, <3>1
    <2>4. catPage'.checking => \E x \in catCalls' : x.for = "health"
      <3>1. catPage'.checking => "health" # c.for /\ \E x \in catCalls : x.for = "health"
        BY <1>3, <2>1 DEF CatButtonsWait
      <3> QED
        BY <1>9, <3>1
    <2>5. catPage'.one # None => \E x \in catCalls' : x.for = "one"
      <3>1. catPage'.one # None => "one" # c.for /\ \E x \in catCalls : x.for = "one"
        BY <1>3, <2>1 DEF CatButtonsWait
      <3> QED
        BY <1>9, <3>1
    <2>6. catPage'.group # None => \E x \in catCalls' : x.for = "group"
      <3>1. catPage'.group # None => "group" # c.for /\ \E x \in catCalls : x.for = "group"
        BY <1>3, <2>1 DEF CatButtonsWait
      <3> QED
        BY <1>9, <3>1
    <2>7. catForms'.busy => \E x \in catCalls' : x.for = "form"
      <3>1. catForms'.busy => "form" # c.for /\ \E x \in catCalls : x.for = "form"
        BY <1>2, <2>1 DEF CatButtonsWait
      <3> QED
        BY <1>9, <3>1
    <2>8. catForms'.importing => \E x \in catCalls' : x.for = "import"
      <3>1. catForms'.importing => "import" # c.for /\ \E x \in catCalls : x.for = "import"
        BY <1>2, <2>1 DEF CatButtonsWait
      <3> QED
        BY <1>9, <3>1
    <2>9. catDrawer'.sending => \E x \in catCalls' : x.for = "try"
      <3>1. catDrawer'.sending => "try" # c.for /\ \E x \in catCalls : x.for = "try"
        BY <1>1, <1>4, <2>1 DEF CatButtonsWait
      <3> QED
        BY <1>9, <3>1
    <2> QED
      BY <2>2, <2>3, <2>4, <2>5, <2>6, <2>7, <2>8, <2>9 DEF CatButtonsWait
  <1> QED
    BY <1>5, <1>6, <1>7, <1>10 DEF CatIInv

LEMMA CatListedKeeps ==
  ASSUME CatIInv, NEW c \in catCalls, NEW rows, NEW good, CatListed(c, rows, good), c.what = "list"
  PROVE  CatIInv'
  <1>1. CatRequest(c) /\ CatKind(c.what, c.for)
    BY DEF CatIInv, CatRequest
  <1> DEFINE d == [catDrawer EXCEPT !.result = IF catDrawer.id \in CatRest THEN None ELSE @]
             e == [what |-> "coverage", n |-> c.n, for |-> c.for]
             T == (catCalls \ {c}) \cup {e}
  <1>2. DOMAIN d = CatDrawerFields /\ d.sending = catDrawer.sending /\ d.result \in {None, catDrawer.result}
    BY DEF CatIInv, CatShapes, CatDrawerFields
  <1>3. e.what = "coverage" /\ e.for = c.for /\ CatRequest(e)
    BY <1>1 DEF CatRequest, CatKind
  <1>4. \A x \in T : CatRequest(x)
    BY <1>3 DEF CatIInv
  <1>5. CatDraw(d, rows, T) /\ catPage' = [catPage EXCEPT !.rows = rows, !.loading = FALSE] /\ catForms' = catForms
    BY DEF CatListed
  <1>6. \A x \in catCalls : \E y \in T : y.for = x.for
    BY <1>3
  <1> HIDE DEF d, T
  <1>7. /\ DOMAIN catDrawer' = CatDrawerFields
        /\ ResultIsOfOperation'
        /\ \A x \in catCalls' : CatRequest(x)'
        /\ catDrawer'.sending => catDrawer.sending
        /\ \A x \in T : \E y \in catCalls' :
             /\ y.what = x.what
             /\ x.for # "try" \/ catDrawer'.sending => y.for = x.for
    BY <1>2, <1>4, <1>5, CatDrawKeeps DEF CatIInv
  <1>8. /\ DOMAIN catPage' = CatPageFields /\ ~catPage'.loading
        /\ catPage'.syncing = catPage.syncing /\ catPage'.checking = catPage.checking
        /\ catPage'.one = catPage.one /\ catPage'.group = catPage.group
    BY <1>5 DEF CatIInv, CatShapes, CatPageFields
  <1>9. \A x \in catCalls : \E y \in catCalls' : x.for # "try" \/ catDrawer'.sending => y.for = x.for
    BY <1>6, <1>7
  <1>10. CatButtonsWait'
    BY <1>5, <1>7, <1>8, <1>9 DEF CatIInv, CatButtonsWait
  <1> QED
    BY <1>5, <1>7, <1>8, <1>10 DEF CatIInv, CatShapes, CatShown, CatForm

LEMMA CatListRequest ==
  ASSUME NEW n, NEW for \in {"effect", "delete", "all", "health", "one", "group", "none"}, NEW filter,
         NEW c, c = CatList(n, for, filter)
  PROVE  CatRequest(c) /\ CatRequest(c)' /\ c.what = "list" /\ c.for = for
  BY DEF CatList, CatRequest, CatKind

LEMMA CatSyncRequest ==
  ASSUME NEW n, NEW for \in {"all", "one", "group", "none"}, NEW filter, NEW id, NEW rest,
         NEW c, c = CatSyncCall(n, for, filter, id, rest)
  PROVE  CatRequest(c) /\ CatRequest(c)' /\ c.what = "sync" /\ c.for = for
  BY DEF CatSyncCall, CatRequest, CatKind

(* c is followed by d, and the page waits for what it waited for, or for d. *)
LEMMA CatFollows ==
  ASSUME CatIInv, NEW c \in catCalls, NEW d, CatRequest(d)', d.for = c.for, c.what # "list",
         catCalls' = (catCalls \ {c}) \cup {d}, UNCHANGED <<catForms, catDrawer>>,
         DOMAIN catPage' = CatPageFields, catPage'.loading => catPage.loading \/ d.what = "list",
         \A f \in {"syncing", "checking", "one", "group"} : catPage'[f] = catPage[f]
  PROVE  CatIInv'
  <1>1. CatShapes' /\ CatShown' /\ ResultIsOfOperation'
    BY DEF CatIInv, CatShapes, CatShown, CatForm, ResultIsOfOperation
  <1>2. \A x \in catCalls' : CatRequest(x)'
    BY DEF CatIInv, CatRequest
  <1>3. \A x \in catCalls : \E y \in catCalls' : y.for = x.for
    OBVIOUS
  <1>4. catPage'.loading => \E y \in catCalls' : y.what = "list"
    BY DEF CatIInv, CatButtonsWait
  <1>5. CatButtonsWait'
    BY <1>3, <1>4 DEF CatIInv, CatButtonsWait
  <1> QED
    BY <1>1, <1>2, <1>5 DEF CatIInv

LEMMA CatGoesOnKeeps ==
  ASSUME CatIInv, NEW c \in catCalls, NEW p, CatGoesOn(c, p), c.what \in {"sync", "health"},
         DOMAIN p = CatPageFields,
         \A f \in {"loading", "syncing", "checking", "one", "group"} : p[f] = catPage[f]
  PROVE  CatIInv'
  <1>1. c.for \in {"all", "one", "group", "none", "health"}
    BY DEF CatIInv, CatRequest, CatKind
  <1>2. UNCHANGED <<catForms, catDrawer>>
    BY DEF CatGoesOn
  <1>3. CASE c.for = "group" /\ c.rest # {}
    <2>1. PICK s : catCalls' = (catCalls \ {c}) \cup {CatSyncCall(c.n, c.for, c.filter, s, c.rest \ {s})}
      BY <1>3 DEF CatGoesOn
    <2>2. PICK d : d = CatSyncCall(c.n, c.for, c.filter, s, c.rest \ {s})
      OBVIOUS
    <2>3. CatRequest(d)' /\ d.for = c.for
      BY <1>3, <2>2, CatSyncRequest
    <2>4. catPage' = p
      BY <1>3 DEF CatGoesOn
    <2> QED
      BY <1>2, <2>1, <2>2, <2>3, <2>4, CatFollows
  <1>4. CASE ~(c.for = "group" /\ c.rest # {})
    <2>1. CatLoad(c, p, catCalls \ {c})
      BY <1>4 DEF CatGoesOn
    <2>2. PICK d : d = CatList(c.n, c.for, c.filter)
      OBVIOUS
    <2>3. CatRequest(d)' /\ d.for = c.for /\ d.what = "list"
      BY <1>1, <2>2, CatListRequest
    <2>4. catCalls' = (catCalls \ {c}) \cup {d} /\ catPage' = [p EXCEPT !.loading = TRUE]
      BY <2>1, <2>2 DEF CatLoad
    <2>5. DOMAIN catPage' = CatPageFields /\ \A f \in {"syncing", "checking", "one", "group"} : catPage'[f] = catPage[f]
      BY <2>4 DEF CatPageFields
    <2> QED
      BY <1>2, <2>3, <2>4, <2>5, CatFollows
  <1> QED
    BY <1>3, <1>4

LEMMA CatClosedKeeps ==
  ASSUME CatIInv, NEW c \in catCalls, NEW f, NEW n, NEW asks, CatClosed(c, f, asks),
         c.what # "list", c.for \in {"form", "import", "none"},
         CatRequest(n), asks = (catCalls \ {c}) \cup {n},
         DOMAIN f = CatFormFields, f.busy = catForms.busy, f.importing = catForms.importing,
         c.for = "form" => CatForm(f) = None, c.for = "import" => ~f.import
  PROVE  CatIInv'
  <1>1. \A x \in asks : CatRequest(x)
    BY DEF CatIInv
  <1>2. CatShow(f, asks) /\ catDrawer' = catDrawer
    BY DEF CatClosed
  <1>3. /\ DOMAIN catForms' = CatFormFields
        /\ CatShown'
        /\ \A x \in catCalls' : CatRequest(x)'
        /\ catForms'.busy => catForms.busy /\ CatForm(f) # None
        /\ catForms'.importing => catForms.importing /\ f.import
        /\ \A x \in asks : \E y \in catCalls' :
             /\ y.what = x.what
             /\ x.for \notin {"form", "import"} => y.for = x.for
             /\ x.for = "form" /\ catForms'.busy => y.for = "form"
             /\ x.for = "import" /\ catForms'.importing => y.for = "import"
    BY <1>1, <1>2, CatShowKeeps DEF CatIInv
  <1>4. catPage' = [catPage EXCEPT !.loading = @ \/ \E d \in asks \ catCalls : d.what = "list"]
    BY DEF CatClosed
  <1>5. /\ DOMAIN catPage' = CatPageFields
        /\ catPage'.loading => catPage.loading \/ \E d \in asks : d.what = "list"
        /\ catPage'.syncing = catPage.syncing /\ catPage'.checking = catPage.checking
        /\ catPage'.one = catPage.one /\ catPage'.group = catPage.group
    BY <1>4 DEF CatIInv, CatShapes, CatPageFields
  <1>6. catPage'.loading => \E x \in asks : x.what = "list"
    BY <1>5 DEF CatIInv, CatButtonsWait
  <1>7. catPage'.loading => \E y \in catCalls' : y.what = "list"
    BY <1>3, <1>6
  <1>8. \A x \in catCalls \ {c} : \E y \in catCalls' :
          /\ x.for \notin {"form", "import"} => y.for = x.for
          /\ x.for = "form" /\ catForms'.busy => y.for = "form"
          /\ x.for = "import" /\ catForms'.importing => y.for = "import"
    BY <1>3
  <1>9. /\ catForms'.busy => catForms.busy /\ c.for # "form"
        /\ catForms'.importing => catForms.importing /\ c.for # "import"
    BY <1>3
  <1>10. CatButtonsWait'
    BY <1>2, <1>5, <1>7, <1>8, <1>9 DEF CatIInv, CatButtonsWait
  <1>11. ResultIsOfOperation'
    BY <1>2 DEF CatIInv, ResultIsOfOperation
  <1> QED
    BY <1>2, <1>3, <1>5, <1>10, <1>11 DEF CatIInv, CatShapes

LEMMA CatKeptKeeps ==
  ASSUME CatIInv, NEW c \in catCalls, CatKept(c)
  PROVE  CatIInv'
  <1>1. CatRequest(c) /\ CatKind(c.what, c.for)
    BY DEF CatIInv, CatRequest
  <1> DEFINE Closes == [catForms EXCEPT !.add = FALSE, !.edit = None]
             Ends == [catForms EXCEPT !.import = FALSE]
  <1>2. /\ DOMAIN Closes = CatFormFields /\ Closes.busy = catForms.busy /\ Closes.importing = catForms.importing
        /\ CatForm(Closes) = None
    BY DEF CatIInv, CatShapes, CatFormFields, CatForm
  <1>3. /\ DOMAIN Ends = CatFormFields /\ Ends.busy = catForms.busy /\ Ends.importing = catForms.importing
        /\ ~Ends.import
    BY DEF CatIInv, CatShapes, CatFormFields
  <1>4. PICK load : load = CatList(c.n, "none", c.filter)
    OBVIOUS
  <1>5. CatRequest(load)
    BY <1>4, CatListRequest
  <1> HIDE DEF Closes, Ends
  <1>6. CASE c.what = "saved"
    <2>1. PICK n : n = IF c.edit # None THEN CatSyncCall(c.n, "none", c.filter, c.edit, {}) ELSE load
      OBVIOUS
    <2>2. CatRequest(n)
      BY <1>5, <2>1, CatSyncRequest
    <2>3. CatClosed(c, Closes, (catCalls \ {c}) \cup {n})
      BY <1>4, <1>6, <2>1 DEF CatKept, Closes
    <2>4. c.for \in {"form", "none"}
      BY <1>1, <1>6 DEF CatKind
    <2> QED
      BY <1>2, <1>6, <2>2, <2>3, <2>4, CatClosedKeeps
  <1>7. CASE c.what = "found" /\ ~c.failed
    <2>1. CatClosed(c, Closes, (catCalls \ {c}) \cup {load})
      BY <1>4, <1>7 DEF CatKept, Closes
    <2>2. c.for \in {"form", "none"}
      BY <1>1, <1>7 DEF CatKind
    <2> QED
      BY <1>2, <1>5, <1>7, <2>1, <2>2, CatClosedKeeps
  <1>8. CASE c.what = "imported"
    <2>1. CatClosed(c, Ends, (catCalls \ {c}) \cup {load})
      BY <1>4, <1>8 DEF CatKept, Ends
    <2>2. c.for \in {"import", "none"}
      BY <1>1, <1>8 DEF CatKind
    <2> QED
      BY <1>3, <1>5, <1>8, <2>1, <2>2, CatClosedKeeps
  <1>9. CASE c.what = "found" /\ c.failed
    <2>1. CatOver(c, FALSE)
      BY <1>9 DEF CatKept
    <2> QED
      BY <1>9, <2>1, CatOverKeeps
  <1> QED
    BY <1>6, <1>7, <1>8, <1>9 DEF CatKept

LEMMA CatPreviewedKeeps ==
  ASSUME CatIInv, NEW c \in catCalls, CatPreviewed(c)
  PROVE  CatIInv'
  <1>1. c.what = "preview" /\ c.for \in {"form", "none"}
    BY DEF CatPreviewed, CatIInv, CatRequest, CatKind
  <1>2. catCalls' = catCalls \ {c} /\ UNCHANGED <<catPage, catDrawer>>
    BY DEF CatPreviewed
  <1>3. /\ DOMAIN catForms' = CatFormFields
        /\ catForms'.edit = catForms.edit /\ catForms'.add = catForms.add /\ catForms'.import = catForms.import
        /\ catForms'.importing = catForms.importing
        /\ catForms'.busy => catForms.busy /\ c.for # "form"
    <2>1. CASE c.for # "form"
      BY <2>1 DEF CatPreviewed, CatIInv, CatShapes
    <2>2. CASE c.for = "form"
      <3>1. PICK seen : catForms' = [catForms EXCEPT !.busy = FALSE, !.seen = seen]
        BY <2>2 DEF CatPreviewed
      <3> QED
        BY <3>1 DEF CatIInv, CatShapes, CatFormFields
    <2> QED
      BY <2>1, <2>2
  <1>4. CatShapes' /\ CatShown' /\ ResultIsOfOperation'
    BY <1>2, <1>3 DEF CatIInv, CatShapes, CatShown, CatForm, ResultIsOfOperation
  <1>5. \A x \in catCalls' : CatRequest(x)'
    BY <1>2 DEF CatIInv, CatRequest
  <1>6. CatButtonsWait'
    BY <1>1, <1>2, <1>3 DEF CatIInv, CatButtonsWait
  <1> QED
    BY <1>4, <1>5, <1>6 DEF CatIInv

LEMMA CatDeletedKeeps ==
  ASSUME CatIInv, NEW c \in catCalls, CatDeleted(c)
  PROVE  CatIInv'
  <1>1. c.what = "delete" /\ c.for = "delete"
    BY DEF CatDeleted, CatIInv, CatRequest, CatKind
  <1> DEFINE T == catCalls \ {c}
  <1>2. PICK rows : catPage' = [catPage EXCEPT !.rows = rows] /\ CatDraw(catDrawer, rows, T) /\ catForms' = catForms
    BY DEF CatDeleted
  <1>3. \A x \in T : CatRequest(x)
    BY DEF CatIInv
  <1>4. \A x \in catCalls : x.for # "delete" => x \in T
    BY <1>1
  <1>5. \A x \in catCalls : x.what = "list" => x \in T
    BY <1>1
  <1> HIDE DEF T
  <1>6. /\ DOMAIN catDrawer' = CatDrawerFields
        /\ ResultIsOfOperation'
        /\ \A x \in catCalls' : CatRequest(x)'
        /\ catDrawer'.sending => catDrawer.sending
        /\ \A x \in T : \E y \in catCalls' :
             /\ y.what = x.what
             /\ x.for # "try" \/ catDrawer'.sending => y.for = x.for
    BY <1>2, <1>3, CatDrawKeeps DEF CatIInv, CatShapes
  <1>7. /\ DOMAIN catPage' = CatPageFields /\ catPage'.loading = catPage.loading
        /\ catPage'.syncing = catPage.syncing /\ catPage'.checking = catPage.checking
        /\ catPage'.one = catPage.one /\ catPage'.group = catPage.group
    BY <1>2 DEF CatIInv, CatShapes, CatPageFields
  <1>8. CatButtonsWait'
    BY <1>2, <1>4, <1>5, <1>6, <1>7 DEF CatIInv, CatButtonsWait
  <1> QED
    BY <1>2, <1>6, <1>7, <1>8 DEF CatIInv, CatShapes, CatShown, CatForm

LEMMA CatInvokedKeeps ==
  ASSUME CatIInv, NEW c \in catCalls, CatInvoked(c)
  PROVE  CatIInv'
  <1>1. c.what = "invoke" /\ c.for \in {"try", "none"} /\ CatRequest(c)
    BY DEF CatInvoked, CatIInv, CatRequest, CatKind
  <1>2. catCalls' = catCalls \ {c} /\ UNCHANGED <<catPage, catForms>>
    BY DEF CatInvoked
  <1>3. CASE c.for = "try"
    <2>1. catDrawer' = [catDrawer EXCEPT !.sending = FALSE, !.result = <<c.id, c.op>>]
      BY <1>3 DEF CatInvoked
    <2>2. /\ DOMAIN catDrawer' = CatDrawerFields /\ catDrawer'.sending = FALSE
          /\ catDrawer'.id = catDrawer.id /\ catDrawer'.op = catDrawer.op
          /\ catDrawer'.result = <<catDrawer.id, catDrawer.op>>
      BY <1>1, <1>3, <2>1 DEF CatIInv, CatShapes, CatDrawerFields, CatRequest
    <2>3. \A x \in catCalls' : CatRequest(x)'
      BY <1>2, <2>2 DEF CatIInv, CatRequest
    <2>4. CatButtonsWait'
      BY <1>1, <1>2, <1>3, <2>2 DEF CatIInv, CatButtonsWait
    <2> QED
      BY <1>2, <2>2, <2>3, <2>4 DEF CatIInv, CatShapes, CatShown, CatForm, ResultIsOfOperation
  <1>4. CASE c.for # "try"
    <2>1. catDrawer' = catDrawer
      BY <1>4 DEF CatInvoked
    <2>2. \A x \in catCalls' : CatRequest(x)'
      BY <1>2, <2>1 DEF CatIInv, CatRequest
    <2>3. CatButtonsWait'
      BY <1>1, <1>2, <1>4, <2>1 DEF CatIInv, CatButtonsWait
    <2> QED
      BY <1>2, <2>1, <2>2, <2>3 DEF CatIInv, CatShapes, CatShown, CatForm, ResultIsOfOperation
  <1> QED
    BY <1>3, <1>4

LEMMA CatFailsKeeps ==
  ASSUME CatIInv, NEW c \in catCalls, CatFails(c)
  PROVE  CatIInv'
  <1>1. CatRequest(c) /\ CatKind(c.what, c.for)
    BY DEF CatIInv, CatRequest
  <1>2. CASE c.what = "list" /\ CatListed(c, << >>, FALSE)
    BY <1>2, CatListedKeeps
  <1>3. CASE c.what = "sync" /\ c.for = "all"
    <2>1. /\ catCalls' = catCalls \ {c} /\ UNCHANGED <<catForms, catDrawer>>
          /\ \E r : catPage' = [catPage EXCEPT !.syncing = FALSE, !.report = r]
      BY <1>3 DEF CatFails, CatOver, CatGoesOn
    <2>2. /\ DOMAIN catPage' = CatPageFields /\ ~catPage'.syncing
          /\ catPage'.loading = catPage.loading /\ catPage'.checking = catPage.checking
          /\ catPage'.one = catPage.one /\ catPage'.group = catPage.group
      BY <2>1 DEF CatIInv, CatShapes, CatPageFields
    <2>3. \A x \in catCalls' : CatRequest(x)'
      BY <2>1 DEF CatIInv, CatRequest
    <2>4. CatButtonsWait'
      BY <1>3, <2>1, <2>2 DEF CatIInv, CatButtonsWait
    <2> QED
      BY <2>1, <2>2, <2>3, <2>4 DEF CatIInv, CatShapes, CatShown, CatForm, ResultIsOfOperation
  <1>4. CASE c.what = "sync" /\ CatGoesOn(c, catPage)
    BY <1>4, CatGoesOnKeeps DEF CatIInv, CatShapes
  <1>5. CASE c.what \notin {"list", "invoke"} /\ \E astray : CatOver(c, astray)
    BY <1>5, CatOverKeeps
  <1>6. CASE c.what = "delete"
    <2>1. c.for = "delete"
      BY <1>1, <1>6 DEF CatKind
    <2>2. PICK s \in c.todo :
            LET d == [c EXCEPT !.todo = @ \ {s}, !.broken = TRUE]
            IN  IF c.target = None \/ c.broken THEN catPage' = catPage /\ CatBecomes(c, d)
                ELSE CatLoad(c, catPage, (catCalls \ {c}) \cup {d})
      BY <1>6 DEF CatFails
    <2>3. PICK d : d = [c EXCEPT !.todo = @ \ {s}, !.broken = TRUE]
      OBVIOUS
    <2>4. CatRequest(d)' /\ d.for = c.for
      BY <1>1, <1>6, <2>3 DEF CatRequest
    <2>5. UNCHANGED <<catForms, catDrawer>>
      BY <1>6 DEF CatFails
    <2>6. CASE c.target = None \/ c.broken
      <3>1. catPage' = catPage /\ catCalls' = (catCalls \ {c}) \cup {d}
        BY <2>2, <2>3, <2>6 DEF CatBecomes
      <3> QED
        BY <1>6, <2>4, <2>5, <3>1, CatFollows DEF CatIInv, CatShapes
    <2>7. CASE ~(c.target = None \/ c.broken)
      <3>1. CatLoad(c, catPage, (catCalls \ {c}) \cup {d})
        BY <2>2, <2>3, <2>7
      <3>2. PICK n : n = CatList(c.n, c.for, c.filter)
        OBVIOUS
      <3>3. CatRequest(n)' /\ n.what = "list"
        BY <2>1, <3>2, CatListRequest
      <3>4. catCalls' = (catCalls \ {c}) \cup {d, n} /\ catPage' = [catPage EXCEPT !.loading = TRUE]
        BY <3>1, <3>2 DEF CatLoad
      <3>5. /\ DOMAIN catPage' = CatPageFields
            /\ catPage'.syncing = catPage.syncing /\ catPage'.checking = catPage.checking
            /\ catPage'.one = catPage.one /\ catPage'.group = catPage.group
        BY <3>4 DEF CatIInv, CatShapes, CatPageFields
      <3>6. \A x \in catCalls' : CatRequest(x)'
        BY <2>4, <2>5, <3>3, <3>4 DEF CatIInv, CatRequest
      <3>7. \A x \in catCalls : \E y \in catCalls' : y.for = x.for
        BY <2>4, <3>4
      <3>8. \E y \in catCalls' : y.what = "list"
        BY <3>3, <3>4
      <3>9. CatButtonsWait'
        BY <2>5, <3>5, <3>7, <3>8 DEF CatIInv, CatButtonsWait
      <3> QED
        BY <2>5, <3>5, <3>6, <3>9 DEF CatIInv, CatShapes, CatShown, CatForm, ResultIsOfOperation
    <2> QED
      BY <2>6, <2>7
  <1> QED
    BY <1>2, <1>3, <1>4, <1>5, <1>6 DEF CatFails

LEMMA CatArrivesKeeps ==
  ASSUME CatIInv, NEW c \in catCalls, CatArrives(c)
  PROVE  CatIInv'
  <1>1. CASE c.what = "list" /\ CatListed(c, c.rows, c.good)
    BY <1>1, CatListedKeeps
  <1>2. CASE c.what = "coverage" /\ CatOver(c, FALSE)
    BY <1>2, CatOverKeeps
  <1>3. CASE c.what = "health" /\ CatGoesOn(c, catPage)
    BY <1>3, CatGoesOnKeeps DEF CatIInv, CatShapes
  <1>4. CASE CatSynced(c)
    <2>1. CASE c.for = "one" /\ c.failed
      BY <1>4, <2>1, CatOverKeeps DEF CatSynced
    <2>2. CASE ~(c.for = "one" /\ c.failed)
      <3>1. PICK p : p = IF c.for = "all" THEN [catPage EXCEPT !.report = c.report] ELSE catPage
        OBVIOUS
      <3>2. CatGoesOn(c, p) /\ c.what = "sync"
        BY <1>4, <2>2, <3>1 DEF CatSynced
      <3>3. /\ DOMAIN p = CatPageFields
            /\ \A f \in {"loading", "syncing", "checking", "one", "group"} : p[f] = catPage[f]
        BY <3>1 DEF CatIInv, CatShapes, CatPageFields
      <3> QED
        BY <3>2, <3>3, CatGoesOnKeeps
    <2> QED
      BY <2>1, <2>2
  <1> QED
    BY <1>1, <1>2, <1>3, <1>4, CatKeptKeeps, CatPreviewedKeeps, CatDeletedKeeps, CatInvokedKeeps DEF CatArrives

-----------------------------------------------------------------------------

(* The user asks for d.                                                    *)
LEMMA CatAskKeeps ==
  ASSUME CatIInv, NEW d, CatRequest(d),
         catCalls' = catCalls \cup {d}, UNCHANGED <<catForms, catDrawer>>,
         DOMAIN catPage' = CatPageFields,
         catPage'.loading => catPage.loading \/ d.what = "list",
         catPage'.syncing => catPage.syncing \/ d.for = "all",
         catPage'.checking => catPage.checking \/ d.for = "health",
         catPage'.one # None => catPage.one # None \/ d.for = "one",
         catPage'.group # None => catPage.group # None \/ d.for = "group"
  PROVE  CatIInv'
  <1>1. CatShapes' /\ CatShown' /\ ResultIsOfOperation'
    BY DEF CatIInv, CatShapes, CatShown, CatForm, ResultIsOfOperation
  <1>2. \A x \in catCalls' : CatRequest(x)'
    BY DEF CatIInv, CatRequest
  <1>3. CatButtonsWait'
    BY DEF CatIInv, CatButtonsWait
  <1> QED
    BY <1>1, <1>2, <1>3 DEF CatIInv

LEMMA CatPageKeeps ==
  ASSUME CatIInv, UNCHANGED <<catForms, catDrawer>>,
         \/ CatFilter \/ CatSyncAll \/ CatCheckHealth \/ CatSyncRow \/ CatSyncGroup \/ CatDeletes
         \/ CatSearch \/ CatDismiss
  PROVE  CatIInv'
  <1>0. DOMAIN catPage = CatPageFields
    BY DEF CatIInv, CatShapes
  <1>1. CASE CatFilter
    <2>1. PICK f, d : /\ d = CatList(catAsked, "effect", f) /\ catCalls' = catCalls \cup {d}
                      /\ catPage' = [[catPage EXCEPT !.filter = f] EXCEPT !.loading = TRUE]
      BY <1>1 DEF CatFilter, CatLoad
    <2>2. CatRequest(d) /\ d.what = "list"
      BY <2>1, CatListRequest
    <2>3. /\ DOMAIN catPage' = CatPageFields
          /\ catPage'.syncing = catPage.syncing
          /\ catPage'.checking = catPage.checking
          /\ catPage'.one = catPage.one
          /\ catPage'.group = catPage.group
      BY <1>0, <2>1 DEF CatPageFields
    <2> QED
      BY <2>1, <2>2, <2>3, CatAskKeeps
  <1>2. CASE CatSyncAll
    <2>1. PICK d : /\ d = CatSyncCall(catAsked + 2, "all", catPage.filter, None, {})
                   /\ catCalls' = catCalls \cup {d} /\ catPage' = [catPage EXCEPT !.syncing = TRUE, !.report = None]
      BY <1>2 DEF CatSyncAll, CatAsk
    <2>2. CatRequest(d) /\ d.for = "all"
      BY <2>1, CatSyncRequest
    <2>3. /\ DOMAIN catPage' = CatPageFields
          /\ catPage'.loading = catPage.loading
          /\ catPage'.checking = catPage.checking
          /\ catPage'.one = catPage.one
          /\ catPage'.group = catPage.group
      BY <1>0, <2>1 DEF CatPageFields
    <2> QED
      BY <2>1, <2>2, <2>3, CatAskKeeps
  <1>3. CASE CatCheckHealth
    <2>1. PICK d : /\ d = [what |-> "health", n |-> catAsked, for |-> "health", filter |-> catPage.filter]
                   /\ catCalls' = catCalls \cup {d} /\ catPage' = [catPage EXCEPT !.checking = TRUE]
      BY <1>3 DEF CatCheckHealth, CatAsk
    <2>2. CatRequest(d) /\ d.for = "health"
      BY <2>1 DEF CatRequest, CatKind
    <2>3. /\ DOMAIN catPage' = CatPageFields
          /\ catPage'.loading = catPage.loading
          /\ catPage'.syncing = catPage.syncing
          /\ catPage'.one = catPage.one
          /\ catPage'.group = catPage.group
      BY <1>0, <2>1 DEF CatPageFields
    <2> QED
      BY <2>1, <2>2, <2>3, CatAskKeeps
  <1>4. CASE CatSyncRow
    <2>1. PICK s, d : /\ d = CatSyncCall(catAsked, "one", catPage.filter, s, {})
                      /\ catCalls' = catCalls \cup {d} /\ catPage' = [catPage EXCEPT !.one = s]
      BY <1>4 DEF CatSyncRow, CatAsk
    <2>2. CatRequest(d) /\ d.for = "one"
      BY <2>1, CatSyncRequest
    <2>3. /\ DOMAIN catPage' = CatPageFields
          /\ catPage'.loading = catPage.loading
          /\ catPage'.syncing = catPage.syncing
          /\ catPage'.checking = catPage.checking
          /\ catPage'.group = catPage.group
      BY <1>0, <2>1 DEF CatPageFields
    <2> QED
      BY <2>1, <2>2, <2>3, CatAskKeeps
  <1>5. CASE CatSyncGroup
    <2>1. PICK t, s, rest, d : /\ d = CatSyncCall(catAsked, "group", catPage.filter, s, rest)
                               /\ catCalls' = catCalls \cup {d} /\ catPage' = [catPage EXCEPT !.group = t]
      BY <1>5 DEF CatSyncGroup, CatAsk
    <2>2. CatRequest(d) /\ d.for = "group"
      BY <2>1, CatSyncRequest
    <2>3. /\ DOMAIN catPage' = CatPageFields
          /\ catPage'.loading = catPage.loading
          /\ catPage'.syncing = catPage.syncing
          /\ catPage'.checking = catPage.checking
          /\ catPage'.one = catPage.one
      BY <1>0, <2>1 DEF CatPageFields
    <2> QED
      BY <2>1, <2>2, <2>3, CatAskKeeps
  <1>6. CASE CatDeletes
    <2>1. PICK ids, target, d : d = CatDeleteCall(ids, target) /\ catCalls' = catCalls \cup {d} /\ catPage' = catPage
      BY <1>6 DEF CatDeletes, CatAsk
    <2>2. CatRequest(d)
      BY <2>1 DEF CatDeleteCall, CatRequest, CatKind
    <2>3. /\ DOMAIN catPage' = CatPageFields
          /\ catPage'.loading = catPage.loading
          /\ catPage'.syncing = catPage.syncing
          /\ catPage'.checking = catPage.checking
          /\ catPage'.one = catPage.one
          /\ catPage'.group = catPage.group
      BY <1>0, <2>1 DEF CatPageFields
    <2> QED
      BY <2>1, <2>2, <2>3, CatAskKeeps
  <1>7. CASE CatSearch \/ CatDismiss
    <2>1. /\ catCalls' = catCalls
          /\ DOMAIN catPage' = CatPageFields /\ catPage'.loading = catPage.loading
          /\ catPage'.syncing = catPage.syncing /\ catPage'.checking = catPage.checking
          /\ catPage'.one = catPage.one /\ catPage'.group = catPage.group
      BY <1>0, <1>7 DEF CatSearch, CatDismiss, CatPageFields
    <2>2. \A x \in catCalls' : CatRequest(x)'
      BY <2>1 DEF CatIInv, CatRequest
    <2>3. CatButtonsWait'
      BY <2>1 DEF CatIInv, CatButtonsWait
    <2> QED
      BY <2>1, <2>2, <2>3 DEF CatIInv, CatShown, CatForm, CatShapes, ResultIsOfOperation
  <1> QED
    BY <1>1, <1>2, <1>3, <1>4, <1>5, <1>6, <1>7

LEMMA CatFormsKeep ==
  ASSUME CatIInv, UNCHANGED catDrawer,
         CatSave \/ CatDiscover \/ CatImport \/ CatForms \/ CatPreview \/ CatRetype
  PROVE  CatIInv'
  <1>0. DOMAIN catForms = CatFormFields
    BY DEF CatIInv, CatShapes
  <1>1. ASSUME NEW d, CatSend(d), CatRequest(d), d.for = "form" PROVE CatIInv'
    <2>1. /\ catCalls' = catCalls \cup {d} /\ catPage' = catPage /\ CatForm(catForms) # None
          /\ catForms' = [catForms EXCEPT !.busy = TRUE, !.target = d.target]
      BY <1>1 DEF CatSend
    <2>2. /\ DOMAIN catForms' = CatFormFields /\ catForms'.edit = catForms.edit /\ catForms'.add = catForms.add
          /\ catForms'.import = catForms.import /\ catForms'.importing = catForms.importing
      BY <1>0, <2>1 DEF CatFormFields
    <2>3. CatShown' /\ CatShapes' /\ ResultIsOfOperation'
      BY <2>1, <2>2 DEF CatIInv, CatShown, CatForm, CatShapes, ResultIsOfOperation
    <2>4. \A x \in catCalls' : CatRequest(x)'
      BY <1>1, <2>1 DEF CatIInv, CatRequest
    <2>5. CatButtonsWait'
      BY <1>1, <2>1, <2>2 DEF CatIInv, CatButtonsWait
    <2> QED
      BY <2>3, <2>4, <2>5 DEF CatIInv
  <1>2. ASSUME NEW what \in {"save", "preview", "discover"}, NEW id, NEW target, NEW only,
               CatSend(CatFormCall(what, id, target, only))
        PROVE  CatIInv'
    <2>1. PICK d : d = CatFormCall(what, id, target, only)
      OBVIOUS
    <2>2. CatRequest(d) /\ d.for = "form"
      BY <2>1 DEF CatFormCall, CatRequest, CatKind
    <2> QED
      BY <1>1, <1>2, <2>1, <2>2
  <1>3. CASE CatSave
    BY <1>2, <1>3 DEF CatSave
  <1>4. CASE CatPreview
    BY <1>2, <1>4 DEF CatPreview
  <1>5. CASE CatDiscover
    BY <1>2, <1>5 DEF CatDiscover
  <1>6. CASE CatRetype
    <2>1. /\ catCalls' = catCalls /\ catPage' = catPage
          /\ DOMAIN catForms' = CatFormFields /\ catForms'.edit = catForms.edit /\ catForms'.add = catForms.add
          /\ catForms'.busy = catForms.busy
          /\ catForms'.import = catForms.import /\ catForms'.importing = catForms.importing
      BY <1>0, <1>6 DEF CatRetype, CatFormFields
    <2>2. \A x \in catCalls' : CatRequest(x)'
      BY <2>1 DEF CatIInv, CatRequest
    <2>3. CatButtonsWait'
      BY <2>1 DEF CatIInv, CatButtonsWait
    <2> QED
      BY <2>1, <2>2, <2>3 DEF CatIInv, CatShown, CatForm, CatShapes, ResultIsOfOperation
  <1>7. CASE CatImport
    <2>1. PICK d : /\ d.what = "import" /\ d.for = "import" /\ {"what", "for"} \subseteq DOMAIN d
                   /\ catCalls' = catCalls \cup {d}
      BY <1>7 DEF CatImport
    <2>2. /\ catForms.import /\ catPage' = catPage /\ catForms' = [catForms EXCEPT !.importing = TRUE]
      BY <1>7 DEF CatImport
    <2>3. /\ DOMAIN catForms' = CatFormFields /\ catForms'.edit = catForms.edit /\ catForms'.add = catForms.add
          /\ catForms'.import = catForms.import /\ catForms'.busy = catForms.busy
      BY <1>0, <2>2 DEF CatFormFields
    <2>4. \A x \in catCalls' : CatRequest(x)'
      BY <2>1 DEF CatIInv, CatRequest, CatKind
    <2>5. CatButtonsWait'
      BY <2>1, <2>2, <2>3 DEF CatIInv, CatButtonsWait
    <2> QED
      BY <2>2, <2>3, <2>4, <2>5 DEF CatIInv, CatShown, CatForm, CatShapes, ResultIsOfOperation
  <1>8. CASE CatForms
    <2>1. catPage' = catPage
      BY <1>8 DEF CatForms
    <2>2. PICK f : /\ CatShow(f, catCalls) /\ DOMAIN f = CatFormFields
                   /\ f.busy = catForms.busy /\ f.importing = catForms.importing
      <3>1. PICK add, edit, import, f :
               /\ CatShow(f, catCalls)
               /\ \/ f = [catForms EXCEPT !.add = add, !.edit = edit, !.import = import]
                  \/ f = [catForms EXCEPT !.import = import, !.add = add]
                  \/ f = [catForms EXCEPT !.edit = edit, !.add = add, !.import = import]
                  \/ f = [catForms EXCEPT !.edit = edit, !.add = add]
                  \/ f = [catForms EXCEPT !.import = import]
        BY <1>8 DEF CatForms
      <3>2. DOMAIN f = CatFormFields /\ f.busy = catForms.busy /\ f.importing = catForms.importing
        BY <1>0, <3>1 DEF CatFormFields
      <3> QED
        BY <3>1, <3>2
    <2>3. /\ DOMAIN catForms' = CatFormFields
          /\ CatShown'
          /\ \A x \in catCalls' : CatRequest(x)'
          /\ catForms'.busy => catForms.busy
          /\ catForms'.importing => catForms.importing
          /\ \A x \in catCalls : \E y \in catCalls' :
               /\ y.what = x.what
               /\ x.for \notin {"form", "import"} => y.for = x.for
               /\ x.for = "form" /\ catForms'.busy => y.for = "form"
               /\ x.for = "import" /\ catForms'.importing => y.for = "import"
      BY <2>2, CatShowKeeps DEF CatIInv
    <2>4. CatButtonsWait'
      BY <2>1, <2>3 DEF CatIInv, CatButtonsWait
    <2> QED
      BY <2>1, <2>3, <2>4 DEF CatIInv, CatShapes, ResultIsOfOperation
  <1> QED
    BY <1>3, <1>4, <1>5, <1>6, <1>7, <1>8

LEMMA CatDrawerKeeps ==
  ASSUME CatIInv, CatDrawer
  PROVE  CatIInv'
  <1>0. DOMAIN catDrawer = CatDrawerFields /\ UNCHANGED <<catPage, catForms>>
    BY DEF CatIInv, CatShapes, CatDrawer
  <1>1. CASE CatTry
    <2>1. catDrawer' = [catDrawer EXCEPT !.sending = TRUE, !.result = None]
      BY <1>1 DEF CatTry
    <2>2. PICK d : /\ d = [what |-> "invoke", n |-> catAsked, for |-> "try", id |-> catDrawer.id, op |-> catDrawer.op]
                   /\ catCalls' = catCalls \cup {d}
      BY <1>1 DEF CatTry
    <2>3. /\ DOMAIN catDrawer' = CatDrawerFields /\ catDrawer'.result = None
          /\ catDrawer'.id = catDrawer.id /\ catDrawer'.op = catDrawer.op
      BY <1>0, <2>1 DEF CatDrawerFields
    <2>4. CatRequest(d)' /\ d.for = "try"
      BY <2>2, <2>3 DEF CatRequest, CatKind
    <2>5. \A x \in catCalls' : CatRequest(x)'
      BY <2>2, <2>3, <2>4 DEF CatIInv, CatRequest
    <2>6. CatButtonsWait'
      BY <1>0, <2>2, <2>4 DEF CatIInv, CatButtonsWait
    <2> QED
      BY <1>0, <2>3, <2>5, <2>6 DEF CatIInv, CatShown, CatForm, CatShapes, ResultIsOfOperation
  <1>2. CASE CatOpen \/ CatClose \/ CatSelect \/ CatBack
    <2>1. PICK d : /\ CatDraw(d, catPage.rows, catCalls)
                   /\ DOMAIN d = CatDrawerFields /\ d.sending = catDrawer.sending /\ d.result = catDrawer.result
      <3>1. CASE CatOpen
        <4>1. PICK s, d : d = [catDrawer EXCEPT !.id = s, !.op = None] /\ CatDraw(d, catPage.rows, catCalls)
          BY <3>1 DEF CatOpen
        <4>2. DOMAIN d = CatDrawerFields /\ d.sending = catDrawer.sending /\ d.result = catDrawer.result
          BY <1>0, <4>1 DEF CatDrawerFields
        <4> QED
          BY <4>1, <4>2
      <3>2. CASE CatClose
        BY <1>0, <3>2 DEF CatClose, CatDrawerFields
      <3>3. CASE CatSelect
        <4>1. PICK o : CatDraw([catDrawer EXCEPT !.op = o], catPage.rows, catCalls)
          BY <3>3 DEF CatSelect
        <4> QED
          BY <1>0, <4>1 DEF CatDrawerFields
      <3>4. CASE CatBack
        BY <1>0, <3>4 DEF CatBack, CatDrawerFields
      <3> QED
        BY <1>2, <3>1, <3>2, <3>3, <3>4
    <2>2. /\ DOMAIN catDrawer' = CatDrawerFields
          /\ ResultIsOfOperation'
          /\ \A x \in catCalls' : CatRequest(x)'
          /\ catDrawer'.sending => catDrawer.sending
          /\ \A x \in catCalls : \E y \in catCalls' :
               /\ y.what = x.what
               /\ x.for # "try" \/ catDrawer'.sending => y.for = x.for
      BY <2>1, CatDrawKeeps DEF CatIInv
    <2>3. CatButtonsWait'
      BY <1>0, <2>2 DEF CatIInv, CatButtonsWait
    <2> QED
      BY <1>0, <2>2, <2>3 DEF CatIInv, CatShown, CatForm, CatShapes
  <1> QED
    BY <1>1, <1>2 DEF CatDrawer

LEMMA CatInitKeeps ==
  ASSUME CatInit
  PROVE  CatIInv
  <1>1. PICK c : c = CatList(0, "effect", None) /\ catCalls = {c}
    BY DEF CatInit
  <1>2. CatRequest(c) /\ c.what = "list"
    BY <1>1, CatListRequest
  <1>3. CatShapes /\ CatShown /\ ResultIsOfOperation
    BY DEF CatInit, CatShapes, CatShown, ResultIsOfOperation, CatPageFields, CatFormFields, CatDrawerFields
  <1>4. CatButtonsWait
    BY <1>1, <1>2 DEF CatInit, CatButtonsWait
  <1> QED
    BY <1>1, <1>2, <1>3, <1>4 DEF CatIInv

LEMMA CatNextKeeps ==
  ASSUME CatIInv, [CatNext]_catVars
  PROVE  CatIInv'
  <1>1. ASSUME NEW c \in catCalls, CatServe(c) \/ CatAnswer(c) PROVE CatIInv'
    BY <1>1, CatServeKeeps, CatArrivesKeeps, CatFailsKeeps DEF CatAnswer
  <1>2. CASE CatUser
    BY <1>2, CatPageKeeps, CatFormsKeep, CatDrawerKeeps DEF CatUser
  <1>3. CASE CatHostChanges \/ UNCHANGED catVars
    <2>1. UNCHANGED <<catCalls, catPage, catForms, catDrawer>>
      BY <1>3 DEF CatHostChanges, catVars, catServer
    <2> QED
      BY <2>1 DEF CatIInv, CatShapes, CatShown, CatForm, CatRequest, CatButtonsWait, ResultIsOfOperation
  <1> QED
    BY <1>1, <1>2, <1>3 DEF CatNext, CatProgress

-----------------------------------------------------------------------------
(* For any services, hosts and offers, any number of requests under way,   *)
(* failures and answers in any order, no button of the catalog waits for   *)
(* nothing, and what the drawer shows is of the operation it shows.        *)
THEOREM AnswersLand == CatSpec => []CatAnswersLand
  <1>1. CatInit => CatIInv
    BY CatInitKeeps
  <1>2. CatIInv /\ [CatNext]_catVars => CatIInv'
    BY CatNextKeeps
  <1>3. CatIInv => CatAnswersLand
    BY DEF CatIInv, CatAnswersLand
  <1> QED
    BY <1>1, <1>2, <1>3, PTL DEF CatSpec

-----------------------------------------------------------------------------
(* Catalog: what it says of the services.                                  *)

CatJobFields == {"id", "old", "target", "found", "step", "alone"}
CatReport == [total : Nat, synced : Nat, failed : Nat, n : Nat]

CatIds(jobs) == { j.id : j \in jobs }

(* A job nobody has interfered with knows the operations that are stored,  *)
(* and reports what it will remove before it stores what it found.         *)
CatJobsTrue(jobs) ==
  /\ \A j, k \in jobs : j.id = k.id => j = k
  /\ \A j \in jobs :
       /\ DOMAIN j = CatJobFields
       /\ j.alone /\ j.id \in DOMAIN catRows => catRows[j.id].ops = j.old
       /\ j.step = "noted" => {j.id} \X CatRemoved(j) \subseteq catNoted

(* The rows are written off once each.                                     *)
CatTallied(c) ==
  \/ c.jobs = None /\ c.report.total = 0 /\ c.report.synced = 0 /\ c.report.failed = 0
  \/ /\ IsFiniteSet(CatIds(c.jobs))
     /\ c.report.total = c.report.synced + c.report.failed + Cardinality(CatIds(c.jobs))

CatErrors(except) == { s \in DOMAIN catRows \ except : catRows[s].error }

(* Nothing else has been asked for since the sync of all was.              *)
CatQuiet(c) ==
  /\ 0 < catAsked /\ c.report.n <= catAsked
  /\ c.report.n = catAsked =>
       /\ catCalls = {c}
       /\ c.jobs # None => /\ CatIds(c.jobs) \subseteq DOMAIN catRows
                           /\ c.report.failed = Cardinality(CatErrors(CatIds(c.jobs)))

CatHonest(c) ==
  /\ c.what = "list" => /\ {"rows", "good", "filter"} \subseteq DOMAIN c
                        /\ c.rows # None /\ c.good => c.rows = CatOf(catRows, c.filter)
  /\ c.what = "sync" => /\ {"jobs", "report", "failed", "id", "rest"} \subseteq DOMAIN c
                        /\ c.report \in CatReport
                        /\ c.jobs # None => CatJobsTrue(c.jobs)
                        /\ CatTallied(c)
                        /\ c.for = "all" => c.id = None /\ CatQuiet(c)
  /\ c.what = "delete" => /\ {"ids", "todo", "alone", "broken"} \subseteq DOMAIN c
                          /\ c.todo \subseteq c.ids
                          /\ c.alone /\ ~c.broken => (c.ids \ c.todo) \cap DOMAIN catRows = {}
  /\ c.what \in {"discover", "found"} =>
       /\ {"todo", "failed"} \subseteq DOMAIN c
       /\ c.failed => c.todo = {}
  /\ c.what = "import" => DOMAIN c.rows \subseteq CatGrpc \/ DOMAIN c.rows \subseteq CatRest

(* What was asked for and will end with a load, or with a failure.         *)
CatDirty(c) ==
  \/ c.what \in {"list", "sync", "save", "saved", "import", "imported"}
  \/ c.what = "found" /\ ~c.failed

CatGone == UNION { c.ids : c \in { d \in catCalls : d.what = "delete" } }

CatMirrors ==
  ~catAstray =>
    /\ catPage.rows = [s \in DOMAIN catPage.rows |-> catPage.rows[s]]
    /\ (\A c \in catCalls : ~CatDirty(c)) =>
         LET of == CatOf(catRows, catPage.filter)
         IN  \A s \in (DOMAIN catPage.rows \cup DOMAIN of) \ CatGone :
               s \in DOMAIN catPage.rows /\ s \in DOMAIN of /\ catPage.rows[s] = of[s]

CatReported ==
  LET r == catPage.report
  IN  r # None =>
        /\ r \in CatReport /\ r.total = r.synced + r.failed
        /\ 0 < catAsked /\ r.n <= catAsked
        /\ r.n = catAsked => /\ \A c \in catCalls : c.what \in {"list", "coverage"}
                             /\ r.failed = Cardinality(CatErrors({}))

CatStored ==
  /\ catAsked \in Nat /\ IsFiniteSet(DOMAIN catRows)
  /\ \A s \in DOMAIN catRows : DOMAIN catRows[s] = {"target", "ops", "error", "drift"}

CatTruth ==
  /\ CatStored
  /\ \A c \in catCalls : CatHonest(c)
  /\ BreakingReported
  /\ CatMirrors
  /\ CatReported

CatFull == CatIInv /\ CatTruth

(* d is c, as far as it matters to what the page will show.                *)
CatKin(c, d) ==
  /\ d.what = c.what
  /\ c.what = "delete" => d.ids = c.ids
  /\ c.what = "found" => d.failed = c.failed

LEMMA CatKinDirty ==
  ASSUME NEW c, NEW d, CatKin(c, d)
  PROVE  CatDirty(d) <=> CatDirty(c)
  BY DEF CatKin, CatDirty

(* A step that leaves the rows of other services as they were.             *)
CatTouches(ids) ==
  /\ \A s : s \notin ids =>
       /\ s \in DOMAIN catRows' <=> s \in DOMAIN catRows
       /\ s \in DOMAIN catRows => catRows'[s].ops = catRows[s].ops
  /\ catNoted \subseteq catNoted'

LEMMA CatMarked ==
  ASSUME NEW c, CatHonest(c), {"what", "for"} \subseteq DOMAIN c, NEW ids, CatTouches(ids), catAsked' = catAsked,
         c.what = "sync" /\ c.for = "all" => ~(catCalls = {c}),
         NEW d, {d} = CatWritten({c}, ids)
  PROVE  CatHonest(d)' /\ CatKin(c, d)
  <1>1. d = IF c.what = "list" /\ c.rows # None THEN [c EXCEPT !.good = FALSE]
            ELSE IF c.what = "sync" /\ c.jobs # None
              THEN [c EXCEPT !.jobs = { [j EXCEPT !.alone = j.alone /\ j.id \notin ids] : j \in c.jobs }]
            ELSE IF c.what = "delete" THEN [c EXCEPT !.alone = c.alone /\ c.ids \cap ids = {}]
            ELSE c
    BY DEF CatWritten
  <1>2. CASE c.what = "list"
    <2>1. CASE c.rows # None
      <3>1. d = [c EXCEPT !.good = FALSE]
        BY <1>1, <1>2, <2>1
      <3>2. DOMAIN d = DOMAIN c /\ d.what = c.what /\ d.good = FALSE
        BY <1>2, <3>1 DEF CatHonest
      <3> QED
        BY <1>2, <3>2 DEF CatHonest, CatKin
    <2>2. CASE c.rows = None
      BY <1>1, <1>2, <2>2 DEF CatHonest, CatKin
    <2> QED
      BY <2>1, <2>2
  <1>3. CASE c.what = "sync"
    <2>1. CASE c.jobs # None
      <3> DEFINE M(j) == [j EXCEPT !.alone = j.alone /\ j.id \notin ids]
      <3>1. d = [c EXCEPT !.jobs = { M(j) : j \in c.jobs }]
        BY <1>1, <1>3, <2>1
      <3>2. /\ DOMAIN d = DOMAIN c /\ d.what = c.what /\ d.for = c.for /\ d.report = c.report /\ d.id = c.id
            /\ d.jobs = { M(j) : j \in c.jobs }
        BY <1>3, <3>1 DEF CatHonest
      <3>3. CatJobsTrue(c.jobs)
        BY <1>3, <2>1 DEF CatHonest
      <3>4. ASSUME NEW j \in c.jobs
            PROVE  /\ DOMAIN M(j) = CatJobFields /\ M(j).id = j.id /\ M(j).old = j.old /\ M(j).found = j.found
                   /\ M(j).step = j.step /\ M(j).alone = (j.alone /\ j.id \notin ids)
        BY <3>3 DEF CatJobsTrue, CatJobFields
      <3> HIDE DEF M
      <3>5. CatIds(d.jobs) = CatIds(c.jobs)
        BY <3>2, <3>4 DEF CatIds
      <3>6. CatJobsTrue(d.jobs)'
        <4>1. \A j, k \in d.jobs : j.id = k.id => j = k
          BY <3>2, <3>3, <3>4 DEF CatJobsTrue
        <4>2. ASSUME NEW j \in c.jobs, NEW m, m = M(j)
              PROVE  /\ DOMAIN m = CatJobFields
                     /\ m.alone /\ m.id \in DOMAIN catRows' => catRows'[m.id].ops = m.old
                     /\ m.step = "noted" => {m.id} \X CatRemoved(m) \subseteq catNoted'
          <5>1. CatRemoved(m) = CatRemoved(j)
            BY <3>4, <4>2 DEF CatRemoved
          <5>2. /\ DOMAIN m = CatJobFields /\ m.id = j.id /\ m.old = j.old /\ m.step = j.step
                /\ m.alone => j.alone /\ j.id \notin ids
            BY <3>4, <4>2
          <5>3. /\ j.alone /\ j.id \in DOMAIN catRows => catRows[j.id].ops = j.old
                /\ j.step = "noted" => {j.id} \X CatRemoved(j) \subseteq catNoted
            BY <3>3 DEF CatJobsTrue
          <5>4. m.alone /\ m.id \in DOMAIN catRows' => catRows'[m.id].ops = m.old
            BY <5>2, <5>3 DEF CatTouches
          <5>5. m.step = "noted" => {m.id} \X CatRemoved(m) \subseteq catNoted'
            BY <5>1, <5>2, <5>3 DEF CatTouches
          <5> QED
            BY <5>2, <5>4, <5>5
        <4>3. \A m \in d.jobs : /\ DOMAIN m = CatJobFields
                                /\ m.alone /\ m.id \in DOMAIN catRows' => catRows'[m.id].ops = m.old
                                /\ m.step = "noted" => {m.id} \X CatRemoved(m) \subseteq catNoted'
          BY <3>2, <4>2
        <4> QED
          BY <4>1, <4>3 DEF CatJobsTrue
      <3>7. CatTallied(d)'
        BY <1>3, <2>1, <3>2, <3>5 DEF CatHonest, CatTallied
      <3>8. d.for = "all" => d.id = None /\ CatQuiet(d)'
        BY <1>3, <3>2 DEF CatHonest, CatQuiet
      <3> QED
        BY <1>3, <3>2, <3>6, <3>7, <3>8 DEF CatHonest, CatKin
    <2>2. CASE c.jobs = None
      <3>1. d = c
        BY <1>1, <1>3, <2>2
      <3>2. c.for = "all" => c.id = None /\ CatQuiet(c)'
        BY <1>3 DEF CatHonest, CatQuiet
      <3> QED
        BY <1>3, <2>2, <3>1, <3>2 DEF CatHonest, CatKin, CatTallied
    <2> QED
      BY <2>1, <2>2
  <1>4. CASE c.what = "delete"
    <2>1. d = [c EXCEPT !.alone = c.alone /\ c.ids \cap ids = {}]
      BY <1>1, <1>4
    <2>2. /\ DOMAIN d = DOMAIN c /\ d.what = c.what /\ d.ids = c.ids /\ d.todo = c.todo /\ d.broken = c.broken
          /\ d.alone = (c.alone /\ c.ids \cap ids = {})
      BY <1>4, <2>1 DEF CatHonest
    <2> QED
      BY <1>4, <2>2 DEF CatHonest, CatKin, CatTouches
  <1>5. CASE c.what \notin {"list", "sync", "delete"}
    BY <1>1, <1>5 DEF CatHonest, CatKin
  <1> QED
    BY <1>2, <1>3, <1>4, <1>5

(* The requests other than c, when c has written the rows of ids.          *)
LEMMA CatOthers ==
  ASSUME CatFull, NEW c \in catCalls, NEW ids, CatTouches(ids), catAsked' = catAsked,
         NEW T, T = CatWritten(catCalls \ {c}, ids)
  PROVE  /\ \A d \in T : CatHonest(d)'
         /\ \A d \in T : \E x \in catCalls : CatKin(x, d)
         /\ \A x \in catCalls \ {c} : \E d \in T : CatKin(x, d)
  <1>1. ASSUME NEW x \in catCalls \ {c}, NEW d, {d} = CatWritten({x}, ids)
        PROVE  CatHonest(d)' /\ CatKin(x, d)
    <2>1. CatHonest(x) /\ {"what", "for"} \subseteq DOMAIN x /\ catCalls # {x}
      BY DEF CatFull, CatTruth, CatIInv, CatRequest
    <2> QED
      BY <1>1, <2>1, CatMarked
  <1> DEFINE W(x) ==
        IF x.what = "list" /\ x.rows # None THEN [x EXCEPT !.good = FALSE]
        ELSE IF x.what = "sync" /\ x.jobs # None
          THEN [x EXCEPT !.jobs = { [j EXCEPT !.alone = j.alone /\ j.id \notin ids] : j \in x.jobs }]
        ELSE IF x.what = "delete" THEN [x EXCEPT !.alone = x.alone /\ x.ids \cap ids = {}]
        ELSE x
  <1>0. ASSUME NEW S PROVE CatWritten(S, ids) = { W(x) : x \in S }
    BY DEF CatWritten
  <1> HIDE DEF W
  <1>2. ASSUME NEW x PROVE CatWritten({x}, ids) = {W(x)}
    BY <1>0
  <1>3. ASSUME NEW d \in T PROVE \E x \in catCalls \ {c} : {d} = CatWritten({x}, ids)
    <2>1. T = { W(x) : x \in catCalls \ {c} }
      BY <1>0
    <2>2. PICK x \in catCalls \ {c} : d = W(x)
      BY <2>1
    <2>3. {d} = CatWritten({x}, ids)
      BY <1>2, <2>2
    <2> QED
      BY <2>3
  <1>4. \A x \in catCalls \ {c} : CatWritten({x}, ids) \subseteq T
    BY <1>0, <1>2
  <1>5. ASSUME NEW x \in catCalls \ {c} PROVE \E d \in T : CatKin(x, d)
    <2>1. PICK d : {d} = CatWritten({x}, ids)
      BY <1>2
    <2>2. d \in T
      BY <1>4, <2>1
    <2> QED
      BY <1>1, <2>1, <2>2
  <1>6. ASSUME NEW d \in T PROVE CatHonest(d)' /\ \E x \in catCalls : CatKin(x, d)
    <2>1. PICK x \in catCalls \ {c} : {d} = CatWritten({x}, ids)
      BY <1>3
    <2> QED
      BY <1>1, <2>1
  <1> QED
    BY <1>5, <1>6

(* Nothing is written.                                                     *)
LEMMA CatSpectators ==
  ASSUME CatFull, NEW c \in catCalls, UNCHANGED <<catRows, catNoted, catAsked>>, NEW d \in catCalls, d # c
  PROVE  CatHonest(d)'
  <1>1. CatHonest(d) /\ catCalls # {d}
    BY DEF CatFull, CatTruth
  <1>2. CatTallied(d)' = CatTallied(d)
    BY DEF CatTallied
  <1>3. d.jobs # None /\ CatJobsTrue(d.jobs) => CatJobsTrue(d.jobs)'
    BY DEF CatJobsTrue
  <1>4. CatQuiet(d) => CatQuiet(d)'
    BY <1>1 DEF CatQuiet
  <1> QED
    BY <1>1, <1>2, <1>3, <1>4 DEF CatHonest, CatOf

LEMMA CatAwaits ==
  ASSUME CatFull, NEW d \in catCalls', CatDirty(d), catPage'.rows = catPage.rows, catAstray => catAstray'
  PROVE  CatMirrors'
  <1>1. (~catAstray') => catPage'.rows = [s \in DOMAIN catPage'.rows |-> catPage'.rows[s]]
    BY DEF CatFull, CatTruth, CatMirrors
  <1> QED
    BY <1>1 DEF CatMirrors, CatDirty

LEMMA CatAnnounced ==
  ASSUME CatFull, NEW c \in catCalls, c.what \notin {"list", "coverage"}, catPage'.report = catPage.report,
         catAsked' = catAsked
  PROVE  CatReported'
  BY DEF CatFull, CatTruth, CatReported

(* A request that will end with a load writes, or is about to.             *)
LEMMA CatServed ==
  ASSUME CatFull, NEW c \in catCalls, c.what \notin {"list", "coverage"}, NEW d, CatDirty(d), CatHonest(d)',
         NEW ids, CatTouches(ids), CatWrites(c, d, ids), CatStored', BreakingReported',
         UNCHANGED <<catPage, catAstray, catAsked>>
  PROVE  CatTruth'
  <1>1. PICK T : T = CatWritten(catCalls \ {c}, ids)
    OBVIOUS
  <1>2. \A x \in T : CatHonest(x)'
    BY <1>1, CatOthers
  <1>3. catCalls' = T \cup {d}
    BY <1>1 DEF CatWrites
  <1>4. CatMirrors'
    BY <1>3, CatAwaits
  <1>5. CatReported'
    BY CatAnnounced
  <1> QED
    BY <1>2, <1>3, <1>4, <1>5 DEF CatTruth

LEMMA CatReadListTrue ==
  ASSUME CatFull, NEW c \in catCalls, CatReadList(c), UNCHANGED <<catPage, catAstray, catAsked>>
  PROVE  CatTruth'
  <1>1. PICK d : d = [c EXCEPT !.rows = CatOf(catRows, c.filter), !.good = TRUE] /\ CatBecomes(c, d) /\ c.what = "list"
    BY DEF CatReadList
  <1>2. UNCHANGED <<catRows, catNoted, catLost>> /\ catCalls' = (catCalls \ {c}) \cup {d}
    BY <1>1 DEF CatReadList, catServer, CatBecomes
  <1>3. /\ DOMAIN d = DOMAIN c /\ {"rows", "good", "filter"} \subseteq DOMAIN d /\ d.what = "list"
        /\ d.rows = CatOf(catRows, d.filter)
    BY <1>1 DEF CatFull, CatTruth, CatHonest, CatIInv, CatRequest
  <1>4. CatHonest(d)'
    BY <1>2, <1>3 DEF CatHonest, CatOf
  <1>5. \A x \in catCalls' : CatHonest(x)'
    BY <1>2, <1>4, CatSpectators
  <1>6. CatMirrors'
    BY <1>2, <1>3, CatAwaits DEF CatDirty
  <1>7. CatReported'
    BY <1>1, <1>2, <1>3 DEF CatFull, CatTruth, CatReported, CatErrors
  <1>8. CatStored' /\ BreakingReported'
    BY <1>2 DEF CatFull, CatTruth, CatStored, BreakingReported
  <1> QED
    BY <1>5, <1>6, <1>7, <1>8 DEF CatTruth

LEMMA CatReadRowsTrue ==
  ASSUME CatFull, NEW c \in catCalls, CatReadRows(c), UNCHANGED <<catPage, catAstray, catAsked>>
  PROVE  CatTruth'
  <1> DEFINE ids == IF c.id = None THEN DOMAIN catRows ELSE DOMAIN catRows \cap {c.id}
             jobs == { CatJob(i) : i \in ids }
             report == [c.report EXCEPT !.total = Cardinality(ids), !.synced = 0, !.failed = 0]
  <1>0. CatHonest(c) /\ c.what = "sync" /\ {"what", "for"} \subseteq DOMAIN c
    BY DEF CatFull, CatTruth, CatReadRows, CatIInv, CatRequest
  <1>1. PICK d, failed : d = [c EXCEPT !.jobs = jobs, !.failed = failed, !.report = report] /\ CatBecomes(c, d)
    BY DEF CatReadRows
  <1>2. UNCHANGED <<catRows, catNoted, catLost>> /\ catCalls' = (catCalls \ {c}) \cup {d}
    BY <1>1 DEF CatReadRows, catServer, CatBecomes
  <1>3. /\ DOMAIN d = DOMAIN c /\ d.what = c.what /\ d.for = c.for /\ d.id = c.id
        /\ d.jobs = jobs /\ d.report = report
    BY <1>0, <1>1 DEF CatHonest
  <1>4. IsFiniteSet(ids) /\ Cardinality(ids) \in Nat
    BY FS_Subset, FS_CardinalityType DEF CatFull, CatTruth, CatStored
  <1>5. /\ report \in CatReport /\ report.total = Cardinality(ids) /\ report.synced = 0 /\ report.failed = 0
        /\ report.n = c.report.n
    BY <1>0, <1>4 DEF CatHonest, CatReport
  <1>6. ASSUME NEW i, NEW j, j = CatJob(i)
        PROVE  DOMAIN j = CatJobFields /\ j.id = i /\ j.old = catRows[i].ops /\ j.step = "reach"
    BY <1>6 DEF CatJob, CatJobFields
  <1>7. \A j \in jobs : DOMAIN j = CatJobFields /\ j.id \in ids /\ j.old = catRows[j.id].ops /\ j.step = "reach"
    BY <1>6
  <1>7a. \A j, k \in jobs : j.id = k.id => j = k
    BY <1>6
  <1>7b. CatIds(jobs) = ids
    BY <1>6 DEF CatIds
  <1> HIDE DEF jobs, report
  <1>7c. CatJobsTrue(d.jobs)'
    BY <1>2, <1>3, <1>7, <1>7a DEF CatJobsTrue
  <1>8. CatTallied(d)'
    BY <1>3, <1>4, <1>5, <1>7b DEF CatTallied
  <1>9. c.for = "all" => d.id = None /\ CatQuiet(d)'
    <2> SUFFICES ASSUME c.for = "all" PROVE d.id = None /\ CatQuiet(d)'
      OBVIOUS
    <2>1. c.id = None /\ CatQuiet(c)
      BY <1>0 DEF CatHonest
    <2>2. Cardinality({}) = 0
      BY FS_EmptySet
    <2>4. d.report.n = catAsked' => catCalls' = {d} 
      BY <1>2, <1>3, <1>5, <2>1 DEF CatQuiet
    <2>5. CatIds(d.jobs) = DOMAIN catRows'
      BY <1>2, <1>3, <1>7b, <2>1
    <2>6. CatErrors(CatIds(d.jobs))' = {}
      BY <2>5 DEF CatErrors
    <2>7. (d.report.failed = Cardinality(CatErrors(CatIds(d.jobs))))'
      BY <1>3, <1>5, <2>2, <2>6
    <2>8. CatIds(d.jobs) \subseteq DOMAIN catRows'
      BY <2>5
    <2>9. 0 < catAsked' /\ d.report.n <= catAsked'
      BY <1>3, <1>5, <2>1 DEF CatQuiet
    <2> QED
      BY <1>3, <2>1, <2>4, <2>7, <2>8, <2>9 DEF CatQuiet
  <1>10. CatHonest(d)'
    BY <1>0, <1>3, <1>5, <1>7c, <1>8, <1>9 DEF CatHonest
  <1>11. \A x \in catCalls' : CatHonest(x)'
    BY <1>2, <1>10, CatSpectators
  <1>12. CatMirrors' /\ CatReported'
    BY <1>0, <1>2, <1>3, CatAwaits, CatAnnounced DEF CatDirty
  <1>13. CatStored' /\ BreakingReported'
    BY <1>2 DEF CatFull, CatTruth, CatStored, BreakingReported
  <1> QED
    BY <1>11, <1>12, <1>13 DEF CatTruth

LEMMA CatReachTrue ==
  ASSUME CatFull, NEW c \in catCalls, CatReach(c), UNCHANGED <<catPage, catAstray, catAsked>>
  PROVE  CatTruth'
  <1>0. CatHonest(c) /\ c.what = "sync" /\ {"what", "for"} \subseteq DOMAIN c /\ c.jobs # None
    BY DEF CatFull, CatTruth, CatReach, CatIInv, CatRequest
  <1>1. CatJobsTrue(c.jobs)
    BY <1>0 DEF CatHonest
  <1>2. PICK group, d :
          /\ group \in SUBSET c.jobs
          /\ \/ d = [c EXCEPT !.jobs = (@ \ group) \cup { CatFound(k) : k \in group }]
             \/ d = [c EXCEPT !.jobs = (@ \ group) \cup { [k EXCEPT !.step = "error"] : k \in group }]
          /\ CatBecomes(c, d)
    <2>1. PICK j \in c.jobs :
            LET group == IF j.id \in CatGrpc THEN { k \in c.jobs : k.id \in CatGrpc /\ k.target = j.target } ELSE {j}
            IN  \/ CatBecomes(c, [c EXCEPT !.jobs = (@ \ group) \cup { CatFound(k) : k \in group }])
                \/ CatBecomes(c, [c EXCEPT !.jobs = (@ \ group) \cup { [k EXCEPT !.step = "error"] : k \in group }])
      BY DEF CatReach
    <2>2. PICK group : group = IF j.id \in CatGrpc THEN { k \in c.jobs : k.id \in CatGrpc /\ k.target = j.target } ELSE {j}
      OBVIOUS
    <2>3. group \in SUBSET c.jobs
      BY <2>2
    <2> QED
      BY <2>1, <2>2, <2>3
  <1> DEFINE F(k) == IF d = [c EXCEPT !.jobs = (@ \ group) \cup { CatFound(m) : m \in group }]
                     THEN CatFound(k) ELSE [k EXCEPT !.step = "error"]
  <1>3. /\ DOMAIN d = DOMAIN c /\ d.what = c.what /\ d.for = c.for /\ d.id = c.id /\ d.report = c.report
        /\ d.jobs = (c.jobs \ group) \cup { F(k) : k \in group }
    BY <1>0, <1>2 DEF CatHonest
  <1>4. ASSUME NEW k \in group
        PROVE  /\ DOMAIN F(k) = CatJobFields /\ F(k).id = k.id /\ F(k).old = k.old /\ F(k).alone = k.alone
               /\ F(k).step # "noted"
    BY <1>1, <1>2 DEF CatJobsTrue, CatJobFields, CatFound
  <1> HIDE DEF F
  <1>5. UNCHANGED <<catRows, catNoted, catLost>> /\ catCalls' = (catCalls \ {c}) \cup {d}
    BY <1>2 DEF CatReach, catServer, CatBecomes
  <1>6. CatIds(d.jobs) = CatIds(c.jobs)
    BY <1>2, <1>3, <1>4 DEF CatIds
  <1>7. CatJobsTrue(d.jobs)'
    <2>1. \A j1, k1 \in d.jobs : j1.id = k1.id => j1 = k1
      BY <1>1, <1>2, <1>3, <1>4 DEF CatJobsTrue
    <2>2. \A m \in d.jobs : /\ DOMAIN m = CatJobFields
                            /\ m.alone /\ m.id \in DOMAIN catRows => catRows[m.id].ops = m.old
                            /\ m.step = "noted" => {m.id} \X CatRemoved(m) \subseteq catNoted
      BY <1>1, <1>2, <1>3, <1>4 DEF CatJobsTrue
    <2> QED
      BY <1>5, <2>1, <2>2 DEF CatJobsTrue
  <1>8. CatTallied(d)'
    BY <1>0, <1>3, <1>6 DEF CatHonest, CatTallied
  <1>9. d.for = "all" => d.id = None /\ CatQuiet(d)'
    <2> SUFFICES ASSUME d.for = "all" PROVE d.id = None /\ CatQuiet(d)'
      OBVIOUS
    <2>1. d.id = None /\ CatQuiet(c)
      BY <1>0, <1>3 DEF CatHonest
    <2>2. CatErrors(CatIds(d.jobs))' = CatErrors(CatIds(c.jobs))
      BY <1>5, <1>6 DEF CatErrors
    <2> QED
      BY <1>0, <1>3, <1>5, <1>6, <2>1, <2>2 DEF CatQuiet
  <1>10. CatHonest(d)'
    BY <1>0, <1>3, <1>7, <1>8, <1>9 DEF CatHonest
  <1>11. \A x \in catCalls' : CatHonest(x)'
    BY <1>5, <1>10, CatSpectators
  <1>12. CatMirrors' /\ CatReported'
    BY <1>0, <1>3, <1>5, CatAwaits, CatAnnounced DEF CatDirty
  <1>13. CatStored' /\ BreakingReported'
    BY <1>5 DEF CatFull, CatTruth, CatStored, BreakingReported
  <1> QED
    BY <1>11, <1>12, <1>13 DEF CatTruth

(* A job's row is changed.                                                 *)
LEMMA CatUpdatedRows ==
  ASSUME CatStored, NEW id, NEW change, catRows' = CatUpdated(id, change)
  PROVE  /\ DOMAIN catRows' = DOMAIN catRows
         /\ \A s \in DOMAIN catRows : s # id => catRows'[s] = catRows[s]
         /\ \A s \in DOMAIN catRows : DOMAIN catRows'[s] = DOMAIN catRows[s]
         /\ id \in DOMAIN catRows => \A f \in DOMAIN catRows[id] :
              catRows'[id][f] = IF f \in DOMAIN change THEN change[f] ELSE catRows[id][f]
  BY DEF CatUpdated

(* The part of a sync that remains when one of its rows is done with.      *)
LEMMA CatJobDone ==
  ASSUME CatFull, NEW c \in catCalls, c.what = "sync", c.jobs # None, NEW j \in c.jobs, NEW report, NEW failed, NEW d,
         \/ d = [c EXCEPT !.jobs = @ \ {j}, !.report = report, !.failed = failed]
         \/ d = [c EXCEPT !.jobs = @ \ {j}, !.report = report],
         \/ report = [c.report EXCEPT !.failed = @ + 1]
         \/ report = [c.report EXCEPT !.synced = @ + 1],
         DOMAIN catRows' = DOMAIN catRows, CatTouches({j.id}), catAsked' = catAsked,
         \A s \in DOMAIN catRows : s # j.id => catRows'[s] = catRows[s],
         j.id \in DOMAIN catRows => (catRows'[j.id].error <=> report.failed = c.report.failed + 1),
         CatWrites(c, d, {j.id})
  PROVE  CatHonest(d)' /\ CatDirty(d)
  <1>0. CatHonest(c) /\ {"what", "for"} \subseteq DOMAIN c
    BY DEF CatFull, CatTruth, CatIInv, CatRequest
  <1>1. CatJobsTrue(c.jobs) /\ c.report \in CatReport /\ CatTallied(c) /\ {"jobs", "report", "failed", "id", "rest"} \subseteq DOMAIN c
    BY <1>0 DEF CatHonest
  <1>2. /\ DOMAIN d = DOMAIN c /\ d.what = c.what /\ d.for = c.for /\ d.id = c.id /\ d.report = report
        /\ d.jobs = c.jobs \ {j}
    BY <1>0, <1>1
  <1>3. CatIds(d.jobs) = CatIds(c.jobs) \ {j.id} /\ j.id \in CatIds(c.jobs)
    BY <1>1, <1>2 DEF CatIds, CatJobsTrue
  <1>4. /\ IsFiniteSet(CatIds(c.jobs)) /\ Cardinality(CatIds(c.jobs)) \in Nat
        /\ c.report.total = c.report.synced + c.report.failed + Cardinality(CatIds(c.jobs))
    BY <1>1, FS_CardinalityType DEF CatTallied
  <1>5. IsFiniteSet(CatIds(d.jobs)) /\ Cardinality(CatIds(d.jobs)) = Cardinality(CatIds(c.jobs)) - 1
    <2>1. PICK S, x : S = CatIds(c.jobs) /\ x = j.id
      OBVIOUS
    <2>2. IsFiniteSet(S) /\ x \in S /\ CatIds(d.jobs) = S \ {x}
      BY <1>3, <1>4, <2>1
    <2>3. IsFiniteSet(S \ {x}) /\ Cardinality(S \ {x}) = Cardinality(S) - 1
      BY <2>2, FS_RemoveElement
    <2> QED
      BY <2>1, <2>2, <2>3
  <1>6. /\ report \in CatReport /\ report.n = c.report.n /\ report.total = c.report.total
        /\ \/ report.failed = c.report.failed + 1 /\ report.synced = c.report.synced
           \/ report.failed = c.report.failed /\ report.synced = c.report.synced + 1
    BY <1>1 DEF CatReport
  <1>7. CatTallied(d)'
    <2>1. report.total = report.synced + report.failed + Cardinality(CatIds(d.jobs))
      BY <1>1, <1>4, <1>5, <1>6 DEF CatReport
    <2> QED
      BY <1>2, <1>5, <2>1 DEF CatTallied
  <1>8. CatJobsTrue(d.jobs)'
    BY <1>1, <1>2 DEF CatJobsTrue, CatTouches
  <1>9. d.for = "all" => d.id = None /\ CatQuiet(d)'
    <2> SUFFICES ASSUME d.for = "all" PROVE d.id = None /\ CatQuiet(d)'
      OBVIOUS
    <2>1. d.id = None /\ CatQuiet(c)
      BY <1>0, <1>2 DEF CatHonest
    <2>2. 0 < catAsked' /\ d.report.n <= catAsked'
      BY <1>2, <1>6, <2>1 DEF CatQuiet
    <2>3. ASSUME c.report.n = catAsked
          PROVE  /\ catCalls' = {d} /\ CatIds(d.jobs) \subseteq DOMAIN catRows'
                 /\ (report.failed = Cardinality(CatErrors(CatIds(d.jobs))))'
      <3>1. catCalls = {c} /\ CatIds(c.jobs) \subseteq DOMAIN catRows /\ c.report.failed = Cardinality(CatErrors(CatIds(c.jobs)))
        BY <2>1, <2>3 DEF CatQuiet
      <3>2. CatWritten({}, {j.id}) = {}
        BY DEF CatWritten
      <3>3. catCalls' = {d}
        <4>1. catCalls \ {c} = {}
          BY <3>1
        <4> QED
          BY <3>2, <4>1 DEF CatWrites
      <3>4. j.id \in DOMAIN catRows /\ j.id \notin CatErrors(CatIds(c.jobs))
        BY <1>3, <3>1 DEF CatErrors
      <3>5. IsFiniteSet(CatErrors(CatIds(c.jobs)))
        BY FS_Subset DEF CatFull, CatTruth, CatStored, CatErrors
      <3>6. CASE report.failed = c.report.failed + 1
        <4>1. CatErrors(CatIds(d.jobs))' = CatErrors(CatIds(c.jobs)) \cup {j.id}
          BY <1>3, <3>4, <3>6 DEF CatErrors
        <4>2. PICK S : S = CatErrors(CatIds(c.jobs))
          OBVIOUS
        <4>3. IsFiniteSet(S) /\ j.id \notin S
          BY <3>4, <3>5, <4>2
        <4>4. Cardinality(S \cup {j.id}) = Cardinality(S) + 1
          BY <4>3, FS_AddElement
        <4>5. Cardinality(CatErrors(CatIds(d.jobs))') = report.failed
          BY <3>1, <3>6, <4>1, <4>2, <4>4
        <4> QED
          BY <1>3, <3>1, <3>3, <4>5
      <3>7. CASE report.failed = c.report.failed
        <4>0. report.failed # c.report.failed + 1
          BY <1>1, <3>7 DEF CatReport
        <4>1. CatErrors(CatIds(d.jobs))' = CatErrors(CatIds(c.jobs))
          BY <1>3, <3>4, <4>0 DEF CatErrors
        <4> QED
          BY <1>3, <3>1, <3>3, <3>7, <4>1
      <3> QED
        BY <1>6, <3>6, <3>7
    <2> QED
      BY <1>2, <1>6, <2>1, <2>2, <2>3 DEF CatQuiet
  <1>10. CatHonest(d)'
    BY <1>1, <1>2, <1>6, <1>7, <1>8, <1>9 DEF CatHonest
  <1> QED
    BY <1>2, <1>10 DEF CatDirty

LEMMA CatRefuseTrue ==
  ASSUME CatFull, NEW c \in catCalls, c.what = "sync", c.jobs # None, NEW j \in c.jobs, CatRefuse(c, j),
         UNCHANGED <<catPage, catAstray, catAsked>>
  PROVE  CatTruth'
  <1>0. CatHonest(c) /\ CatStored
    BY DEF CatFull, CatTruth
  <1>1. catRows' = CatUpdated(j.id, [error |-> TRUE]) /\ UNCHANGED <<catNoted, catLost>>
    BY DEF CatRefuse
  <1>2. PICK report, failed, d :
          /\ report = [c.report EXCEPT !.failed = @ + 1]
          /\ d = [c EXCEPT !.jobs = @ \ {j}, !.report = report, !.failed = failed]
          /\ CatWrites(c, d, {j.id})
    <2>1. PICK failed : CatWrites(c, [c EXCEPT !.jobs = @ \ {j}, !.report.failed = @ + 1, !.failed = failed], {j.id})
      BY DEF CatRefuse
    <2>2. [c EXCEPT !.jobs = @ \ {j}, !.report.failed = @ + 1, !.failed = failed]
            = [c EXCEPT !.jobs = @ \ {j}, !.report = [c.report EXCEPT !.failed = @ + 1], !.failed = failed]
      BY <1>0 DEF CatHonest
    <2> QED
      BY <2>1, <2>2
  <1>3. /\ DOMAIN catRows' = DOMAIN catRows
        /\ \A s \in DOMAIN catRows : s # j.id => catRows'[s] = catRows[s]
        /\ \A s \in DOMAIN catRows : DOMAIN catRows'[s] = DOMAIN catRows[s]
        /\ j.id \in DOMAIN catRows => catRows'[j.id].error = TRUE /\ catRows'[j.id].ops = catRows[j.id].ops
    BY <1>0, <1>1, CatUpdatedRows DEF CatStored
  <1>4. CatTouches({j.id})
    BY <1>1, <1>3 DEF CatTouches
  <1>5. report.failed = c.report.failed + 1
    BY <1>0, <1>2 DEF CatHonest, CatReport
  <1>6. CatHonest(d)' /\ CatDirty(d)
    BY <1>2, <1>3, <1>4, <1>5, CatJobDone
  <1>7. CatStored' /\ BreakingReported'
    BY <1>0, <1>1, <1>3 DEF CatFull, CatTruth, CatStored, BreakingReported
  <1> QED
    BY <1>2, <1>4, <1>6, <1>7, CatServed

LEMMA CatNoteTrue ==
  ASSUME CatFull, NEW c \in catCalls, c.what = "sync", c.jobs # None, NEW j \in c.jobs, CatNote(c, j),
         UNCHANGED <<catPage, catAstray, catAsked>>
  PROVE  CatTruth'
  <1>0. CatHonest(c) /\ CatStored /\ {"what", "for"} \subseteq DOMAIN c /\ CatJobsTrue(c.jobs)
    BY DEF CatFull, CatTruth, CatIInv, CatRequest, CatHonest
  <1>1. /\ catNoted' = catNoted \cup ({j.id} \X CatRemoved(j)) /\ catLost' = catLost
        /\ CatWrites(c, [c EXCEPT !.jobs = (@ \ {j}) \cup {[j EXCEPT !.step = "noted"]}], {j.id})
    BY DEF CatNote
  <1>2. PICK drift : catRows' = CatUpdated(j.id, [drift |-> drift])
    BY DEF CatNote
  <1>3. /\ DOMAIN catRows' = DOMAIN catRows
        /\ \A s \in DOMAIN catRows : DOMAIN catRows'[s] = DOMAIN catRows[s]
        /\ \A s \in DOMAIN catRows : catRows'[s].ops = catRows[s].ops /\ catRows'[s].error = catRows[s].error
    BY <1>0, <1>2, CatUpdatedRows DEF CatStored
  <1>4. CatTouches({j.id})
    BY <1>1, <1>3 DEF CatTouches
  <1>5. PICK m, d : m = [j EXCEPT !.step = "noted"] /\ d = [c EXCEPT !.jobs = (@ \ {j}) \cup {m}]
    OBVIOUS
  <1>6. /\ DOMAIN m = CatJobFields /\ m.id = j.id /\ m.old = j.old /\ m.found = j.found /\ m.alone = j.alone
        /\ m.step = "noted"
    BY <1>0, <1>5 DEF CatJobsTrue, CatJobFields
  <1>7. /\ DOMAIN d = DOMAIN c /\ d.what = c.what /\ d.for = c.for /\ d.id = c.id /\ d.report = c.report
        /\ d.jobs = (c.jobs \ {j}) \cup {m}
    BY <1>0, <1>5 DEF CatHonest
  <1>8. CatIds(d.jobs) = CatIds(c.jobs)
    BY <1>6, <1>7 DEF CatIds
  <1>9. CatJobsTrue(d.jobs)'
    <2>1. CatRemoved(m) = CatRemoved(j)
      BY <1>6 DEF CatRemoved
    <2>2. {m.id} \X CatRemoved(m) \subseteq catNoted'
      BY <1>1, <1>6, <2>1
    <2>3. \A i, k \in d.jobs : i.id = k.id => i = k
      BY <1>0, <1>6, <1>7 DEF CatJobsTrue
    <2>4. \A k \in d.jobs : /\ DOMAIN k = CatJobFields
                            /\ k.alone /\ k.id \in DOMAIN catRows' => catRows'[k.id].ops = k.old
                            /\ k.step = "noted" => {k.id} \X CatRemoved(k) \subseteq catNoted'
      BY <1>0, <1>1, <1>3, <1>6, <1>7, <2>2 DEF CatJobsTrue
    <2> QED
      BY <2>3, <2>4 DEF CatJobsTrue
  <1>10. CatTallied(d)'
    BY <1>0, <1>7, <1>8 DEF CatHonest, CatTallied
  <1>11. d.for = "all" => d.id = None /\ CatQuiet(d)'
    <2> SUFFICES ASSUME d.for = "all" PROVE d.id = None /\ CatQuiet(d)'
      OBVIOUS
    <2>1. d.id = None /\ CatQuiet(c)
      BY <1>0, <1>7 DEF CatHonest
    <2>2. CatErrors(CatIds(d.jobs))' = CatErrors(CatIds(c.jobs))
      BY <1>3, <1>8 DEF CatErrors
    <2>3. catCalls = {c} => catCalls' = {d}
      <3>1. catCalls = {c} => CatWritten(catCalls \ {c}, {j.id}) = {}
        BY DEF CatWritten
      <3> QED
        BY <1>1, <1>5, <3>1 DEF CatWrites
    <2> QED
      BY <1>3, <1>7, <1>8, <2>1, <2>2, <2>3 DEF CatQuiet
  <1>12. CatHonest(d)' /\ CatDirty(d)
    BY <1>0, <1>7, <1>9, <1>10, <1>11 DEF CatHonest, CatDirty
  <1>13. CatStored' /\ BreakingReported'
    BY <1>0, <1>1, <1>3 DEF CatFull, CatTruth, CatStored, BreakingReported
  <1> QED
    BY <1>1, <1>4, <1>5, <1>12, <1>13, CatServed

LEMMA CatStoreTrue ==
  ASSUME CatFull, NEW c \in catCalls, c.what = "sync", c.jobs # None, NEW j \in c.jobs, CatStore(c, j),
         UNCHANGED <<catPage, catAstray, catAsked>>
  PROVE  CatTruth'
  <1>0. CatHonest(c) /\ CatStored /\ CatJobsTrue(c.jobs)
    BY DEF CatFull, CatTruth, CatHonest
  <1>1. catRows' = CatUpdated(j.id, [ops |-> j.found, error |-> FALSE]) /\ catNoted' = catNoted /\ j.step = "noted"
    BY DEF CatStore
  <1>2. PICK report, d :
          /\ report = [c.report EXCEPT !.synced = @ + 1]
          /\ d = [c EXCEPT !.jobs = @ \ {j}, !.report = report]
          /\ CatWrites(c, d, {j.id})
    <2>1. CatWrites(c, [c EXCEPT !.jobs = @ \ {j}, !.report.synced = @ + 1], {j.id})
      BY DEF CatStore
    <2>2. [c EXCEPT !.jobs = @ \ {j}, !.report.synced = @ + 1]
            = [c EXCEPT !.jobs = @ \ {j}, !.report = [c.report EXCEPT !.synced = @ + 1]]
      BY <1>0 DEF CatHonest
    <2> QED
      BY <2>1, <2>2
  <1>3. /\ DOMAIN catRows' = DOMAIN catRows
        /\ \A s \in DOMAIN catRows : s # j.id => catRows'[s] = catRows[s]
        /\ \A s \in DOMAIN catRows : DOMAIN catRows'[s] = DOMAIN catRows[s]
        /\ j.id \in DOMAIN catRows => catRows'[j.id].error = FALSE
    <2>1. PICK change : change = [ops |-> j.found, error |-> FALSE]
      OBVIOUS
    <2>2. DOMAIN change = {"ops", "error"} /\ change.error = FALSE /\ catRows' = CatUpdated(j.id, change)
      BY <1>1, <2>1
    <2> QED
      BY <1>0, <2>2, CatUpdatedRows DEF CatStored
  <1>4. CatTouches({j.id})
    BY <1>1, <1>3 DEF CatTouches
  <1>5. report.failed # c.report.failed + 1
    BY <1>0, <1>2 DEF CatHonest, CatReport
  <1>6. CatHonest(d)' /\ CatDirty(d)
    BY <1>2, <1>3, <1>4, <1>5, CatJobDone
  <1>7. BreakingReported'
    <2>1. BreakingReported /\ {j.id} \X CatRemoved(j) \subseteq catNoted
      BY <1>0, <1>1 DEF CatFull, CatTruth, CatJobsTrue
    <2>2. CASE j.alone /\ j.id \in DOMAIN catRows /\ catRows[j.id].ops # None
      <3>1. catLost' = catLost \cup ({j.id} \X (catRows[j.id].ops \ j.found))
        BY <2>2 DEF CatStore
      <3>2. catRows[j.id].ops = j.old
        BY <1>0, <2>2 DEF CatJobsTrue
      <3>3. catRows[j.id].ops \ j.found = CatRemoved(j)
        BY <2>2, <3>2 DEF CatRemoved
      <3> QED
        BY <1>1, <2>1, <3>1, <3>3 DEF BreakingReported
    <2>3. CASE ~(j.alone /\ j.id \in DOMAIN catRows /\ catRows[j.id].ops # None)
      <3>1. catLost' = catLost
        BY <2>3 DEF CatStore
      <3> QED
        BY <1>1, <2>1, <3>1 DEF BreakingReported
    <2> QED
      BY <2>2, <2>3
  <1>8. CatStored'
    BY <1>0, <1>3 DEF CatStored
  <1> QED
    BY <1>2, <1>4, <1>6, <1>7, <1>8, CatServed

(* The rows with id among them, the others as they were.                   *)
CatWith(rows, id) ==
  /\ DOMAIN rows = DOMAIN catRows \cup {id} /\ IsFiniteSet(DOMAIN rows)
  /\ \A s \in DOMAIN catRows : s # id => rows[s] = catRows[s]
  /\ \A s \in DOMAIN rows : DOMAIN rows[s] = {"target", "ops", "error", "drift"}

LEMMA CatUpsertedRows ==
  ASSUME CatStored, NEW id, NEW target
  PROVE  CatWith(CatUpserted(catRows, id, target), id)
  <1>1. PICK rows : rows = CatUpserted(catRows, id, target)
    OBVIOUS
  <1>2. DOMAIN rows = DOMAIN catRows \cup {id}
    BY <1>1 DEF CatUpserted
  <1>3. IsFiniteSet(DOMAIN catRows \cup {id})
    BY FS_AddElement DEF CatStored
  <1>4. /\ \A s \in DOMAIN catRows : s # id => rows[s] = catRows[s]
        /\ \A s \in DOMAIN rows : DOMAIN rows[s] = {"target", "ops", "error", "drift"}
    BY <1>1, <1>2 DEF CatUpserted, CatStored
  <1>5. CatWith(rows, id)
    BY <1>2, <1>3, <1>4 DEF CatWith
  <1> QED
    BY <1>1, <1>5

LEMMA CatUpsertTrue ==
  ASSUME CatFull, NEW c \in catCalls, CatUpsert(c), UNCHANGED <<catPage, catAstray, catAsked>>
  PROVE  CatTruth'
  <1>0. CatStored /\ {"what", "for"} \subseteq DOMAIN c /\ c.what = "save"
    BY DEF CatFull, CatTruth, CatIInv, CatRequest, CatUpsert
  <1>1. PICK d : d = [c EXCEPT !.what = "saved"] /\ CatWrites(c, d, {c.id})
    BY DEF CatUpsert
  <1>2. catRows' = CatUpserted(catRows, c.id, c.target) /\ UNCHANGED <<catNoted, catLost>>
    BY DEF CatUpsert
  <1>3. d.what = "saved"
    BY <1>0, <1>1
  <1>4. CatTouches({c.id}) /\ CatStored'
    <2>1. PICK rows : rows = CatUpserted(catRows, c.id, c.target)
      OBVIOUS
    <2>2. CatWith(rows, c.id)
      BY <1>0, <2>1, CatUpsertedRows
    <2>3. catRows' = rows
      BY <1>2, <2>1
    <2>4. CatTouches({c.id})
      BY <1>2, <2>2, <2>3 DEF CatTouches, CatWith
    <2> QED
      BY <1>0, <2>2, <2>3, <2>4 DEF CatStored, CatWith
  <1>5. CatHonest(d)' /\ CatDirty(d)
    BY <1>3 DEF CatHonest, CatDirty
  <1>6. BreakingReported'
    BY <1>2 DEF CatFull, CatTruth, BreakingReported
  <1> QED
    BY <1>0, <1>1, <1>4, <1>5, <1>6, CatServed

LEMMA CatBulkUpsertTrue ==
  ASSUME CatFull, NEW c \in catCalls, CatBulkUpsert(c), UNCHANGED <<catPage, catAstray, catAsked>>
  PROVE  CatTruth'
  <1>0. CatStored /\ {"what", "for"} \subseteq DOMAIN c /\ c.what = "import"
    BY DEF CatFull, CatTruth, CatIInv, CatRequest, CatBulkUpsert
  <1> DEFINE of == IF DOMAIN c.rows \subseteq CatGrpc THEN CatGrpc ELSE CatRest
             kept == Restrict(catRows, DOMAIN catRows \ (of \ DOMAIN c.rows))
  <1>1. PICK d : d = [c EXCEPT !.what = "imported"] /\ CatWrites(c, d, of)
    BY DEF CatBulkUpsert
  <1>2. /\ catRows' = [s \in DOMAIN kept \cup DOMAIN c.rows |->
                         IF s \in DOMAIN c.rows THEN CatUpserted(kept, s, c.rows[s])[s] ELSE kept[s]]
        /\ UNCHANGED <<catNoted, catLost>>
    BY DEF CatBulkUpsert
  <1>3. d.what = "imported"
    BY <1>0, <1>1
  <1>4. DOMAIN c.rows \subseteq of /\ of \subseteq CatServices
    BY <1>0 DEF CatFull, CatTruth, CatHonest, CatServices
  <1>5. DOMAIN kept = DOMAIN catRows \ (of \ DOMAIN c.rows) /\ \A s \in DOMAIN kept : kept[s] = catRows[s]
    BY DEF Restrict
  <1> HIDE DEF of, kept
  <1>6. CatTouches(of)
    BY <1>2, <1>4, <1>5 DEF CatTouches
  <1>7. ASSUME NEW s \in DOMAIN c.rows
        PROVE  DOMAIN CatUpserted(kept, s, c.rows[s])[s] = {"target", "ops", "error", "drift"}
    BY <1>0, <1>5 DEF CatUpserted, CatStored
  <1>8. CatStored'
    <2>1. IsFiniteSet(DOMAIN catRows \cup CatServices)
      BY <1>0, FS_Union, CatAssumption DEF CatStored
    <2>2. IsFiniteSet(DOMAIN catRows')
      BY <1>2, <1>4, <1>5, <2>1, FS_Subset
    <2>3. \A s \in DOMAIN catRows' : DOMAIN catRows'[s] = {"target", "ops", "error", "drift"}
      BY <1>0, <1>2, <1>5, <1>7 DEF CatStored
    <2> QED
      BY <1>0, <2>2, <2>3 DEF CatStored
  <1>9. CatHonest(d)' /\ CatDirty(d)
    BY <1>3 DEF CatHonest, CatDirty
  <1>10. BreakingReported'
    BY <1>2 DEF CatFull, CatTruth, BreakingReported
  <1> QED
    BY <1>0, <1>1, <1>6, <1>8, <1>9, <1>10, CatServed

LEMMA CatKeepTrue ==
  ASSUME CatFull, NEW c \in catCalls, CatKeep(c), UNCHANGED <<catPage, catAstray, catAsked>>
  PROVE  CatTruth'
  <1>0. CatStored /\ CatHonest(c) /\ {"what", "for"} \subseteq DOMAIN c /\ c.what = "found"
    BY DEF CatFull, CatTruth, CatIInv, CatRequest, CatKeep
  <1>1. PICK s \in c.todo :
          /\ catRows' = [CatUpserted(catRows, s.id, c.target) EXCEPT ![s.id].ops = s.ops, ![s.id].error = FALSE]
          /\ CatWrites(c, [c EXCEPT !.todo = @ \ {s}], {s.id})
    BY DEF CatKeep
  <1>2. PICK d : d = [c EXCEPT !.todo = @ \ {s}]
    OBVIOUS
  <1>3. {"todo", "failed"} \subseteq DOMAIN c /\ (c.failed => c.todo = {}) /\ UNCHANGED <<catNoted, catLost>>
    BY <1>0 DEF CatHonest, CatKeep
  <1>4. d.what = "found" /\ ~d.failed /\ {"todo", "failed"} \subseteq DOMAIN d
    BY <1>0, <1>1, <1>2, <1>3
  <1>5. PICK rows : rows = CatUpserted(catRows, s.id, c.target)
    OBVIOUS
  <1>6. CatWith(rows, s.id)
    BY <1>0, <1>5, CatUpsertedRows
  <1>7. /\ DOMAIN catRows' = DOMAIN rows
        /\ \A t \in DOMAIN rows : DOMAIN catRows'[t] = DOMAIN rows[t]
        /\ \A t \in DOMAIN rows : t # s.id => catRows'[t] = rows[t]
    BY <1>1, <1>5
  <1>8. CatTouches({s.id})
    BY <1>3, <1>6, <1>7 DEF CatTouches, CatWith
  <1>9. CatStored'
    BY <1>0, <1>6, <1>7 DEF CatStored, CatWith
  <1>10. CatHonest(d)' /\ CatDirty(d)
    BY <1>4 DEF CatHonest, CatDirty
  <1>11. BreakingReported'
    BY <1>3 DEF CatFull, CatTruth, BreakingReported
  <1> QED
    BY <1>0, <1>1, <1>2, <1>8, <1>9, <1>10, <1>11, CatServed


(* What is shown stays right as long as it stays, nothing that was to be   *)
(* followed by a load has gone, and no row changes but those a deletion    *)
(* takes away.                                                             *)
LEMMA CatMirrorsStay ==
  ASSUME CatFull, catPage'.rows = catPage.rows, catPage'.filter = catPage.filter, catAstray => catAstray',
         \A x \in catCalls : (\E d \in catCalls' : CatKin(x, d)) \/ (~CatDirty(x) /\ x.what # "delete"),
         \A s : s \in CatGone' \/ (/\ s \in DOMAIN catRows' <=> s \in DOMAIN catRows
                                   /\ s \in DOMAIN catRows => catRows'[s] = catRows[s])
  PROVE  CatMirrors'
  <1>1. CatMirrors
    BY DEF CatFull, CatTruth
  <1>2. CASE catAstray'
    BY <1>2 DEF CatMirrors
  <1>3. CASE ~catAstray' /\ \E d \in catCalls' : CatDirty(d)
    BY <1>1, <1>3 DEF CatMirrors, CatDirty
  <1>4. CASE ~catAstray' /\ \A d \in catCalls' : ~CatDirty(d)
    <2>1. \A x \in catCalls : ~CatDirty(x)
      BY <1>4, CatKinDirty
    <2>2. CatGone \subseteq CatGone'
      BY DEF CatGone, CatKin
    <2> DEFINE of == CatOf(catRows, catPage.filter)
               on == CatOf(catRows', catPage'.filter)
               P == CASE catPage.filter = None -> CatServices [] catPage.filter = "grpc" -> CatGrpc [] OTHER -> CatRest
    <2>3. /\ DOMAIN of = DOMAIN catRows \cap P /\ \A s \in DOMAIN of : of[s] = catRows[s]
          /\ DOMAIN on = DOMAIN catRows' \cap P /\ \A s \in DOMAIN on : on[s] = catRows'[s]
      BY DEF CatOf, Restrict
    <2> HIDE DEF of, on, P
    <2>4. \A s \in (DOMAIN catPage.rows \cup DOMAIN of) \ CatGone :
            s \in DOMAIN catPage.rows /\ s \in DOMAIN of /\ catPage.rows[s] = of[s]
      BY <1>1, <1>4, <2>1 DEF CatMirrors, of
    <2>5. \A s \in (DOMAIN catPage'.rows \cup DOMAIN on) \ CatGone' :
            s \in DOMAIN catPage'.rows /\ s \in DOMAIN on /\ catPage'.rows[s] = on[s]
      BY <2>2, <2>3, <2>4
    <2>6. catPage'.rows = [s \in DOMAIN catPage'.rows |-> catPage'.rows[s]]
      BY <1>1, <1>4 DEF CatMirrors
    <2> QED
      BY <2>5, <2>6 DEF CatMirrors, on
  <1> QED
    BY <1>2, <1>3, <1>4

LEMMA CatReflectTrue ==
  ASSUME CatFull, NEW c \in catCalls, CatReflect(c), UNCHANGED <<catPage, catAstray, catAsked>>
  PROVE  CatTruth'
  <1>0. CatHonest(c) /\ {"what", "for"} \subseteq DOMAIN c /\ c.what = "discover"
    BY DEF CatFull, CatTruth, CatIInv, CatRequest, CatReflect
  <1>1. PICK failed, todo, d :
          /\ d = [c EXCEPT !.what = "found", !.failed = failed, !.todo = todo] /\ CatBecomes(c, d)
          /\ failed => todo = {}
    <2> DEFINE there == { s \in CatGrpc : catHosts[c.target][s] # None }
    <2>1. PICK todo : todo = { [id |-> s, ops |-> catHosts[c.target][s]] : s \in there \cap c.only }
      OBVIOUS
    <2>2. CatBecomes(c, [c EXCEPT !.what = "found", !.failed = there = {}, !.todo = todo])
      BY <2>1 DEF CatReflect
    <2>3. there = {} => todo = {}
      BY <2>1
    <2> HIDE DEF there
    <2> QED
      BY <2>2, <2>3
  <1>2. UNCHANGED <<catRows, catNoted, catLost>> /\ catCalls' = (catCalls \ {c}) \cup {d}
    BY <1>1 DEF CatReflect, catServer, CatBecomes
  <1>3. d.what = "found" /\ d.failed = failed /\ d.todo = todo /\ {"todo", "failed"} \subseteq DOMAIN d
    BY <1>0, <1>1 DEF CatHonest
  <1>4. CatHonest(d)'
    BY <1>1, <1>3 DEF CatHonest
  <1>5. \A x \in catCalls' : CatHonest(x)'
    BY <1>2, <1>4, CatSpectators
  <1>6. CatMirrors'
    <2>1. ~CatDirty(c) /\ c.what # "delete" /\ \A x \in catCalls : CatKin(x, x)
      BY <1>0 DEF CatDirty, CatKin
    <2> QED
      BY <1>2, <2>1, CatMirrorsStay
  <1>7. CatReported'
    BY <1>0, CatAnnounced
  <1>8. CatStored' /\ BreakingReported'
    BY <1>2 DEF CatFull, CatTruth, CatStored, BreakingReported
  <1> QED
    BY <1>5, <1>6, <1>7, <1>8 DEF CatTruth

LEMMA CatDeleteTrue ==
  ASSUME CatFull, NEW c \in catCalls, CatDelete(c), UNCHANGED <<catPage, catAstray, catAsked>>
  PROVE  CatTruth'
  <1>0. CatStored /\ CatHonest(c) /\ {"what", "for"} \subseteq DOMAIN c /\ c.what = "delete"
    BY DEF CatFull, CatTruth, CatIInv, CatRequest, CatDelete
  <1>1. PICK s, d :
          /\ s \in c.todo
          /\ catRows' = Restrict(catRows, DOMAIN catRows \ {s})
          /\ d = [c EXCEPT !.todo = @ \ {s}] /\ CatWrites(c, d, {s})
    BY DEF CatDelete
  <1>2. UNCHANGED <<catNoted, catLost>>
    BY DEF CatDelete
  <1>3. DOMAIN catRows' = DOMAIN catRows \ {s} /\ \A t \in DOMAIN catRows' : catRows'[t] = catRows[t]
    BY <1>1 DEF Restrict
  <1>4. CatTouches({s})
    BY <1>2, <1>3 DEF CatTouches
  <1>5. /\ {"ids", "todo", "alone", "broken"} \subseteq DOMAIN d /\ d.what = "delete" /\ d.ids = c.ids
        /\ d.todo = c.todo \ {s} /\ d.alone = c.alone /\ d.broken = c.broken
    BY <1>0, <1>1 DEF CatHonest
  <1>6. CatHonest(d)'
    BY <1>0, <1>1, <1>3, <1>5 DEF CatHonest
  <1>7. PICK T : T = CatWritten(catCalls \ {c}, {s})
    OBVIOUS
  <1>8. /\ \A x \in T : CatHonest(x)'
        /\ \A x \in catCalls \ {c} : \E y \in T : CatKin(x, y)
    BY <1>4, <1>7, CatOthers
  <1>9. catCalls' = T \cup {d}
    BY <1>1, <1>7 DEF CatWrites
  <1>10. CatMirrors'
    <2>1. CatKin(c, d)
      BY <1>0, <1>5 DEF CatKin
    <2>2. \A x \in catCalls : \E y \in catCalls' : CatKin(x, y)
      BY <1>8, <1>9, <2>1
    <2>3. s \in CatGone'
      BY <1>0, <1>1, <1>5, <1>9 DEF CatGone, CatHonest
    <2> QED
      BY <1>3, <2>2, <2>3, CatMirrorsStay
  <1>11. CatReported'
    BY <1>0, CatAnnounced
  <1>12. CatStored' /\ BreakingReported'
    <2>1. IsFiniteSet(DOMAIN catRows')
      BY <1>0, <1>3, FS_Subset DEF CatStored
    <2> QED
      BY <1>0, <1>2, <1>3, <2>1 DEF CatFull, CatTruth, CatStored, BreakingReported
  <1> QED
    BY <1>6, <1>8, <1>9, <1>10, <1>11, <1>12 DEF CatTruth

LEMMA CatServeTrue ==
  ASSUME CatFull, NEW c \in catCalls, CatServe(c)
  PROVE  CatTruth'
  <1>1. UNCHANGED <<catPage, catAstray, catAsked>>
    BY DEF CatServe
  <1>2. CASE CatSync(c)
    <2>1. ASSUME c.what = "sync", c.jobs # None, NEW j \in c.jobs, CatRefuse(c, j) \/ CatNote(c, j) \/ CatStore(c, j)
          PROVE  CatTruth'
      BY <1>1, <2>1, CatRefuseTrue, CatNoteTrue, CatStoreTrue
    <2> QED
      BY <1>1, <1>2, <2>1, CatReadRowsTrue, CatReachTrue DEF CatSync
  <1> QED
    BY <1>1, <1>2, CatReadListTrue, CatUpsertTrue, CatBulkUpsertTrue, CatReflectTrue, CatKeepTrue, CatDeleteTrue
       DEF CatServe


(* A request that is awaited, or no longer.                                *)
CatAlias(c, d) == d = c \/ (c.for \in {"form", "import", "try"} /\ d = [c EXCEPT !.for = "none"])

LEMMA CatAliasKin ==
  ASSUME NEW c, {"what", "for"} \subseteq DOMAIN c, NEW d, CatAlias(c, d), CatHonest(c)'
  PROVE  CatKin(c, d) /\ d.what = c.what
  <1>1. /\ c.what = "delete" => "ids" \in DOMAIN c
        /\ c.what = "found" => "failed" \in DOMAIN c
    BY DEF CatHonest
  <1> QED
    BY <1>1 DEF CatAlias, CatKin

LEMMA CatAliasHonest ==
  ASSUME NEW c, {"what", "for"} \subseteq DOMAIN c, NEW d, CatAlias(c, d), CatHonest(c)'
  PROVE  CatHonest(d)'
  <1>1. CASE d = c
    BY <1>1
  <1>2. CASE d # c
    <2>1. c.for # "all" /\ d = [c EXCEPT !.for = "none"]
      BY <1>2 DEF CatAlias
    <2>2. DOMAIN d = DOMAIN c /\ d.for = "none" /\ \A f \in DOMAIN c \ {"for"} : d[f] = c[f]
      BY <2>1
    <2>3. CASE c.what = "list"
      BY <2>2, <2>3 DEF CatHonest
    <2>4. CASE c.what = "sync"
      <3>1. {"jobs", "report", "failed", "id", "rest"} \subseteq DOMAIN c
        BY <2>4 DEF CatHonest
      <3>2. d.what = "sync" /\ d.jobs = c.jobs /\ d.report = c.report
        BY <2>2, <2>4, <3>1
      <3>3. CatTallied(c)' /\ c.report \in CatReport /\ (c.jobs # None => CatJobsTrue(c.jobs)')
        BY <2>4 DEF CatHonest
      <3>4. CatTallied(d)'
        BY <3>2, <3>3 DEF CatTallied
      <3> QED
        BY <2>2, <3>1, <3>2, <3>3, <3>4 DEF CatHonest
    <2>5. CASE c.what \in {"delete", "discover", "found"}
      BY <2>2, <2>5 DEF CatHonest
    <2>6. CASE c.what = "import"
      <3>1. d.what = "import" /\ (DOMAIN c.rows \subseteq CatGrpc \/ DOMAIN c.rows \subseteq CatRest)
        BY <2>2, <2>6 DEF CatHonest
      <3>2. d.rows = c.rows
        BY <2>1, <2>6
      <3> QED
        BY <3>1, <3>2 DEF CatHonest
    <2>7. CASE c.what \notin {"list", "sync", "delete", "discover", "found", "import"}
      BY <2>2, <2>7 DEF CatHonest
    <2> QED
      BY <2>3, <2>4, <2>5, <2>6, <2>7
  <1> QED
    BY <1>1, <1>2

(* What a form or the drawer changes in the requests.                      *)
CatAliases(asks) ==
  /\ \A d \in catCalls' : \E c \in asks : CatAlias(c, d)
  /\ \A c \in asks : \E d \in catCalls' : CatAlias(c, d)

LEMMA CatShowAliases ==
  ASSUME NEW f, NEW asks, CatShow(f, asks)
  PROVE  CatAliases(asks)
  <1> DEFINE N(c) == IF \/ CatForm(f) # CatForm(catForms) /\ c.for = "form"
                        \/ c.for = "import" /\ ~(f.import /\ catForms.import)
                     THEN [c EXCEPT !.for = "none"] ELSE c
  <1>1. catCalls' = { N(c) : c \in asks }
    BY DEF CatShow
  <1>2. \A c : CatAlias(c, N(c))
    BY DEF CatAlias
  <1> HIDE DEF N
  <1> QED
    BY <1>1, <1>2 DEF CatAliases

LEMMA CatDrawAliases ==
  ASSUME NEW d, NEW rows, NEW asks, CatDraw(d, rows, asks)
  PROVE  CatAliases(asks)
  <1> DEFINE N(c) == IF c.for = "try" THEN [c EXCEPT !.for = "none"] ELSE c
  <1>1. catCalls' = asks \/ catCalls' = { N(c) : c \in asks }
    BY DEF CatDraw
  <1>2. \A c : CatAlias(c, N(c)) /\ CatAlias(c, c)
    BY DEF CatAlias
  <1> HIDE DEF N
  <1> QED
    BY <1>1, <1>2 DEF CatAliases

LEMMA CatSameAliases ==
  ASSUME NEW asks, catCalls' = asks
  PROVE  CatAliases(asks)
  BY DEF CatAliases, CatAlias

(* An answer: the requests are what they were, or as honest.               *)
LEMMA CatAnswered ==
  ASSUME CatFull, NEW c \in catCalls, UNCHANGED <<catServer, catAsked>>,
         NEW asks, CatAliases(asks),
         \A x \in asks : x \in catCalls \ {c} \/ ({"what", "for"} \subseteq DOMAIN x /\ CatHonest(x)'),
         CatMirrors', CatReported'
  PROVE  CatTruth'
  <1>1. UNCHANGED <<catRows, catNoted, catLost, catAsked>>
    BY DEF catServer
  <1>2. \A x \in asks : {"what", "for"} \subseteq DOMAIN x /\ CatHonest(x)'
    BY <1>1, CatSpectators DEF CatFull, CatIInv, CatRequest
  <1>3. \A d \in catCalls' : CatHonest(d)'
    BY <1>2, CatAliasHonest DEF CatAliases
  <1>4. CatStored' /\ BreakingReported'
    BY <1>1 DEF CatFull, CatTruth, CatStored, BreakingReported
  <1> QED
    BY <1>3, <1>4 DEF CatTruth

(* ... and when it is not followed by anything, or by a load.              *)
LEMMA CatNotSeen ==
  ASSUME CatFull, NEW c \in catCalls, UNCHANGED <<catServer, catAsked>>, catAstray => catAstray',
         NEW asks, CatAliases(asks), catCalls \ {c} \subseteq asks,
         \A x \in asks : x \in catCalls \ {c} \/ ({"what", "for"} \subseteq DOMAIN x /\ CatHonest(x)'),
         catPage'.rows = catPage.rows,
         \/ \E x \in asks : CatDirty(x)
         \/ catAstray'
         \/ catPage'.filter = catPage.filter /\ ((~CatDirty(c) /\ c.what # "delete") \/ \E x \in asks : CatKin(c, x)),
         CatReported'
  PROVE  CatTruth'
  <1>0. UNCHANGED <<catRows, catNoted, catLost, catAsked>>
    BY DEF catServer
  <1>1. \A x \in asks : {"what", "for"} \subseteq DOMAIN x /\ CatHonest(x)'
    BY <1>0, CatSpectators DEF CatFull, CatIInv, CatRequest
  <1>2. \A x \in asks : \E d \in catCalls' : CatKin(x, d)
    BY <1>1, CatAliasKin DEF CatAliases
  <1>3. CASE \E x \in asks : CatDirty(x)
    <2>1. \E d \in catCalls' : CatDirty(d)
      BY <1>2, <1>3, CatKinDirty
    <2>2. CatMirrors'
      BY <2>1, CatAwaits
    <2> QED
      BY <2>2, CatAnswered
  <1>4. CASE catAstray'
    <2>1. CatMirrors'
      BY <1>4 DEF CatMirrors
    <2> QED
      BY <2>1, CatAnswered
  <1>5. CASE catPage'.filter = catPage.filter /\ ((~CatDirty(c) /\ c.what # "delete") \/ \E x \in asks : CatKin(c, x))
    <2>1. \A x \in catCalls \ {c} : \E d \in catCalls' : CatKin(x, d)
      BY <1>2
    <2>2. (\E d \in catCalls' : CatKin(c, d)) \/ (~CatDirty(c) /\ c.what # "delete")
      <3>1. ASSUME NEW x \in asks, CatKin(c, x) PROVE \E d \in catCalls' : CatKin(c, d)
        <4>1. PICK d \in catCalls' : CatKin(x, d)
          BY <1>2
        <4>2. CatKin(c, d)
          BY <3>1, <4>1 DEF CatKin
        <4> QED
          BY <4>2
      <3> QED
        BY <1>5, <3>1
    <2>3. CatMirrors'
      BY <1>0, <1>5, <2>1, <2>2, CatMirrorsStay
    <2> QED
      BY <2>3, CatAnswered
  <1> QED
    BY <1>3, <1>4, <1>5


LEMMA CatReportStays ==
  ASSUME CatFull, NEW c \in catCalls, UNCHANGED <<catServer, catAsked>>, catPage'.report = catPage.report,
         NEW asks, CatAliases(asks),
         \A x \in asks : x \in catCalls \ {c} \/ ({"what", "for"} \subseteq DOMAIN x /\ CatHonest(x)'),
         \/ c.what \notin {"list", "coverage"}
         \/ \A x \in asks : x \in catCalls \/ x.what = "coverage"
  PROVE  CatReported'
  <1>0. UNCHANGED <<catRows, catNoted, catLost, catAsked>>
    BY DEF catServer
  <1>1. \A x \in asks : {"what", "for"} \subseteq DOMAIN x /\ CatHonest(x)'
    BY <1>0, CatSpectators DEF CatFull, CatIInv, CatRequest
  <1>2. \A d \in catCalls' : \E x \in asks : d.what = x.what
    BY <1>1, CatAliasKin DEF CatAliases
  <1>3. CASE c.what \notin {"list", "coverage"}
    BY <1>0, <1>3, CatAnnounced
  <1>4. CASE \A x \in asks : x \in catCalls \/ x.what = "coverage"
    <2>1. CatErrors({})' = CatErrors({})
      BY <1>0 DEF CatErrors
    <2>2. (\A x \in catCalls : x.what \in {"list", "coverage"}) => \A d \in catCalls' : d.what \in {"list", "coverage"}
      BY <1>2, <1>4
    <2> QED
      BY <1>0, <2>1, <2>2 DEF CatFull, CatTruth, CatReported
  <1> QED
    BY <1>3, <1>4

LEMMA CatListHonest ==
  ASSUME NEW n, NEW for, NEW filter, NEW c, c = CatList(n, for, filter)
  PROVE  CatHonest(c)' /\ CatDirty(c) /\ {"what", "for"} \subseteq DOMAIN c /\ c.what = "list"
  <1>1. /\ DOMAIN c = {"what", "n", "for", "filter", "rows", "good"} /\ c.what = "list" /\ c.rows = None
    BY DEF CatList
  <1> QED
    BY <1>1 DEF CatHonest, CatDirty

LEMMA CatSyncHonest ==
  ASSUME NEW n, NEW for, for # "all", NEW filter, NEW id, NEW rest, catCalls # {},
         NEW c, c = CatSyncCall(n, for, filter, id, rest)
  PROVE  CatHonest(c)' /\ CatDirty(c) /\ {"what", "for"} \subseteq DOMAIN c /\ c.what = "sync"
  <1>1. /\ DOMAIN c = {"what", "n", "for", "filter", "id", "rest", "jobs", "failed", "report"}
        /\ c.what = "sync" /\ c.for = for /\ c.jobs = None
        /\ c.report = [total |-> 0, synced |-> 0, failed |-> 0, n |-> 0]
    BY DEF CatSyncCall
  <1>2. c.report \in CatReport /\ c.report.total = 0 /\ c.report.synced = 0 /\ c.report.failed = 0
    BY <1>1 DEF CatReport
  <1> QED
    BY <1>1, <1>2 DEF CatHonest, CatDirty, CatTallied

LEMMA CatOverTrue ==
  ASSUME CatFull, NEW c \in catCalls, NEW astray, CatOver(c, astray), UNCHANGED <<catServer, catAsked>>,
         astray = TRUE \/ (astray = FALSE /\ ~CatDirty(c) /\ c.what # "delete")
  PROVE  CatTruth'
  <1>1. catPage'.rows = catPage.rows /\ catPage'.filter = catPage.filter /\ catPage'.report = catPage.report
    BY DEF CatOver, CatReleased, CatFull, CatIInv, CatShapes, CatPageFields
  <1>2. PICK asks : asks = catCalls \ {c}
    OBVIOUS
  <1>3. CatAliases(asks) /\ \A x \in asks : x \in catCalls \ {c}
    BY <1>2, CatSameAliases DEF CatOver
  <1>4. catAstray' = (catAstray \/ astray)
    BY DEF CatOver
  <1>5. CatReported'
    BY <1>1, <1>2, <1>3, CatReportStays
  <1> QED
    BY <1>1, <1>2, <1>3, <1>4, <1>5, CatNotSeen

LEMMA CatListedTrue ==
  ASSUME CatFull, NEW c \in catCalls, NEW rows, NEW good, CatListed(c, rows, good), UNCHANGED <<catServer, catAsked>>,
         good => rows = CatOf(catRows, c.filter), c.what = "list"
  PROVE  CatTruth'
  <1>1. PICK e, asks : /\ e = [what |-> "coverage", n |-> c.n, for |-> c.for]
                       /\ asks = (catCalls \ {c}) \cup {e}
    OBVIOUS
  <1>2. e.what = "coverage" /\ {"what", "for"} \subseteq DOMAIN e
    BY <1>1
  <1>3. CatHonest(e)'
    BY <1>2 DEF CatHonest
  <1>4. CatAliases(asks)
    <2>1. PICK d : CatDraw(d, rows, asks)
      BY <1>1 DEF CatListed
    <2> QED
      BY <2>1, CatDrawAliases
  <1>5. \A x \in asks : x \in catCalls \ {c} \/ ({"what", "for"} \subseteq DOMAIN x /\ CatHonest(x)')
    BY <1>1, <1>2, <1>3
  <1>6. catPage'.rows = rows /\ catPage'.filter = catPage.filter /\ catPage'.report = catPage.report
    BY DEF CatListed, CatFull, CatIInv, CatShapes, CatPageFields
  <1>7. CatReported'
    BY <1>1, <1>2, <1>4, <1>5, <1>6, CatReportStays
  <1>8. CatMirrors'
    <2>1. ASSUME ~catAstray' PROVE good /\ c.filter = catPage.filter
      BY <2>1 DEF CatListed
    <2>2. ASSUME ~catAstray' PROVE catPage'.rows = CatOf(catRows', catPage'.filter)
      BY <1>6, <2>1, <2>2 DEF catServer
    <2>3. ASSUME ~catAstray' PROVE catPage'.rows = [s \in DOMAIN catPage'.rows |-> catPage'.rows[s]]
      BY <2>2, <2>3 DEF CatOf, Restrict
    <2> QED
      BY <2>2, <2>3 DEF CatMirrors
  <1> QED
    BY <1>4, <1>5, <1>7, <1>8, CatAnswered

(* A request with one that is as honest in its place.                      *)
LEMMA CatFollowed ==
  ASSUME CatFull, NEW c \in catCalls, UNCHANGED <<catServer, catAsked>>, catAstray' = catAstray,
         NEW d, {"what", "for"} \subseteq DOMAIN d, CatHonest(d)', CatDirty(d),
         NEW asks, asks = (catCalls \ {c}) \cup {d}, CatAliases(asks), catPage'.rows = catPage.rows, CatReported'
  PROVE  CatTruth'
  <1>1. \A x \in asks : x \in catCalls \ {c} \/ ({"what", "for"} \subseteq DOMAIN x /\ CatHonest(x)')
    OBVIOUS
  <1>2. catCalls \ {c} \subseteq asks /\ \E x \in asks : CatDirty(x)
    OBVIOUS
  <1> QED
    BY <1>1, <1>2, CatNotSeen

LEMMA CatGoesOnTrue ==
  ASSUME CatFull, NEW c \in catCalls, NEW p, CatGoesOn(c, p), UNCHANGED <<catServer, catAsked>>,
         p.rows = catPage.rows, DOMAIN p = CatPageFields, CatReported'
  PROVE  CatTruth'
  <1>1. catAstray' = catAstray
    BY DEF CatGoesOn
  <1>2. CASE c.for = "group" /\ c.rest # {}
    <2>1. PICK s : catCalls' = (catCalls \ {c}) \cup {CatSyncCall(c.n, c.for, c.filter, s, c.rest \ {s})}
      BY <1>2 DEF CatGoesOn
    <2>2. PICK d : d = CatSyncCall(c.n, c.for, c.filter, s, c.rest \ {s})
      OBVIOUS
    <2>3. c.for # "all" /\ catCalls # {}
      BY <1>2
    <2>4. CatHonest(d)' /\ CatDirty(d) /\ {"what", "for"} \subseteq DOMAIN d
      BY <2>2, <2>3, CatSyncHonest
    <2>5. PICK asks : asks = (catCalls \ {c}) \cup {d}
      OBVIOUS
    <2>6. CatAliases(asks)
      BY <2>1, <2>2, <2>5, CatSameAliases
    <2>7. catPage'.rows = catPage.rows
      BY <1>2 DEF CatGoesOn
    <2> QED
      BY <1>1, <2>4, <2>5, <2>6, <2>7, CatFollowed
  <1>3. CASE ~(c.for = "group" /\ c.rest # {})
    <2>1. catPage' = [p EXCEPT !.loading = TRUE] /\ catCalls' = (catCalls \ {c}) \cup {CatList(c.n, c.for, c.filter)}
      BY <1>3 DEF CatGoesOn, CatLoad
    <2>2. PICK d : d = CatList(c.n, c.for, c.filter)
      OBVIOUS
    <2>4. CatHonest(d)' /\ CatDirty(d) /\ {"what", "for"} \subseteq DOMAIN d
      BY <2>2, CatListHonest
    <2>5. PICK asks : asks = (catCalls \ {c}) \cup {d}
      OBVIOUS
    <2>6. CatAliases(asks)
      BY <2>1, <2>2, <2>5, CatSameAliases
    <2>7. catPage'.rows = catPage.rows
      BY <2>1 DEF CatPageFields
    <2> QED
      BY <1>1, <2>4, <2>5, <2>6, <2>7, CatFollowed
  <1> QED
    BY <1>2, <1>3

(* The same report, after a request that is not a load.                    *)
LEMMA CatGoesOnSilently ==
  ASSUME CatFull, NEW c \in catCalls, CatGoesOn(c, catPage), UNCHANGED <<catServer, catAsked>>,
         c.what \notin {"list", "coverage"}
  PROVE  CatTruth'
  <1>1. catPage'.report = catPage.report /\ DOMAIN catPage = CatPageFields
    BY DEF CatGoesOn, CatLoad, CatFull, CatIInv, CatShapes, CatPageFields
  <1>2. CatReported'
    BY <1>1, CatAnnounced
  <1> QED
    BY <1>1, <1>2, CatGoesOnTrue

LEMMA CatSyncedTrue ==
  ASSUME CatFull, NEW c \in catCalls, CatSynced(c), UNCHANGED <<catServer, catAsked>>
  PROVE  CatTruth'
  <1>0. CatHonest(c) /\ c.what = "sync" /\ c.jobs = {} /\ c.jobs # None
    BY CatAssumption DEF CatFull, CatTruth, CatSynced
  <1>1. CASE c.for = "one" /\ c.failed
    <2>1. CatOver(c, TRUE)
      BY <1>1 DEF CatSynced
    <2> QED
      BY <2>1, CatOverTrue
  <1>2. CASE ~(c.for = "one" /\ c.failed) /\ c.for # "all"
    <2>1. CatGoesOn(c, catPage)
      BY <1>2 DEF CatSynced
    <2> QED
      BY <1>0, <2>1, CatGoesOnSilently
  <1>3. CASE c.for = "all"
    <2>1. PICK p : p = [catPage EXCEPT !.report = c.report] /\ CatGoesOn(c, p)
      BY <1>3 DEF CatSynced
    <2>2. DOMAIN p = CatPageFields /\ p.rows = catPage.rows /\ p.report = c.report
      BY <2>1 DEF CatFull, CatIInv, CatShapes, CatPageFields
    <2>3. catPage' = [p EXCEPT !.loading = TRUE] /\ catCalls' = (catCalls \ {c}) \cup {CatList(c.n, c.for, c.filter)}
      BY <1>3, <2>1 DEF CatGoesOn, CatLoad
    <2>4. catPage'.report = c.report
      BY <2>2, <2>3 DEF CatPageFields
    <2>5. PICK d : d = CatList(c.n, c.for, c.filter)
      OBVIOUS
    <2>6. d.what = "list"
      BY <2>5, CatListHonest
    <2>7. CatIds(c.jobs) = {} /\ Cardinality({}) = 0
      BY <1>0, FS_EmptySet DEF CatIds
    <2>8. c.report \in CatReport /\ c.report.total = c.report.synced + c.report.failed /\ CatQuiet(c)
      BY <1>0, <1>3, <2>7 DEF CatHonest, CatTallied, CatReport
    <2>9. CatReported'
      <3>1. UNCHANGED <<catRows, catAsked>>
        BY DEF catServer
      <3>2. 0 < catAsked' /\ c.report.n <= catAsked'
        BY <2>8, <3>1 DEF CatQuiet
      <3>3. ASSUME c.report.n = catAsked'
            PROVE  /\ \A x \in catCalls' : x.what \in {"list", "coverage"}
                   /\ (c.report.failed = Cardinality(CatErrors({})))'
        <4>1. catCalls = {c} /\ c.report.failed = Cardinality(CatErrors({}))
          BY <1>0, <2>7, <2>8, <3>1, <3>3 DEF CatQuiet
        <4>2. catCalls' = {d}
          BY <2>3, <2>5, <4>1
        <4>3. CatErrors({})' = CatErrors({})
          BY <3>1 DEF CatErrors
        <4> QED
          BY <2>6, <4>1, <4>2, <4>3
      <3> QED
        BY <2>4, <2>8, <3>2, <3>3 DEF CatReported
    <2> QED
      BY <2>1, <2>2, <2>9, CatGoesOnTrue
  <1> QED
    BY <1>1, <1>2, <1>3


LEMMA CatClosedTrue ==
  ASSUME CatFull, NEW c \in catCalls, NEW f, NEW n, NEW asks, CatClosed(c, f, asks), asks = (catCalls \ {c}) \cup {n},
         UNCHANGED <<catServer, catAsked>>, c.what \notin {"list", "coverage"},
         {"what", "for"} \subseteq DOMAIN n, CatHonest(n)', CatDirty(n)
  PROVE  CatTruth'
  <1>1. PICK loading : catPage' = [catPage EXCEPT !.loading = loading]
    BY DEF CatClosed
  <1>2. catPage'.rows = catPage.rows /\ catPage'.report = catPage.report
    BY <1>1 DEF CatFull, CatIInv, CatShapes, CatPageFields
  <1>3. CatAliases(asks) /\ catAstray' = catAstray
    BY CatShowAliases DEF CatClosed
  <1>4. CatReported'
    BY <1>2, CatAnnounced
  <1> QED
    BY <1>2, <1>3, <1>4, CatFollowed

LEMMA CatKeptTrue ==
  ASSUME CatFull, NEW c \in catCalls, CatKept(c), UNCHANGED <<catServer, catAsked>>
  PROVE  CatTruth'
  <1>1. PICK load : load = CatList(c.n, "none", c.filter)
    OBVIOUS
  <1>2. CatHonest(load)' /\ CatDirty(load) /\ {"what", "for"} \subseteq DOMAIN load
    BY <1>1, CatListHonest
  <1>3. CASE c.what = "saved"
    <2>1. PICK n, f : /\ n = IF c.edit # None THEN CatSyncCall(c.n, "none", c.filter, c.edit, {}) ELSE load
                      /\ CatClosed(c, f, (catCalls \ {c}) \cup {n})
      BY <1>1, <1>3 DEF CatKept
    <2>2. CatHonest(n)' /\ CatDirty(n) /\ {"what", "for"} \subseteq DOMAIN n
      <3>1. CASE n = load
        BY <1>2, <3>1
      <3>2. CASE n = CatSyncCall(c.n, "none", c.filter, c.edit, {})
        <4>1. "none" # "all" /\ catCalls # {}
          OBVIOUS
        <4> QED
          BY <3>2, <4>1, CatSyncHonest
      <3> QED
        BY <2>1, <3>1, <3>2
    <2> QED
      BY <1>3, <2>1, <2>2, CatClosedTrue
  <1>4. CASE (c.what = "found" /\ ~c.failed) \/ c.what = "imported"
    <2>1. PICK f : CatClosed(c, f, (catCalls \ {c}) \cup {load})
      BY <1>1, <1>4 DEF CatKept
    <2> QED
      BY <1>2, <1>4, <2>1, CatClosedTrue
  <1>5. CASE c.what = "found" /\ c.failed
    <2>1. CatOver(c, FALSE)
      BY <1>5 DEF CatKept
    <2>2. ~CatDirty(c) /\ c.what # "delete"
      BY <1>5 DEF CatDirty
    <2> QED
      BY <2>1, <2>2, CatOverTrue
  <1> QED
    BY <1>3, <1>4, <1>5 DEF CatKept

LEMMA CatQuietlyOver ==
  ASSUME CatFull, NEW c \in catCalls, UNCHANGED <<catServer, catAsked, catAstray, catPage>>,
         catCalls' = catCalls \ {c}, c.what \in {"preview", "invoke"}
  PROVE  CatTruth'
  <1>1. PICK asks : asks = catCalls \ {c}
    OBVIOUS
  <1>2. CatAliases(asks) /\ \A x \in asks : x \in catCalls \ {c}
    BY <1>1, CatSameAliases
  <1>3. ~CatDirty(c) /\ c.what # "delete" /\ c.what \notin {"list", "coverage"}
    BY DEF CatDirty
  <1>4. CatReported'
    BY <1>3, CatAnnounced
  <1> QED
    BY <1>1, <1>2, <1>3, <1>4, CatNotSeen

LEMMA CatDeletedTrue ==
  ASSUME CatFull, NEW c \in catCalls, CatDeleted(c), UNCHANGED <<catServer, catAsked>>
  PROVE  CatTruth'
  <1>0. CatHonest(c) /\ c.what = "delete" /\ c.todo = {} /\ UNCHANGED catRows
    BY DEF CatFull, CatTruth, CatDeleted, catServer
  <1>1. PICK gone, rows, asks :
          /\ rows = Restrict(catPage.rows, DOMAIN catPage.rows \ gone)
          /\ asks = catCalls \ {c}
          /\ catPage' = [catPage EXCEPT !.rows = rows] /\ CatDraw(catDrawer, rows, asks)
          /\ catAstray' = (\/ catAstray \/ c.broken \/ ~c.alone
                           \/ gone \cap DOMAIN catPage.rows # c.ids \cap DOMAIN catPage.rows)
    BY DEF CatDeleted
  <1>2. catPage'.rows = rows /\ catPage'.filter = catPage.filter /\ catPage'.report = catPage.report
    BY <1>1 DEF CatFull, CatIInv, CatShapes, CatPageFields
  <1>3. CatAliases(asks) /\ \A x \in asks : x \in catCalls \ {c}
    BY <1>1, CatDrawAliases
  <1>4. CatReported'
    BY <1>0, <1>2, CatAnnounced
  <1>5. \A x \in catCalls \ {c} : \E d \in catCalls' : CatKin(x, d)
    <2>1. \A x \in catCalls \ {c} : {"what", "for"} \subseteq DOMAIN x /\ CatHonest(x)'
      BY CatSpectators DEF CatFull, CatIInv, CatRequest, catServer
    <2> QED
      BY <1>1, <1>3, <2>1, CatAliasKin DEF CatAliases
  <1>6. CatMirrors'
    <2>1. CASE catAstray'
      BY <2>1 DEF CatMirrors
    <2>2. CASE ~catAstray'
      <3>1. /\ ~catAstray /\ ~c.broken /\ c.alone
            /\ gone \cap DOMAIN catPage.rows = c.ids \cap DOMAIN catPage.rows
        BY <1>1, <2>2
      <3>2. c.ids \cap DOMAIN catRows = {}
        BY <1>0, <3>1 DEF CatHonest
      <3>3. /\ DOMAIN rows = DOMAIN catPage.rows \ gone
            /\ \A s \in DOMAIN rows : rows[s] = catPage.rows[s]
            /\ rows = [s \in DOMAIN rows |-> rows[s]]
        BY <1>1 DEF Restrict
      <3>4. ASSUME \A d \in catCalls' : ~CatDirty(d),
                   NEW of, of = CatOf(catRows, catPage.filter),
                   NEW s \in (DOMAIN rows \cup DOMAIN of) \ CatGone'
            PROVE  s \in DOMAIN rows /\ s \in DOMAIN of /\ rows[s] = of[s]
        <4>1. \A x \in catCalls : ~CatDirty(x)
          <5>1. ~CatDirty(c)
            BY <1>0 DEF CatDirty
          <5> QED
            BY <1>5, <3>4, <5>1, CatKinDirty
        <4>2. CatGone \subseteq CatGone' \cup c.ids
          BY <1>5 DEF CatGone, CatKin
        <4>3. \A t \in (DOMAIN catPage.rows \cup DOMAIN of) \ CatGone :
                t \in DOMAIN catPage.rows /\ t \in DOMAIN of /\ catPage.rows[t] = of[t]
          BY <3>1, <3>4, <4>1 DEF CatFull, CatTruth, CatMirrors
        <4>4. DOMAIN of \subseteq DOMAIN catRows
          BY <3>4 DEF CatOf, Restrict
        <4>5. s \notin c.ids
          BY <3>1, <3>2, <3>3, <3>4, <4>4
        <4>6. s \notin CatGone
          BY <3>4, <4>2, <4>5
        <4>7. s \in DOMAIN catPage.rows /\ s \in DOMAIN of /\ catPage.rows[s] = of[s]
          BY <3>3, <3>4, <4>3, <4>6
        <4>8. s \in DOMAIN rows
          BY <3>1, <3>3, <4>5, <4>7
        <4> QED
          BY <3>3, <4>7, <4>8
      <3> QED
        BY <1>0, <1>2, <3>3, <3>4 DEF CatMirrors, CatOf
    <2> QED
      BY <2>1, <2>2
  <1> QED
    BY <1>3, <1>4, <1>6, CatAnswered

LEMMA CatArrivesTrue ==
  ASSUME CatFull, NEW c \in catCalls, CatArrives(c), UNCHANGED <<catServer, catAsked>>
  PROVE  CatTruth'
  <1>0. CatHonest(c)
    BY DEF CatFull, CatTruth
  <1>1. CASE c.what = "list" /\ c.rows # None /\ CatListed(c, c.rows, c.good)
    <2>1. c.good => c.rows = CatOf(catRows, c.filter)
      BY <1>0, <1>1 DEF CatHonest
    <2>2. PICK rows, good : rows = c.rows /\ good = c.good
      OBVIOUS
    <2>3. CatListed(c, rows, good) /\ (good => rows = CatOf(catRows, c.filter))
      BY <1>1, <2>1, <2>2
    <2> QED
      BY <1>1, <2>3, CatListedTrue
  <1>2. CASE c.what = "coverage" /\ CatOver(c, FALSE)
    <2>1. ~CatDirty(c) /\ c.what # "delete"
      BY <1>2 DEF CatDirty
    <2> QED
      BY <1>2, <2>1, CatOverTrue
  <1>3. CASE c.what = "health" /\ CatGoesOn(c, catPage)
    BY <1>3, CatGoesOnSilently
  <1>4. CASE CatPreviewed(c) \/ CatInvoked(c)
    BY <1>4, CatQuietlyOver DEF CatPreviewed, CatInvoked
  <1> QED
    BY <1>1, <1>2, <1>3, <1>4, CatSyncedTrue, CatKeptTrue, CatDeletedTrue DEF CatArrives

LEMMA CatFailsTrue ==
  ASSUME CatFull, NEW c \in catCalls, CatFails(c), UNCHANGED <<catServer, catAsked>>
  PROVE  CatTruth'
  <1>0. CatHonest(c) /\ {"what", "for"} \subseteq DOMAIN c
    BY DEF CatFull, CatTruth, CatIInv, CatRequest
  <1>1. CASE c.what = "list" /\ CatListed(c, << >>, FALSE)
    BY <1>1, CatListedTrue
  <1>2. CASE c.what = "sync" /\ c.for \in {"group", "none"} /\ CatGoesOn(c, catPage)
    BY <1>2, CatGoesOnSilently
  <1>3. CASE CatOver(c, TRUE)
    BY <1>3, CatOverTrue
  <1>4. CASE c.what \in {"health", "coverage", "preview"} /\ CatOver(c, FALSE)
    <2>1. ~CatDirty(c) /\ c.what # "delete"
      BY <1>4 DEF CatDirty
    <2> QED
      BY <1>4, <2>1, CatOverTrue
  <1>5. CASE /\ c.what = "sync" /\ c.for = "all"
             /\ catPage' = [catPage EXCEPT !.syncing = FALSE,
                                           !.report = [total |-> 0, synced |-> 0, failed |-> 0, n |-> 0]]
             /\ catCalls' = catCalls \ {c} /\ catAstray' = TRUE
    <2>1. PICK asks : asks = catCalls \ {c}
      OBVIOUS
    <2>2. CatAliases(asks) /\ \A x \in asks : x \in catCalls \ {c}
      BY <1>5, <2>1, CatSameAliases
    <2>3. catPage'.report = [total |-> 0, synced |-> 0, failed |-> 0, n |-> 0]
      BY <1>5 DEF CatFull, CatIInv, CatShapes, CatPageFields
    <2>4. 0 < catAsked' /\ catAsked' \in Nat
      BY <1>0, <1>5 DEF CatHonest, CatQuiet, CatFull, CatTruth, CatStored
    <2>5. CatReported'
      BY <2>3, <2>4 DEF CatReported, CatReport
    <2>6. CatMirrors'
      BY <1>5 DEF CatMirrors
    <2> QED
      BY <2>2, <2>5, <2>6, CatAnswered
  <1>6. CASE /\ c.what = "delete" /\ UNCHANGED <<catForms, catDrawer, catAstray>>
             /\ \E s \in c.todo :
                  LET d == [c EXCEPT !.todo = @ \ {s}, !.broken = TRUE]
                  IN  IF c.target = None \/ c.broken THEN catPage' = catPage /\ CatBecomes(c, d)
                      ELSE CatLoad(c, catPage, (catCalls \ {c}) \cup {d})
    <2>1. PICK s, d : /\ s \in c.todo /\ d = [c EXCEPT !.todo = @ \ {s}, !.broken = TRUE]
                      /\ \/ catPage' = catPage /\ CatBecomes(c, d)
                         \/ CatLoad(c, catPage, (catCalls \ {c}) \cup {d})
      BY <1>6
    <2>2. /\ {"ids", "todo", "alone", "broken"} \subseteq DOMAIN d /\ d.what = "delete" /\ d.ids = c.ids
          /\ d.todo = c.todo \ {s} /\ d.broken = TRUE /\ {"what", "for"} \subseteq DOMAIN d
      BY <1>0, <1>6, <2>1 DEF CatHonest
    <2>3. CatHonest(d)' /\ CatKin(c, d)
      BY <1>0, <1>6, <2>2 DEF CatHonest, CatKin
    <2>4. CASE catPage' = catPage /\ CatBecomes(c, d)
      <3>1. PICK asks : asks = (catCalls \ {c}) \cup {d}
        OBVIOUS
      <3>2. CatAliases(asks)
        BY <2>4, <3>1, CatSameAliases DEF CatBecomes
      <3>3. CatReported'
        BY <1>6, <2>4, CatAnnounced
      <3> QED
        BY <1>6, <2>2, <2>3, <2>4, <3>1, <3>2, <3>3, CatNotSeen
    <2>5. CASE CatLoad(c, catPage, (catCalls \ {c}) \cup {d})
      <3>1. PICK load, asks : load = CatList(c.n, c.for, c.filter) /\ asks = ((catCalls \ {c}) \cup {d}) \cup {load}
        OBVIOUS
      <3>2. CatHonest(load)' /\ CatDirty(load) /\ {"what", "for"} \subseteq DOMAIN load
        BY <3>1, CatListHonest
      <3>3. CatAliases(asks)
        BY <2>5, <3>1, CatSameAliases DEF CatLoad
      <3>4. catPage'.rows = catPage.rows /\ catPage'.report = catPage.report
        BY <2>5 DEF CatLoad, CatFull, CatIInv, CatShapes, CatPageFields
      <3>5. CatReported'
        BY <1>6, <3>4, CatAnnounced
      <3> QED
        BY <1>6, <2>2, <2>3, <3>1, <3>2, <3>3, <3>4, <3>5, CatNotSeen
    <2> QED
      BY <2>1, <2>4, <2>5
  <1> QED
    BY <1>1, <1>2, <1>3, <1>4, <1>5, <1>6 DEF CatFails


(* The user, and the hosts.                                                *)
LEMMA CatAskedOn ==
  ASSUME CatFull, UNCHANGED <<catRows, catNoted, catLost, catAstray>>, catAsked' \in {catAsked + 1, catAsked + 2},
         NEW asks, CatAliases(asks), catCalls \subseteq asks,
         \A x \in asks : x \in catCalls \/ ({"what", "for"} \subseteq DOMAIN x /\ CatHonest(x)'),
         catPage'.rows = catPage.rows, catPage'.report \in {None, catPage.report},
         catPage'.filter = catPage.filter \/ \E x \in asks : CatDirty(x)
  PROVE  CatTruth'
  <1>0. catAsked \in Nat /\ catAsked < catAsked' /\ catAsked' \in Nat
    BY DEF CatFull, CatTruth, CatStored
  <1>1. ASSUME NEW x \in catCalls PROVE {"what", "for"} \subseteq DOMAIN x /\ CatHonest(x)'
    <2>1. CatHonest(x) /\ {"what", "for"} \subseteq DOMAIN x
      BY DEF CatFull, CatTruth, CatIInv, CatRequest
    <2>3. CatTallied(x) => CatTallied(x)'
      BY DEF CatTallied
    <2>4. x.what = "sync" /\ x.jobs # None /\ CatJobsTrue(x.jobs) => CatJobsTrue(x.jobs)'
      BY DEF CatJobsTrue
    <2>5. x.report \in CatReport /\ CatQuiet(x) => CatQuiet(x)'
      BY <1>0 DEF CatQuiet, CatReport
    <2> QED
      BY <2>1, <2>3, <2>4, <2>5 DEF CatHonest, CatOf
  <1>2. \A x \in asks : {"what", "for"} \subseteq DOMAIN x /\ CatHonest(x)'
    BY <1>1
  <1>3. \A d \in catCalls' : CatHonest(d)'
    BY <1>2, CatAliasHonest DEF CatAliases
  <1>4. \A x \in asks : \E d \in catCalls' : CatKin(x, d)
    BY <1>2, CatAliasKin DEF CatAliases
  <1>5. CatMirrors'
    <2>1. CASE \E x \in asks : CatDirty(x)
      <3>1. \E d \in catCalls' : CatDirty(d)
        BY <1>4, <2>1, CatKinDirty
      <3> QED
        BY <3>1, CatAwaits
    <2>2. CASE catPage'.filter = catPage.filter
      BY <1>4, <2>2, CatMirrorsStay
    <2> QED
      BY <2>1, <2>2
  <1>6. CatReported'
    <2>1. catPage.report # None =>
            /\ catPage.report \in CatReport /\ catPage.report.total = catPage.report.synced + catPage.report.failed
            /\ catPage.report.n < catAsked' /\ 0 < catAsked'
      BY <1>0 DEF CatFull, CatTruth, CatReported, CatReport
    <2>2. catPage.report # None => catPage.report.n # catAsked' /\ catPage.report.n <= catAsked'
      BY <1>0, <2>1 DEF CatReport
    <2> QED
      BY <2>1, <2>2 DEF CatReported
  <1>7. CatStored' /\ BreakingReported'
    BY <1>0 DEF CatFull, CatTruth, CatStored, BreakingReported
  <1> QED
    BY <1>3, <1>5, <1>6, <1>7 DEF CatTruth

(* Something is asked of the server.                                       *)
LEMMA CatAsksMore ==
  ASSUME CatFull, UNCHANGED <<catRows, catNoted, catLost, catAstray>>, catAsked' \in {catAsked + 1, catAsked + 2},
         NEW c, {"what", "for"} \subseteq DOMAIN c, CatHonest(c)', catCalls' = catCalls \cup {c},
         catPage'.rows = catPage.rows, catPage'.report \in {None, catPage.report},
         catPage'.filter = catPage.filter \/ CatDirty(c)
  PROVE  CatTruth'
  <1>1. PICK asks : asks = catCalls \cup {c}
    OBVIOUS
  <1>2. /\ CatAliases(asks) /\ catCalls \subseteq asks /\ c \in asks
        /\ \A x \in asks : x \in catCalls \/ ({"what", "for"} \subseteq DOMAIN x /\ CatHonest(x)')
    BY <1>1, CatSameAliases
  <1> QED
    BY <1>2, CatAskedOn

(* A request that says nothing of the rows.                                *)
LEMMA CatPlainHonest ==
  ASSUME NEW c, c.what \in {"health", "preview", "save", "invoke"}
  PROVE  CatHonest(c)'
  BY DEF CatHonest

LEMMA CatSyncAsked ==
  ASSUME CatFull, catAsked' = catAsked + 2, NEW n \in {catAsked, catAsked + 2}, NEW for, NEW filter, NEW id, NEW rest,
         for = "all" => n = catAsked + 2 /\ id = None,
         NEW c, c = CatSyncCall(n, for, filter, id, rest), catCalls' = catCalls \cup {c}
  PROVE  CatHonest(c)' /\ {"what", "for"} \subseteq DOMAIN c /\ CatDirty(c)
  <1>0. catAsked \in Nat
    BY DEF CatFull, CatTruth, CatStored
  <1>1. PICK m : m = IF catCalls = {} THEN n ELSE 0
    OBVIOUS
  <1>2. m \in Nat /\ m <= catAsked' /\ 0 < catAsked' /\ (m = catAsked' => catCalls = {})
    BY <1>0, <1>1
  <1>3. /\ DOMAIN c = {"what", "n", "for", "filter", "id", "rest", "jobs", "failed", "report"}
        /\ c.what = "sync" /\ c.for = for /\ c.jobs = None /\ c.id = id
        /\ c.report = [total |-> 0, synced |-> 0, failed |-> 0, n |-> m]
    BY <1>1 DEF CatSyncCall
  <1>4. /\ c.report \in CatReport /\ c.report.total = 0 /\ c.report.synced = 0 /\ c.report.failed = 0
        /\ c.report.n = m
    BY <1>2, <1>3 DEF CatReport
  <1>5. CatTallied(c)'
    BY <1>3, <1>4 DEF CatTallied
  <1>6. CatQuiet(c)'
    BY <1>2, <1>3, <1>4 DEF CatQuiet
  <1> QED
    BY <1>3, <1>4, <1>5, <1>6 DEF CatHonest, CatDirty

LEMMA CatUserTrue ==
  ASSUME CatFull, CatUser
  PROVE  CatTruth'
  <1>0. /\ UNCHANGED <<catRows, catNoted, catLost, catAstray>> /\ catAsked' \in {catAsked + 1, catAsked + 2}
        /\ DOMAIN catPage = CatPageFields
    BY DEF CatUser, catServer, CatFull, CatIInv, CatShapes
  <1>1. ASSUME NEW what, NEW id, NEW target, NEW only, what \in {"save", "preview", "discover"},
               catCalls' = catCalls \cup {CatFormCall(what, id, target, only)}, UNCHANGED catPage
        PROVE  CatTruth'
    <2>1. PICK c : c = CatFormCall(what, id, target, only)
      OBVIOUS
    <2>2. {"what", "for", "todo", "failed"} \subseteq DOMAIN c /\ c.what = what /\ c.todo = {}
      BY <2>1 DEF CatFormCall
    <2>3. CatHonest(c)'
      BY <1>1, <2>2 DEF CatHonest
    <2> QED
      BY <1>0, <1>1, <2>1, <2>2, <2>3, CatAsksMore
  <1>2. ASSUME NEW ids, NEW target, CatAsk(catPage, CatDeleteCall(ids, target)) PROVE CatTruth'
    <2>1. PICK c : c = CatDeleteCall(ids, target)
      OBVIOUS
    <2>2. {"what", "for", "ids", "todo", "alone", "broken"} \subseteq DOMAIN c /\ c.what = "delete" /\ c.todo = c.ids
      BY <2>1 DEF CatDeleteCall
    <2>3. CatHonest(c)'
      BY <2>2 DEF CatHonest
    <2> QED
      BY <1>0, <1>2, <2>1, <2>2, <2>3, CatAsksMore DEF CatAsk
  <1>3. ASSUME NEW n \in {catAsked, catAsked + 2}, NEW for, NEW filter, NEW id, NEW rest, NEW p,
               for = "all" => n = catAsked + 2 /\ id = None,
               p.rows = catPage.rows, p.report \in {None, catPage.report},
               catAsked' = catAsked + 2, CatAsk(p, CatSyncCall(n, for, filter, id, rest))
        PROVE  CatTruth'
    <2>1. PICK c : c = CatSyncCall(n, for, filter, id, rest)
      OBVIOUS
    <2>2. catCalls' = catCalls \cup {c} /\ catPage' = p
      BY <1>3, <2>1 DEF CatAsk
    <2>3. CatHonest(c)' /\ {"what", "for"} \subseteq DOMAIN c /\ CatDirty(c)
      BY <1>3, <2>1, <2>2, CatSyncAsked
    <2> QED
      BY <1>0, <1>3, <2>2, <2>3, CatAsksMore
  <1>4. ASSUME NEW asks, CatAliases(asks), asks = catCalls,
               catPage'.rows = catPage.rows, catPage'.report \in {None, catPage.report}, catPage'.filter = catPage.filter
        PROVE  CatTruth'
    BY <1>0, <1>4, CatAskedOn
  <1>5. CASE CatFilter
    <2>1. PICK f, c : c = CatList(catAsked, "effect", f)
                      /\ catPage' = [[catPage EXCEPT !.filter = f] EXCEPT !.loading = TRUE]
                      /\ catCalls' = catCalls \cup {c}
      BY <1>5 DEF CatFilter, CatLoad
    <2>2. CatHonest(c)' /\ CatDirty(c) /\ {"what", "for"} \subseteq DOMAIN c
      BY <2>1, CatListHonest
    <2>3. catPage'.rows = catPage.rows /\ catPage'.report = catPage.report
      BY <1>0, <2>1 DEF CatPageFields
    <2> QED
      BY <1>0, <2>1, <2>2, <2>3, CatAsksMore
  <1>6. CASE catAsked' = catAsked + 2 /\ (CatSyncAll \/ CatSyncRow \/ CatSyncGroup)
    <2>1. catAsked \in {catAsked, catAsked + 2} /\ catAsked + 2 \in {catAsked, catAsked + 2}
      OBVIOUS
    <2>2. CASE CatSyncAll
      <3>1. PICK p : p = [catPage EXCEPT !.syncing = TRUE, !.report = None]
                     /\ CatAsk(p, CatSyncCall(catAsked + 2, "all", catPage.filter, None, {}))
        BY <2>2 DEF CatSyncAll
      <3>2. p.rows = catPage.rows /\ p.report = None
        BY <1>0, <3>1 DEF CatPageFields
      <3> QED
        BY <1>3, <1>6, <2>1, <3>1, <3>2
    <2>3. CASE CatSyncRow
      <3>1. PICK s, p : p = [catPage EXCEPT !.one = s]
                        /\ CatAsk(p, CatSyncCall(catAsked, "one", catPage.filter, s, {}))
        BY <2>3 DEF CatSyncRow
      <3>2. p.rows = catPage.rows /\ p.report = catPage.report
        BY <1>0, <3>1 DEF CatPageFields
      <3> QED
        BY <1>3, <1>6, <2>1, <3>1, <3>2
    <2>4. CASE CatSyncGroup
      <3>1. PICK s, t, p, rest : p = [catPage EXCEPT !.group = t]
                        /\ CatAsk(p, CatSyncCall(catAsked, "group", catPage.filter, s, rest))
        BY <2>4 DEF CatSyncGroup
      <3>2. p.rows = catPage.rows /\ p.report = catPage.report
        BY <1>0, <3>1 DEF CatPageFields
      <3> QED
        BY <1>3, <1>6, <2>1, <3>1, <3>2
    <2> QED
      BY <1>6, <2>2, <2>3, <2>4
  <1>7. CASE CatCheckHealth
    <2>1. PICK c : c = [what |-> "health", n |-> catAsked, for |-> "health", filter |-> catPage.filter]
                   /\ catPage' = [catPage EXCEPT !.checking = TRUE] /\ catCalls' = catCalls \cup {c}
      BY <1>7 DEF CatCheckHealth, CatAsk
    <2>2. {"what", "for"} \subseteq DOMAIN c /\ CatHonest(c)'
      BY <2>1, CatPlainHonest
    <2>3. catPage'.rows = catPage.rows /\ catPage'.report = catPage.report /\ catPage'.filter = catPage.filter
      BY <1>0, <2>1 DEF CatPageFields
    <2> QED
      BY <1>0, <2>1, <2>2, <2>3, CatAsksMore
  <1>8. CASE CatDeletes
    BY <1>2, <1>8 DEF CatDeletes
  <1>9. CASE CatSave \/ CatPreview \/ CatDiscover
    <2>1. PICK what, id, target, only :
            what \in {"save", "preview", "discover"} /\ CatSend(CatFormCall(what, id, target, only))
      <3>1. CASE CatSave
        BY <3>1 DEF CatSave
      <3>2. CASE CatPreview
        BY <3>2 DEF CatPreview
      <3>3. CASE CatDiscover
        BY <3>3 DEF CatDiscover
      <3> QED
        BY <1>9, <3>1, <3>2, <3>3
    <2>2. catCalls' = catCalls \cup {CatFormCall(what, id, target, only)} /\ UNCHANGED catPage
      BY <2>1 DEF CatSend
    <2> QED
      BY <1>1, <2>1, <2>2
  <1>10. CASE CatImport
    <2>1. PICK S, c : /\ S \in (SUBSET CatGrpc) \cup (SUBSET CatRest)
                      /\ c.what = "import" /\ {"what", "for"} \subseteq DOMAIN c /\ DOMAIN c.rows = S
                      /\ catCalls' = catCalls \cup {c} /\ catPage' = catPage
      <3>1. PICK t, S : /\ S \in (SUBSET CatGrpc) \cup (SUBSET CatRest) /\ catPage' = catPage
                        /\ catCalls' = catCalls \cup {[what |-> "import", n |-> catAsked, for |-> "import",
                                                       filter |-> catPage.filter, rows |-> [s \in S |-> t]]}
        BY <1>10 DEF CatImport
      <3>2. PICK c : c = [what |-> "import", n |-> catAsked, for |-> "import",
                          filter |-> catPage.filter, rows |-> [s \in S |-> t]]
        OBVIOUS
      <3>3. c.what = "import" /\ {"what", "for"} \subseteq DOMAIN c /\ DOMAIN c.rows = S
        BY <3>2
      <3> QED
        BY <3>1, <3>2, <3>3
    <2>2. CatHonest(c)'
      BY <2>1 DEF CatHonest
    <2> QED
      BY <1>0, <2>1, <2>2, CatAsksMore
  <1>11. CASE CatSearch \/ CatDismiss
    <2>1. PICK asks : asks = catCalls
      OBVIOUS
    <2>2. CatAliases(asks)
      BY <1>11, <2>1, CatSameAliases DEF CatSearch, CatDismiss
    <2>3. /\ catPage'.rows = catPage.rows /\ catPage'.report \in {None, catPage.report}
          /\ catPage'.filter = catPage.filter
      BY <1>0, <1>11 DEF CatSearch, CatDismiss, CatPageFields
    <2> QED
      BY <1>4, <2>1, <2>2, <2>3
  <1>12. CASE CatForms \/ CatRetype
    <2>1. PICK asks : asks = catCalls
      OBVIOUS
    <2>2. CatAliases(asks)
      BY <1>12, <2>1, CatSameAliases, CatShowAliases DEF CatForms, CatRetype
    <2> QED
      BY <1>4, <1>12, <2>1, <2>2 DEF CatForms, CatRetype
  <1>13. CASE CatDrawer
    <2>1. CASE CatTry
      <3>1. PICK c : c = [what |-> "invoke", n |-> catAsked, for |-> "try", id |-> catDrawer.id, op |-> catDrawer.op]
                     /\ catCalls' = catCalls \cup {c} /\ catPage' = catPage
        BY <1>13, <2>1 DEF CatTry, CatDrawer
      <3>2. {"what", "for"} \subseteq DOMAIN c /\ CatHonest(c)'
        BY <3>1, CatPlainHonest
      <3> QED
        BY <1>0, <3>1, <3>2, CatAsksMore
    <2>2. CASE CatOpen \/ CatClose \/ CatSelect \/ CatBack
      <3>1. PICK asks : asks = catCalls
        OBVIOUS
      <3>2. CatAliases(asks)
        BY <2>2, <3>1, CatDrawAliases DEF CatOpen, CatClose, CatSelect, CatBack
      <3> QED
        BY <1>4, <1>13, <3>1, <3>2 DEF CatDrawer
    <2> QED
      BY <1>13, <2>1, <2>2 DEF CatDrawer
  <1> QED
    BY <1>5, <1>6, <1>7, <1>8, <1>9, <1>10, <1>11, <1>12, <1>13 DEF CatUser

LEMMA CatNextTrue ==
  ASSUME CatFull, [CatNext]_catVars
  PROVE  CatTruth'
  <1>1. CASE CatUser
    BY <1>1, CatUserTrue
  <1>2. CASE CatHostChanges
    <2>1. PICK asks : asks = catCalls
      OBVIOUS
    <2>2. CatAliases(asks)
      BY <1>2, <2>1, CatSameAliases DEF CatHostChanges
    <2> QED
      BY <1>2, <2>1, <2>2, CatAskedOn DEF CatHostChanges
  <1>3. ASSUME NEW c \in catCalls, CatServe(c) \/ CatAnswer(c) PROVE CatTruth'
    BY <1>3, CatServeTrue, CatArrivesTrue, CatFailsTrue DEF CatAnswer
  <1>4. CASE UNCHANGED catVars
    <2>1. UNCHANGED <<catRows, catNoted, catLost, catAsked, catCalls, catPage, catAstray>>
      BY <1>4 DEF catVars, catServer
    <2>2. ASSUME NEW x \in catCalls PROVE CatHonest(x)'
      <3>1. CatTallied(x) => CatTallied(x)'
        BY DEF CatTallied
      <3>2. x.jobs # None /\ CatJobsTrue(x.jobs) => CatJobsTrue(x.jobs)'
        BY <2>1 DEF CatJobsTrue
      <3>3. CatErrors(CatIds(x.jobs))' = CatErrors(CatIds(x.jobs))
        BY <2>1 DEF CatErrors
      <3>4. CatQuiet(x) => CatQuiet(x)'
        BY <2>1, <3>3 DEF CatQuiet
      <3> QED
        BY <2>1, <3>1, <3>2, <3>4 DEF CatFull, CatTruth, CatHonest, CatOf
    <2> QED
      BY <2>1, <2>2 DEF CatFull, CatTruth, CatStored, BreakingReported, CatMirrors, CatGone, CatReported, CatErrors, CatOf
  <1> QED
    BY <1>1, <1>2, <1>3, <1>4 DEF CatNext, CatProgress

LEMMA CatInitTrue ==
  ASSUME CatInit
  PROVE  CatTruth
  <1>1. CatStored
    <2>1. IsFiniteSet(DOMAIN CatRows0)
      BY CatAssumption, FS_Subset
    <2>2. \A s \in DOMAIN CatRows0 : DOMAIN CatRows0[s] = {"target", "ops", "error", "drift"}
      BY CatAssumption DEF CatRow
    <2> QED
      BY <2>1, <2>2 DEF CatInit, CatStored
  <1>2. \A c \in catCalls : CatHonest(c)
    <2>1. PICK c : c = CatList(0, "effect", None) /\ catCalls = {c}
      BY DEF CatInit
    <2>2. DOMAIN c = {"what", "n", "for", "filter", "rows", "good"} /\ c.what = "list" /\ c.rows = None
      BY <2>1 DEF CatList
    <2> QED
      BY <2>1, <2>2 DEF CatHonest
  <1>3. BreakingReported /\ CatMirrors /\ CatReported
    BY DEF CatInit, BreakingReported, CatMirrors, CatReported
  <1> QED
    BY <1>1, <1>2, <1>3 DEF CatTruth

LEMMA CatTruthShows ==
  ASSUME CatTruth
  PROVE  CatalogTrue
  <1>1. CatShowsStored
    <2> SUFFICES ASSUME catCalls = {}, ~catAstray PROVE catPage.rows = CatOf(catRows, catPage.filter)
      BY DEF CatShowsStored
    <2>1. PICK of : of = CatOf(catRows, catPage.filter)
      OBVIOUS
    <2>2. of = [s \in DOMAIN of |-> of[s]]
      BY <2>1 DEF CatOf, Restrict
    <2>3. CatGone = {}
      BY DEF CatGone
    <2>4. /\ catPage.rows = [s \in DOMAIN catPage.rows |-> catPage.rows[s]]
          /\ \A s \in DOMAIN catPage.rows \cup DOMAIN of :
               s \in DOMAIN catPage.rows /\ s \in DOMAIN of /\ catPage.rows[s] = of[s]
      BY <2>1, <2>3 DEF CatTruth, CatMirrors
    <2>5. DOMAIN catPage.rows = DOMAIN of
      BY <2>4
    <2> QED
      BY <2>1, <2>2, <2>4, <2>5
  <1>2. ReportTrue
    <2>1. CatErrors({}) = { s \in DOMAIN catRows : catRows[s].error }
      BY DEF CatErrors
    <2> QED
      BY <2>1 DEF CatTruth, CatReported, ReportTrue
  <1> QED
    BY <1>1, <1>2 DEF CatTruth, CatalogTrue

(* What the catalog says is so: when nothing is under way, the rows are the *)
(* stored ones, short of the exceptions CatShowsStored names; no operation  *)
(* is removed unreported; the report of a sync adds up and counts errors.   *)
THEOREM CatalogIsTrue == CatSpec => []CatalogTrue
  <1>1. CatInit => CatFull
    BY CatInitTrue, CatInitKeeps DEF CatFull
  <1>2. CatFull /\ [CatNext]_catVars => CatFull'
    BY CatNextTrue, CatNextKeeps DEF CatFull
  <1>3. CatFull => CatalogTrue
    BY CatTruthShows DEF CatFull
  <1> QED
    BY <1>1, <1>2, <1>3, PTL DEF CatSpec

=============================================================================
