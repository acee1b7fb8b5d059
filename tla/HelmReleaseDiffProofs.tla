------------------------ MODULE HelmReleaseDiffProofs ------------------------
(***************************************************************************)
(* Theorems about ValuesReferences and HelmReleaseDiff: for every tree of     *)
(* values, every list of references and all that they may refer to.         *)
(***************************************************************************)
EXTENDS HelmReleaseDiff, WellFoundedInduction, TLAPS

LeafNodes(v) == {node \in Nodes(v) : node[2] # Dictionary}

-----------------------------------------------------------------------------
(* What a reference does to the leaves of a tree. *)
LEMMA MergedLeaves ==
    ASSUME NEW v, NEW o
    PROVE  LeafNodes(DeepMerge(v, o)) =
              LeafNodes(o) \union
              {leaf \in LeafNodes(v) : \A node \in Nodes(o) : ~Overwrites(node, leaf)}
  <1> DEFINE kept == {path \in DOMAIN v : \A leaf \in Leaves(o) : ~IsPrefix(leaf, path)}
             merged == DeepMerge(v, o)
             Spared(path) == \A node \in Nodes(o) : ~Overwrites(node, <<path, v[path]>>)
  <1>1. /\ DOMAIN merged = DOMAIN o \union kept
        /\ \A path \in DOMAIN o : merged[path] = o[path]
        /\ \A path \in kept \ DOMAIN o : merged[path] = v[path]
    BY DEF DeepMerge
  <1>2. ASSUME NEW path \in DOMAIN v
        PROVE  Spared(path) <=> path \in kept \ DOMAIN o
    <2>1. Spared(path) <=>
             \A q \in DOMAIN o : ~(q = path \/ (IsStrictPrefix(q, path) /\ o[q] # Dictionary))
      <3>1. \A q : Overwrites(<<q, o[q]>>, <<path, v[path]>>)
                     <=> q = path \/ (IsStrictPrefix(q, path) /\ o[q] # Dictionary)
        BY DEF Overwrites
      <3>2. Spared(path) <=> \A q \in DOMAIN o : ~Overwrites(<<q, o[q]>>, <<path, v[path]>>)
        BY DEF Nodes
      <3>3. QED
        BY <3>1, <3>2
    <2>2. \A q : IsStrictPrefix(q, path) <=> IsPrefix(q, path) /\ q # path
      BY DEF IsStrictPrefix
    <2> HIDE DEF Spared
    <2>3. QED
      BY <2>1, <2>2 DEF Leaves
  <1> HIDE DEF merged, kept, Spared
  <1>3. LeafNodes(merged) =
            {<<path, o[path]>> : path \in Leaves(o)} \union
            {<<path, v[path]>> : path \in {p \in kept \ DOMAIN o : v[p] # Dictionary}}
    BY <1>1 DEF LeafNodes, Nodes, Leaves
  <1>4. LeafNodes(o) = {<<path, o[path]>> : path \in Leaves(o)}
    BY DEF LeafNodes, Nodes, Leaves
  <1>5. {leaf \in LeafNodes(v) : \A node \in Nodes(o) : ~Overwrites(node, leaf)} =
            {<<path, v[path]>> : path \in {p \in DOMAIN v : Spared(p) /\ v[p] # Dictionary}}
    <2>1. \A path \in DOMAIN v :
             Spared(path) <=> \A node \in Nodes(o) : ~Overwrites(node, <<path, v[path]>>)
      BY DEF Spared
    <2>2. QED
      BY <2>1 DEF LeafNodes, Nodes
  <1>6. {p \in kept \ DOMAIN o : v[p] # Dictionary}
            = {p \in DOMAIN v : Spared(p) /\ v[p] # Dictionary}
    BY <1>2 DEF kept
  <1>7. QED
    BY <1>3, <1>4, <1>5, <1>6 DEF merged

LEMMA AssignedLeaves ==
    ASSUME NEW v, NEW target, NEW x, x # Dictionary
    PROVE  LeafNodes(PutAt(v, target, x)) =
              {<<target, x>>} \union
              {leaf \in LeafNodes(v) : ~Overwrites(<<target, x>>, leaf)}
  <1> DEFINE way == {SubSeq(target, 1, n) : n \in 0 .. Len(target) - 1}
             kept == {path \in DOMAIN v : ~IsPrefix(target, path)}
             put == PutAt(v, target, x)
  <1>1. /\ DOMAIN put = {target} \union way \union kept
        /\ put[target] = x
        /\ \A path \in kept \ {target} : put[path] = v[path]
        /\ \A path \in way \ (kept \union {target}) : put[path] = Dictionary
    BY DEF PutAt
  <1>2. ASSUME NEW path \in DOMAIN v
        PROVE  ~Overwrites(<<target, x>>, <<path, v[path]>>) <=> path \in kept \ {target}
    BY DEF Overwrites, IsStrictPrefix
  <1> HIDE DEF put, kept, way
  <1>3. LeafNodes(put) =
            {<<target, x>>} \union
            {<<path, v[path]>> : path \in {p \in kept \ {target} : v[p] # Dictionary}}
    BY <1>1 DEF LeafNodes, Nodes
  <1>4. {leaf \in LeafNodes(v) : ~Overwrites(<<target, x>>, leaf)} =
            {<<path, v[path]>> : path \in {p \in kept \ {target} : v[p] # Dictionary}}
    BY <1>2 DEF LeafNodes, Nodes, kept
  <1>5. QED
    BY <1>3, <1>4 DEF put

LEMMA OneMoreLeft ==
    ASSUME NEW n \in Nat
    PROVE  LeftAfter(n + 1) =
              WrittenLeaves(n + 1) \union
              {leaf \in LeftAfter(n) : \A node \in Written(n + 1) : ~Overwrites(node, leaf)}
  <1> DEFINE Kept(i, m) == {leaf \in WrittenLeaves(i) :
                               \A j \in i + 1 .. m : \A node \in Written(j) :
                                   ~Overwrites(node, leaf)}
  <1>1. \A m : LeftAfter(m) = UNION {Kept(i, m) : i \in 1 .. m}
    BY DEF LeftAfter
  <1>2. Kept(n + 1, n + 1) = WrittenLeaves(n + 1)
    OBVIOUS
  <1>3. \A i \in 1 .. n :
           Kept(i, n + 1) = {leaf \in Kept(i, n) :
                                \A node \in Written(n + 1) : ~Overwrites(node, leaf)}
    <2> TAKE i \in 1 .. n
    <2>1. i + 1 .. n + 1 = (i + 1 .. n) \union {n + 1}
      OBVIOUS
    <2>2. QED
      BY <2>1
  <1>4. 1 .. n + 1 = (1 .. n) \union {n + 1}
    OBVIOUS
  <1> HIDE DEF Kept
  <1>5. QED
    BY <1>1, <1>2, <1>3, <1>4

LEMMA NothingLeft == LeftAfter(0) = {}
  BY DEF LeftAfter

(* A text that is found is no dictionary. *)
LEMMA FoundIsText ==
    ASSUME NEW ref \in References, data \in Clusters, Found(ref).is = "text"
    PROVE  Found(ref).text.string # Dictionary
  <1> DEFINE texts == data[ObjectOf(ref)]
  <1>1. ref.kind \in {"ConfigMap", "Secret"}
    BY DEF Found
  <1>2. ObjectOf(ref) \in Objects
    BY <1>1 DEF Objects
  <1>3. texts \notin {NoData, Undecodable} =>
           \A key \in DOMAIN texts : texts[key].string # Dictionary
    BY <1>2, ValuesAssumption
  <1>4. CASE texts = Undecodable
    <2>1. Found(ref) = [is |-> "error"]
      BY <1>1, <1>4, ValuesAssumption DEF Found
    <2>2. QED
      BY <2>1
  <1>5. CASE texts = NoData /\ texts # Undecodable
    <2>1. Found(ref) \in {[is |-> "text", text |-> Placeholder], [is |-> "nothing"]}
      BY <1>1, <1>5 DEF Found
    <2>2. QED
      BY <2>1, ValuesAssumption
  <1>6. CASE texts \notin {NoData, Undecodable}
    <2>1. Found(ref) = IF ref.key \in DOMAIN texts
                       THEN [is |-> "text", text |-> texts[ref.key]] ELSE [is |-> "invalid"]
      BY <1>1, <1>6 DEF Found
    <2>2. QED
      BY <2>1, <1>3, <1>6
  <1> HIDE DEF texts
  <1>7. QED
    BY <1>4, <1>5, <1>6

-----------------------------------------------------------------------------
(* What is known of an expansion: its values have the leaves that are left.   *)
ValuesTyped ==
    /\ data \in Clusters
    /\ valuesFrom \in Seq(References)
    /\ next \in 1 .. Len(valuesFrom) + 1
    /\ outcome \in {"expanding", "expanded", "error"}

LeavesLeft ==
    /\ outcome # "expanded" =>
          /\ <<>> \notin Leaves(values)
          /\ LeafNodes(values) = LeftAfter(next - 1)
    /\ outcome = "expanded" => LeafNodes(values) = LeftAfter(Len(valuesFrom) + 1)

RaisedHere ==
    outcome = "error" =>
        /\ next <= Len(valuesFrom)
        /\ \/ Found(Ref).is = "error"
           \/ Found(Ref).is = "text" /\ Misplaced(values, Ref, Found(Ref).text)

ExpansionInv == ValuesTyped /\ LeavesLeft /\ RaisedHere

(* What the next reference has written is written when it has been used. *)
LEMMA UpdatedLeaves ==
    ASSUME ValuesTyped, NEW ref \in References, Found(ref).is = "text",
           ~Misplaced(values, ref, Found(ref).text),
           NEW i \in 1 .. Len(valuesFrom), valuesFrom[i] = ref,
           <<>> \notin Leaves(values)
    PROVE  LET new == Updated(values, ref, Found(ref).text)
           IN  /\ <<>> \notin Leaves(new)
               /\ LeafNodes(new) =
                     WrittenLeaves(i) \union
                     {leaf \in LeafNodes(values) :
                         \A node \in Written(i) : ~Overwrites(node, leaf)}
  <1> DEFINE text == Found(ref).text
             new == Updated(values, ref, text)
  <1>1. CASE ref.target # NoTarget
    <2>1. Written(i) = {<<ref.target, text.string>>}
      BY <1>1 DEF Written, ValuesTyped
    <2>2. text.string # Dictionary
      BY FoundIsText DEF ValuesTyped
    <2>3. WrittenLeaves(i) = {<<ref.target, text.string>>}
      BY <2>1, <2>2 DEF WrittenLeaves
    <2>4. new = PutAt(values, ref.target, text.string)
      BY <1>1 DEF Updated
    <2>5. LeafNodes(PutAt(values, ref.target, text.string)) =
             {<<ref.target, text.string>>} \union
             {leaf \in LeafNodes(values) : ~Overwrites(<<ref.target, text.string>>, leaf)}
      BY <2>2, AssignedLeaves
    <2>6. <<>> \notin Leaves(PutAt(values, ref.target, text.string))
      BY ValuesAssumption DEF PutAt, Leaves
    <2> HIDE DEF new, text
    <2>7. QED
      BY <2>1, <2>3, <2>4, <2>5, <2>6 DEF new, text
  <1>2. CASE ref.target = NoTarget
    <2>1. Written(i) = Nodes(text.yaml)
      BY <1>2 DEF Written, ValuesTyped
    <2>2. WrittenLeaves(i) = LeafNodes(text.yaml)
      BY <2>1 DEF WrittenLeaves, LeafNodes
    <2>3. new = DeepMerge(values, text.yaml) /\ IsDict(text.yaml)
      BY <1>2 DEF Updated, Misplaced
    <2>4. LeafNodes(DeepMerge(values, text.yaml)) =
             LeafNodes(text.yaml) \union
             {leaf \in LeafNodes(values) :
                 \A node \in Nodes(text.yaml) : ~Overwrites(node, leaf)}
      BY MergedLeaves
    <2>5. <<>> \notin Leaves(DeepMerge(values, text.yaml))
      BY <2>3 DEF DeepMerge, Leaves, IsDict
    <2> HIDE DEF new, text
    <2>6. QED
      BY <2>1, <2>2, <2>3, <2>4, <2>5 DEF new, text
  <1>3. QED
    BY <1>1, <1>2

(* The references and what they write stay. *)
LEMMA WrittenStays ==
    ASSUME UNCHANGED <<data, valuesFrom, own>>
    PROVE  /\ \A ref : Found(ref)' = Found(ref)
           /\ \A n : Written(n)' = Written(n)
           /\ \A n : WrittenLeaves(n)' = WrittenLeaves(n)
  <1>1. \A ref : Found(ref)' = Found(ref)
    BY DEF Found
  <1>2. \A n : Written(n)' = Written(n)
    BY <1>1 DEF Written, Nodes
  <1>3. \A n : WrittenLeaves(n)' = WrittenLeaves(n)
    BY <1>2 DEF WrittenLeaves
  <1>4. QED
    BY <1>1, <1>2, <1>3

LEMMA LeftStays ==
    ASSUME UNCHANGED <<data, valuesFrom, own>>
    PROVE  /\ LeftAfter(next - 1)' = LeftAfter(next' - 1)
           /\ LeftAfter(Len(valuesFrom) + 1)' = LeftAfter(Len(valuesFrom) + 1)
  BY WrittenStays DEF LeftAfter

LEMMA ReferenceSkipped ==
    ASSUME ExpansionInv, SkipReference
    PROVE  ExpansionInv'
  <1>1. ValuesTyped' /\ RaisedHere'
    BY DEF ExpansionInv, ValuesTyped, RaisedHere, SkipReference, Expanding
  <1>2. next \in Nat /\ next - 1 \in Nat /\ next = (next - 1) + 1 /\ next' - 1 = next
    BY DEF ExpansionInv, ValuesTyped, SkipReference
  <1>3. Written(next) = {} /\ WrittenLeaves(next) = {}
    BY DEF ExpansionInv, ValuesTyped, SkipReference, Expanding, Written, WrittenLeaves, Ref
  <1>4. LeftAfter(next) =
           WrittenLeaves(next) \union
           {leaf \in LeftAfter(next - 1) : \A node \in Written(next) : ~Overwrites(node, leaf)}
    BY <1>2, OneMoreLeft
  <1>5. LeftAfter(next) = LeftAfter(next - 1)
    BY <1>3, <1>4
  <1>6. UNCHANGED <<values, outcome>> /\ outcome = "expanding"
    BY DEF SkipReference, Expanding
  <1>7. LeftAfter(next - 1)' = LeftAfter(next)
    BY <1>2, LeftStays DEF SkipReference
  <1>8. LeavesLeft'
    BY <1>2, <1>5, <1>6, <1>7 DEF ExpansionInv, LeavesLeft, LeafNodes, Nodes, Leaves
  <1>9. QED
    BY <1>1, <1>8 DEF ExpansionInv

LEMMA ReferenceUsed ==
    ASSUME ExpansionInv, UseReference
    PROVE  ExpansionInv'
  <1>1. ValuesTyped' /\ RaisedHere'
    BY DEF ExpansionInv, ValuesTyped, RaisedHere, UseReference, Expanding
  <1>2. next \in Nat /\ next - 1 \in Nat /\ next = (next - 1) + 1 /\ next' - 1 = next
    BY DEF ExpansionInv, ValuesTyped, UseReference
  <1>3. /\ Ref \in References /\ Found(Ref).is = "text"
        /\ ~Misplaced(values, Ref, Found(Ref).text)
        /\ next \in 1 .. Len(valuesFrom) /\ valuesFrom[next] = Ref
        /\ <<>> \notin Leaves(values) /\ LeafNodes(values) = LeftAfter(next - 1)
    BY DEF ExpansionInv, ValuesTyped, LeavesLeft, UseReference, Expanding, Ref
  <1>4. LeftAfter(next) =
           WrittenLeaves(next) \union
           {leaf \in LeftAfter(next - 1) : \A node \in Written(next) : ~Overwrites(node, leaf)}
    BY <1>2, OneMoreLeft
  <1> DEFINE new == Updated(values, Ref, Found(Ref).text)
  <1>5. /\ <<>> \notin Leaves(new)
        /\ LeafNodes(new) =
              WrittenLeaves(next) \union
              {leaf \in LeafNodes(values) : \A node \in Written(next) : ~Overwrites(node, leaf)}
    BY <1>3, UpdatedLeaves DEF ExpansionInv
  <1>6. values' = new /\ outcome' = "expanding"
    BY DEF UseReference, Expanding
  <1> HIDE DEF new
  <1>7. LeftAfter(next - 1)' = LeftAfter(next)
    BY <1>2, LeftStays DEF UseReference
  <1>8. LeafNodes(values)' = LeafNodes(new) /\ Leaves(values)' = Leaves(new)
    BY <1>6 DEF LeafNodes, Nodes, Leaves
  <1>9. LeavesLeft'
    BY <1>3, <1>4, <1>5, <1>6, <1>7, <1>8 DEF LeavesLeft
  <1>10. QED
    BY <1>1, <1>9 DEF ExpansionInv

LEMMA ReferenceRaised ==
    ASSUME ExpansionInv, ReferenceRaises
    PROVE  ExpansionInv'
  <1>1. ValuesTyped'
    BY DEF ExpansionInv, ValuesTyped, ReferenceRaises
  <1>2. RaisedHere'
    BY DEF RaisedHere, ReferenceRaises, Expanding, Ref, Found, Misplaced
  <1>3. LeftAfter(next - 1)' = LeftAfter(next - 1) /\ UNCHANGED values
    BY LeftStays DEF ReferenceRaises
  <1>4. outcome = "expanding" /\ outcome' = "error"
    BY DEF ReferenceRaises, Expanding
  <1>5. LeavesLeft'
    BY <1>3, <1>4 DEF ExpansionInv, LeavesLeft, LeafNodes, Nodes, Leaves
  <1>6. QED
    BY <1>1, <1>2, <1>5 DEF ExpansionInv

LEMMA OwnValuesAdded ==
    ASSUME ExpansionInv, AddOwnValues
    PROVE  ExpansionInv'
  <1>1. ValuesTyped' /\ RaisedHere'
    BY DEF ExpansionInv, ValuesTyped, RaisedHere, AddOwnValues
  <1> DEFINE n == Len(valuesFrom)
  <1>2. /\ n \in Nat /\ next - 1 = n /\ outcome' = "expanded"
        /\ <<>> \notin Leaves(values) /\ LeafNodes(values) = LeftAfter(n)
    BY DEF ExpansionInv, ValuesTyped, LeavesLeft, AddOwnValues
  <1>3. Written(n + 1) = Nodes(own) /\ WrittenLeaves(n + 1) = LeafNodes(own)
    BY <1>2 DEF Written, WrittenLeaves, LeafNodes
  <1>4. LeftAfter(n + 1) =
           LeafNodes(own) \union
           {leaf \in LeafNodes(values) : \A node \in Nodes(own) : ~Overwrites(node, leaf)}
    BY <1>2, <1>3, OneMoreLeft
  <1>5. LeafNodes(values') = LeftAfter(n + 1)
    <2>1. CASE own = Empty
      <3>1. Nodes(own) = {<<<<>>, Dictionary>>} /\ LeafNodes(own) = {}
        BY <2>1 DEF Empty, Nodes, LeafNodes
      <3>2. \A leaf \in LeafNodes(values) : ~Overwrites(<<<<>>, Dictionary>>, leaf)
        BY <1>2 DEF LeafNodes, Nodes, Leaves, Overwrites
      <3>3. values' = values
        BY <2>1 DEF AddOwnValues
      <3>4. LeftAfter(n + 1) = LeafNodes(values)
        BY <1>4, <3>1, <3>2
      <3>5. QED
        BY <3>3, <3>4
    <2>2. CASE own # Empty
      <3>1. values' = DeepMerge(values, own)
        BY <2>2 DEF AddOwnValues
      <3>2. LeafNodes(DeepMerge(values, own)) =
               LeafNodes(own) \union
               {leaf \in LeafNodes(values) : \A node \in Nodes(own) : ~Overwrites(node, leaf)}
        BY MergedLeaves
      <3>3. QED
        BY <1>4, <3>1, <3>2
    <2>3. QED
      BY <2>1, <2>2
  <1>6. LeftAfter(Len(valuesFrom) + 1)' = LeftAfter(n + 1)
    BY LeftStays DEF AddOwnValues
  <1>7. LeafNodes(values)' = LeafNodes(values')
    BY DEF LeafNodes, Nodes
  <1>8. LeavesLeft'
    BY <1>2, <1>5, <1>6, <1>7 DEF LeavesLeft
  <1>9. QED
    BY <1>1, <1>8 DEF ExpansionInv

LEMMA ExpansionBegins ==
    ASSUME ValuesInit
    PROVE  ExpansionInv
  <1>1. PICK n \in 1 .. MaxReferences : valuesFrom \in [1 .. n -> References]
    BY DEF ValuesInit
  <1>2. valuesFrom \in Seq(References) /\ Len(valuesFrom) = n /\ n \in Nat
    BY <1>1, ValuesAssumption
  <1>3. ValuesTyped
    BY <1>2 DEF ValuesInit, ValuesTyped
  <1>4. <<>> \notin Leaves(values) /\ LeafNodes(values) = {}
    BY DEF ValuesInit, Empty, Leaves, LeafNodes, Nodes
  <1>5. QED
    BY <1>3, <1>4, NothingLeft DEF ExpansionInv, LeavesLeft, RaisedHere, ValuesInit

LEMMA ExpansionStep ==
    ASSUME ExpansionInv, ValuesNext
    PROVE  ExpansionInv'
  BY ReferenceSkipped, ReferenceUsed, ReferenceRaised, OwnValuesAdded DEF ValuesNext

LEMMA ExpansionStays ==
    ASSUME ExpansionInv, UNCHANGED valuesVars
    PROVE  ExpansionInv'
  <1>1. ValuesTyped'
    BY DEF ExpansionInv, ValuesTyped, valuesVars
  <1>2. RaisedHere'
    <2>1. Found(Ref)' = Found(Ref)
      BY DEF valuesVars, Found, Ref
    <2>2. Misplaced(values, Ref, Found(Ref).text)' = Misplaced(values, Ref, Found(Ref).text)
      BY <2>1 DEF valuesVars, Misplaced, Ref
    <2>3. QED
      BY <2>1, <2>2 DEF ExpansionInv, RaisedHere, valuesVars
  <1>3. LeavesLeft'
    <2>1. /\ LeftAfter(next - 1)' = LeftAfter(next - 1)
          /\ LeftAfter(Len(valuesFrom) + 1)' = LeftAfter(Len(valuesFrom) + 1)
      BY LeftStays DEF valuesVars
    <2>2. LeafNodes(values)' = LeafNodes(values) /\ Leaves(values)' = Leaves(values)
      BY DEF LeafNodes, Nodes, Leaves, valuesVars
    <2>3. QED
      BY <2>1, <2>2 DEF ExpansionInv, LeavesLeft, valuesVars
  <1>4. QED
    BY <1>1, <1>2, <1>3 DEF ExpansionInv

(* Whatever the order and the targets of its references, a release has the     *)
(* leaves that the last of them wrote.                                      *)
THEOREM ExpansionCorrect == DiffSpec => []ExpansionInv
  <1>1. DiffInit => ExpansionInv
    BY ExpansionBegins DEF DiffInit
  <1>2. ExpansionInv /\ [DiffNext]_diffVars => ExpansionInv'
    <2> SUFFICES ASSUME ExpansionInv, [DiffNext]_diffVars PROVE ExpansionInv'
      OBVIOUS
    <2>1. CASE ValuesNext
      BY <2>1, ExpansionStep
    <2>2. CASE UNCHANGED valuesVars
      BY <2>2, ExpansionStays
    <2>3. ValuesNext \/ UNCHANGED valuesVars
      <3>1. CASE DiffNext
        <4>1. CASE /\ Orig!ValuesNext
                   /\ UNCHANGED <<data, next, values, outcome, versions>>
          BY <4>1 DEF Orig!ValuesNext, Orig!SkipReference, Orig!UseReference,
                      Orig!ReferenceRaises, Orig!AddOwnValues, valuesVars
        <4>2. QED
          BY <3>1, <4>1 DEF DiffNext
      <3>2. CASE UNCHANGED diffVars
        BY <3>2 DEF diffVars
      <3>3. QED
        BY <3>1, <3>2
    <2>4. QED
      BY <2>1, <2>2, <2>3
  <1>3. QED
    BY <1>1, <1>2, PTL DEF DiffSpec

(* Of the references that write to a leaf the last one wins, and the release   *)
(* itself over all of them: expand_value_references and _deep_merge.         *)
THEOREM LastReferenceWinsHolds == DiffSpec => []LastReferenceWins
  <1>1. ExpansionInv => LastReferenceWins
    BY DEF ExpansionInv, LeavesLeft, LastReferenceWins, LeafNodes
  <1>2. QED
    BY <1>1, ExpansionCorrect, PTL

(* No reference to what is not there fails the build. *)
THEOREM ErrorHasReasonHolds == DiffSpec => []ErrorHasReason
  <1>1. ASSUME ExpansionInv, outcome = "error",
               Found(Ref).is = "text", Ref.target # NoTarget, LeafOnTheWay(values, Ref.target)
        PROVE  \E i \in 1 .. next - 1 : \E leaf \in WrittenLeaves(i) :
                  IsStrictPrefix(leaf[1], Ref.target)
    <2>1. PICK path \in Leaves(values) : IsStrictPrefix(path, Ref.target)
      BY <1>1 DEF LeafOnTheWay
    <2>2. <<path, values[path]>> \in LeftAfter(next - 1)
      BY <1>1, <2>1 DEF ExpansionInv, LeavesLeft, LeafNodes, Nodes, Leaves
    <2>3. PICK i \in 1 .. next - 1 : <<path, values[path]>> \in WrittenLeaves(i)
      BY <2>2 DEF LeftAfter
    <2>4. QED
      BY <2>1, <2>3
  <1>2. ExpansionInv => ErrorHasReason
    BY <1>1 DEF ExpansionInv, RaisedHere, ErrorHasReason, Misplaced
  <1>3. QED
    BY <1>2, ExpansionCorrect, PTL
-----------------------------------------------------------------------------
(* The two expansions of a diff.  What the values were after each reference is *)
(* a function f; there is one, and it follows from what the references find. *)
Stepped(v, found, ref) == IF found.is = "text" THEN Updated(v, ref, found.text) ELSE v
WithOwn(v) == IF own = Empty THEN v ELSE DeepMerge(v, own)

Traces(f, n) ==
    /\ f[0] = Empty
    /\ \A i \in 1 .. n : f[i] = Stepped(f[i - 1], Found(valuesFrom[i]), valuesFrom[i])

OrigTraces(f, n) ==
    /\ f[0] = Empty
    /\ \A i \in 1 .. n : f[i] = Stepped(f[i - 1], Orig!Found(valuesFrom[i]), valuesFrom[i])

Traced ==
    \E f : /\ Traces(f, next - 1)
           /\ outcome # "expanded" => values = f[next - 1]
           /\ outcome = "expanded" => /\ next = Len(valuesFrom) + 1
                                      /\ values = WithOwn(f[Len(valuesFrom)])

OrigTraced ==
    \E f : /\ OrigTraces(f, origNext - 1)
           /\ origOutcome # "expanded" => origValues = f[origNext - 1]
           /\ origOutcome = "expanded" => /\ origNext = Len(valuesFrom) + 1
                                          /\ origValues = WithOwn(f[Len(valuesFrom)])

OrigTyped == origData \in Clusters /\ origNext \in 1 .. Len(valuesFrom) + 1

DiffInv == ValuesTyped /\ OrigTyped /\ Traced /\ OrigTraced

LEMMA ReferencesStay ==
    ASSUME DiffNext
    PROVE  UNCHANGED <<data, origData, valuesFrom, own, versions>>
  <1>1. CASE ValuesNext /\ UNCHANGED <<versions, origVars>>
    BY <1>1 DEF ValuesNext, SkipReference, UseReference, ReferenceRaises, AddOwnValues, origVars
  <1>2. CASE /\ Orig!ValuesNext
             /\ UNCHANGED <<data, next, values, outcome, versions>>
    BY <1>2 DEF Orig!ValuesNext, Orig!SkipReference, Orig!UseReference,
                Orig!ReferenceRaises, Orig!AddOwnValues
  <1>3. QED
    BY <1>1, <1>2 DEF DiffNext

LEMMA TracesStay ==
    ASSUME UNCHANGED <<data, origData, valuesFrom, own>>
    PROVE  \A f : /\ Traces(f, next - 1)' <=> Traces(f, next' - 1)
                  /\ OrigTraces(f, origNext - 1)' <=> OrigTraces(f, origNext' - 1)
                  /\ WithOwn(f[Len(valuesFrom)])' = WithOwn(f[Len(valuesFrom)])
  <1>1. /\ \A ref : Found(ref)' = Found(ref)
        /\ \A ref : Orig!Found(ref)' = Orig!Found(ref)
    BY DEF Found, Orig!Found
  <1>2. \A f : /\ Traces(f, next - 1)' <=> Traces(f, next' - 1)
               /\ OrigTraces(f, origNext - 1)' <=> OrigTraces(f, origNext' - 1)
    BY <1>1 DEF Traces, OrigTraces, Stepped
  <1>3. \A f : WithOwn(f[Len(valuesFrom)])' = WithOwn(f[Len(valuesFrom)])
    BY DEF WithOwn
  <1>4. QED
    BY <1>2, <1>3

LEMMA TraceExtends ==
    ASSUME NEW n \in Nat, NEW f, Traces(f, n)
    PROVE  LET new == Stepped(f[n], Found(valuesFrom[n + 1]), valuesFrom[n + 1])
           IN  \E g : Traces(g, n + 1) /\ g[n + 1] = new
  <1> DEFINE new == Stepped(f[n], Found(valuesFrom[n + 1]), valuesFrom[n + 1])
             g == [i \in 0 .. n + 1 |-> IF i = n + 1 THEN new ELSE f[i]]
  <1>1. g[n + 1] = new /\ \A i \in 0 .. n : g[i] = f[i]
    OBVIOUS
  <1> HIDE DEF g
  <1>2. \A i \in 1 .. n : g[i] = f[i] /\ g[i - 1] = f[i - 1]
    BY <1>1
  <1>3. Traces(g, n + 1)
    BY <1>1, <1>2 DEF Traces
  <1>4. QED
    BY <1>1, <1>3

LEMMA OrigTraceExtends ==
    ASSUME NEW n \in Nat, NEW f, OrigTraces(f, n)
    PROVE  LET new == Stepped(f[n], Orig!Found(valuesFrom[n + 1]), valuesFrom[n + 1])
           IN  \E g : OrigTraces(g, n + 1) /\ g[n + 1] = new
  <1> DEFINE new == Stepped(f[n], Orig!Found(valuesFrom[n + 1]), valuesFrom[n + 1])
             g == [i \in 0 .. n + 1 |-> IF i = n + 1 THEN new ELSE f[i]]
  <1>1. g[n + 1] = new /\ \A i \in 0 .. n : g[i] = f[i]
    OBVIOUS
  <1> HIDE DEF g
  <1>2. \A i \in 1 .. n : g[i] = f[i] /\ g[i - 1] = f[i - 1]
    BY <1>1
  <1>3. OrigTraces(g, n + 1)
    BY <1>1, <1>2 DEF OrigTraces
  <1>4. QED
    BY <1>1, <1>3

LEMMA TracedStep ==
    ASSUME ValuesTyped, Traced, ValuesNext, UNCHANGED <<origData, versions>>
    PROVE  Traced'
  <1>1. UNCHANGED <<data, origData, valuesFrom, own>>
    BY DEF ValuesNext, SkipReference, UseReference, ReferenceRaises, AddOwnValues
  <1>2. PICK f : /\ Traces(f, next - 1)
                 /\ outcome # "expanded" => values = f[next - 1]
    BY DEF Traced
  <1>3. CASE SkipReference \/ UseReference
    <2>1. /\ next - 1 \in Nat /\ next = (next - 1) + 1 /\ next' - 1 = next
          /\ outcome' = "expanding" /\ values = f[next - 1]
      BY <1>2, <1>3 DEF ValuesTyped, SkipReference, UseReference, Expanding
    <2>2. values' = Stepped(values, Found(valuesFrom[next]), valuesFrom[next])
      BY <1>3 DEF SkipReference, UseReference, Stepped, Ref
    <2>3. PICK g : Traces(g, next) /\ g[next] = values'
      BY <1>2, <2>1, <2>2, TraceExtends
    <2>4. Traces(g, next - 1)' /\ values' = g[next' - 1]
      BY <1>1, <2>1, <2>3, TracesStay
    <2>5. QED
      BY <2>1, <2>4 DEF Traced
  <1>4. CASE ReferenceRaises
    <2>1. next' = next /\ values' = values /\ outcome = "expanding" /\ outcome' = "error"
      BY <1>4 DEF ReferenceRaises, Expanding
    <2>2. Traces(f, next - 1)' /\ values' = f[next' - 1]
      BY <1>1, <1>2, <2>1, TracesStay
    <2>3. QED
      BY <2>1, <2>2 DEF Traced
  <1>5. CASE AddOwnValues
    <2>1. /\ next' = next /\ next = Len(valuesFrom) + 1 /\ next - 1 = Len(valuesFrom)
          /\ outcome = "expanding" /\ outcome' = "expanded" /\ values' = WithOwn(values)
      BY <1>5 DEF AddOwnValues, ValuesTyped, WithOwn
    <2>2. /\ Traces(f, next - 1)'
          /\ values' = WithOwn(f[Len(valuesFrom)])'
          /\ next' = Len(valuesFrom)' + 1
      BY <1>1, <1>2, <2>1, TracesStay
    <2>3. QED
      BY <2>1, <2>2 DEF Traced
  <1>6. QED
    BY <1>3, <1>4, <1>5 DEF ValuesNext

LEMMA OrigOperators ==
    /\ Orig!Empty = Empty
    /\ \A v, o : Orig!DeepMerge(v, o) = DeepMerge(v, o)
    /\ \A v, ref, text : Orig!Updated(v, ref, text) = Updated(v, ref, text)
  <1>1. Orig!Empty = Empty
    BY DEF Orig!Empty, Empty
  <1>2. ASSUME NEW v, NEW o PROVE Orig!DeepMerge(v, o) = DeepMerge(v, o)
    BY DEF Orig!DeepMerge, DeepMerge, Orig!Leaves, Leaves, Orig!IsPrefix, IsPrefix
  <1>3. ASSUME NEW v, NEW target, NEW x PROVE Orig!PutAt(v, target, x) = PutAt(v, target, x)
    BY DEF Orig!PutAt, PutAt, Orig!IsPrefix, IsPrefix
  <1>4. ASSUME NEW v, NEW ref, NEW text
        PROVE  Orig!Updated(v, ref, text) = Updated(v, ref, text)
    BY <1>2, <1>3 DEF Orig!Updated, Updated
  <1>5. QED
    BY <1>1, <1>2, <1>4

LEMMA OrigTracedStep ==
    ASSUME ValuesTyped, OrigTyped, OrigTraced, Orig!ValuesNext, UNCHANGED data
    PROVE  OrigTraced'
  <1>1. UNCHANGED <<data, origData, valuesFrom, own>>
    BY DEF Orig!ValuesNext, Orig!SkipReference, Orig!UseReference, Orig!ReferenceRaises,
           Orig!AddOwnValues
  <1>2. PICK f : /\ OrigTraces(f, origNext - 1)
                 /\ origOutcome # "expanded" => origValues = f[origNext - 1]
    BY DEF OrigTraced
  <1>3. CASE Orig!SkipReference \/ Orig!UseReference
    <2>1. /\ origNext - 1 \in Nat /\ origNext = (origNext - 1) + 1 /\ origNext' - 1 = origNext
          /\ origOutcome' = "expanding" /\ origValues = f[origNext - 1]
      BY <1>2, <1>3 DEF ValuesTyped, OrigTyped, Orig!SkipReference, Orig!UseReference,
                        Orig!Expanding
    <2>2. origValues' = Stepped(origValues, Orig!Found(valuesFrom[origNext]), valuesFrom[origNext])
      BY <1>3, OrigOperators DEF Orig!SkipReference, Orig!UseReference, Stepped, Orig!Ref
    <2>3. PICK g : OrigTraces(g, origNext) /\ g[origNext] = origValues'
      BY <1>2, <2>1, <2>2, OrigTraceExtends
    <2>4. OrigTraces(g, origNext - 1)' /\ origValues' = g[origNext' - 1]
      BY <1>1, <2>1, <2>3, TracesStay
    <2>5. QED
      BY <2>1, <2>4 DEF OrigTraced
  <1>4. CASE Orig!ReferenceRaises
    <2>1. /\ origNext' = origNext /\ origValues' = origValues
          /\ origOutcome = "expanding" /\ origOutcome' = "error"
      BY <1>4 DEF Orig!ReferenceRaises, Orig!Expanding
    <2>2. OrigTraces(f, origNext - 1)' /\ origValues' = f[origNext' - 1]
      BY <1>1, <1>2, <2>1, TracesStay
    <2>3. QED
      BY <2>1, <2>2 DEF OrigTraced
  <1>5. CASE Orig!AddOwnValues
    <2>1. /\ origNext' = origNext /\ origNext = Len(valuesFrom) + 1
          /\ origNext - 1 = Len(valuesFrom)
          /\ origOutcome = "expanding" /\ origOutcome' = "expanded"
      BY <1>5 DEF Orig!AddOwnValues, OrigTyped, ValuesTyped
    <2>2. origValues' = WithOwn(origValues)
      BY <1>5, OrigOperators DEF Orig!AddOwnValues, WithOwn
    <2>3. /\ OrigTraces(f, origNext - 1)'
          /\ origValues' = WithOwn(f[Len(valuesFrom)])'
          /\ origNext' = Len(valuesFrom)' + 1
      BY <1>1, <1>2, <2>1, <2>2, TracesStay
    <2>4. QED
      BY <2>1, <2>3 DEF OrigTraced
  <1>6. QED
    BY <1>3, <1>4, <1>5 DEF Orig!ValuesNext

LEMMA DiffBegins ==
    ASSUME DiffInit
    PROVE  DiffInv
  <1>1. ValuesTyped
    BY ExpansionBegins DEF DiffInit, ExpansionInv
  <1>2. OrigTyped
    BY <1>1 DEF DiffInit, Orig!ValuesInit, OrigTyped, ValuesTyped
  <1> DEFINE f == [i \in {0} |-> Empty]
  <1>3. f[0] = Empty
    OBVIOUS
  <1> HIDE DEF f
  <1>4. Traces(f, 0) /\ OrigTraces(f, 0)
    BY <1>3 DEF Traces, OrigTraces
  <1>5. /\ next - 1 = 0 /\ values = Empty /\ outcome = "expanding"
        /\ origNext - 1 = 0 /\ origValues = Empty /\ origOutcome = "expanding"
    BY DEF DiffInit, ValuesInit, Orig!ValuesInit, Orig!Empty, Empty
  <1>6. Traced /\ OrigTraced
    BY <1>3, <1>4, <1>5 DEF Traced, OrigTraced
  <1>7. QED
    BY <1>1, <1>2, <1>6 DEF DiffInv

LEMMA DiffStep ==
    ASSUME DiffInv, ValuesTyped', [DiffNext]_diffVars
    PROVE  DiffInv'
  <1>1. CASE ValuesNext /\ UNCHANGED <<versions, origVars>>
    <2>1. UNCHANGED <<data, origData, valuesFrom, own, versions>>
      BY <1>1, ReferencesStay DEF DiffNext
    <2>2. Traced'
      BY <1>1, <2>1, TracedStep DEF DiffInv
    <2>3. UNCHANGED <<origNext, origValues, origOutcome>>
      BY <1>1 DEF origVars
    <2>4. OrigTraced'
      <3>1. \A f : /\ OrigTraces(f, origNext - 1)' <=> OrigTraces(f, origNext - 1)
                   /\ WithOwn(f[Len(valuesFrom)])' = WithOwn(f[Len(valuesFrom)])
        BY <2>1, <2>3, TracesStay
      <3>2. QED
        BY <2>1, <2>3, <3>1 DEF DiffInv, OrigTraced
    <2>5. OrigTyped'
      BY <2>1, <2>3 DEF DiffInv, OrigTyped
    <2>6. QED
      BY <2>2, <2>4, <2>5 DEF DiffInv
  <1>2. CASE Orig!ValuesNext /\ UNCHANGED <<data, next, values, outcome, versions>>
    <2>1. UNCHANGED <<data, origData, valuesFrom, own>>
      BY <1>2 DEF Orig!ValuesNext, Orig!SkipReference, Orig!UseReference,
                  Orig!ReferenceRaises, Orig!AddOwnValues
    <2>2. OrigTraced'
      BY <1>2, OrigTracedStep DEF DiffInv
    <2>3. Traced'
      <3>1. \A f : /\ Traces(f, next - 1)' <=> Traces(f, next - 1)
                   /\ WithOwn(f[Len(valuesFrom)])' = WithOwn(f[Len(valuesFrom)])
        BY <1>2, <2>1, TracesStay
      <3>2. QED
        BY <1>2, <2>1, <3>1 DEF DiffInv, Traced
    <2>4. OrigTyped'
      BY <1>2, <2>1 DEF DiffInv, OrigTyped, ValuesTyped, Orig!ValuesNext, Orig!SkipReference,
                  Orig!UseReference, Orig!ReferenceRaises, Orig!AddOwnValues, Orig!Expanding
    <2>5. QED
      BY <2>2, <2>3, <2>4 DEF DiffInv
  <1>3. CASE UNCHANGED diffVars
    <2>1. UNCHANGED <<data, origData, valuesFrom, own, next, values, outcome,
                      origNext, origValues, origOutcome>>
      BY <1>3 DEF diffVars, valuesVars, origVars
    <2>2. \A f : /\ Traces(f, next - 1)' <=> Traces(f, next - 1)
                 /\ OrigTraces(f, origNext - 1)' <=> OrigTraces(f, origNext - 1)
                 /\ WithOwn(f[Len(valuesFrom)])' = WithOwn(f[Len(valuesFrom)])
      BY <2>1, TracesStay
    <2>3. QED
      BY <2>1, <2>2 DEF DiffInv, Traced, OrigTraced, OrigTyped
  <1>4. QED
    BY <1>1, <1>2, <1>3 DEF DiffNext

-----------------------------------------------------------------------------
(* Two expansions that find the same for each reference have the same values; *)
(* it would be otherwise for a first one.                                   *)
LEMMA LeastNumber ==
    ASSUME NEW S \in SUBSET Nat, S # {}
    PROVE  \E x \in S : \A y \in S : x <= y
  <1> DEFINE R == {pair \in Nat \X Nat : pair[1] < pair[2]}
  <1>1. IsWellFoundedOn(R, Nat)
    BY NatLessThanWellFounded, Zenon DEF OpToRel
  <1>2. \A x, y \in Nat : <<y, x>> \in R <=> y < x
    OBVIOUS
  <1> HIDE DEF R
  <1>3. PICK x \in S : \A y \in S : <<y, x>> \notin R
    BY <1>1, WFMin
  <1>4. \A y \in S : ~ (y < x)
    BY <1>2, <1>3
  <1>5. QED
    BY <1>4

LEMMA SameTexts ==
    ASSUME NEW f, NEW g, NEW n \in Nat, Traces(f, n), OrigTraces(g, n),
           \A i \in 1 .. n : Found(valuesFrom[i]) = Orig!Found(valuesFrom[i])
    PROVE  f[n] = g[n]
  <1> DEFINE Differ == {i \in 0 .. n : f[i] # g[i]}
  <1>1. SUFFICES ASSUME Differ # {} PROVE FALSE
    OBVIOUS
  <1>2. PICK i \in Differ : \A j \in Differ : i <= j
    <2>1. Differ \in SUBSET Nat
      OBVIOUS
    <2> HIDE DEF Differ
    <2>2. QED
      BY <1>1, <2>1, LeastNumber
  <1>3. i # 0
    BY DEF Traces, OrigTraces
  <1>4. i - 1 \in 0 .. n /\ i \in 1 .. n /\ f[i - 1] = g[i - 1]
    BY <1>2, <1>3
  <1>5. f[i] = g[i]
    BY <1>4 DEF Traces, OrigTraces
  <1>6. QED
    BY <1>5

(* What a reference finds is in the object that it names. *)
LEMMA SameObject ==
    ASSUME NEW ref,
           ref.kind \in {"ConfigMap", "Secret"} => data[ObjectOf(ref)] = origData[ObjectOf(ref)]
    PROVE  Found(ref) = Orig!Found(ref)
  BY DEF Found, Orig!Found, Orig!ObjectOf, ObjectOf

(* A reference whose object differs makes a dependency, or an earlier one of   *)
(* its name and another kind has made it already.                           *)
LEMMA DifferenceIsSeen ==
    ASSUME ValuesTyped, OrigTyped, NEW i \in 1 .. Len(valuesFrom),
           Found(valuesFrom[i]) # Orig!Found(valuesFrom[i])
    PROVE  IsDiffed \/ \E r \in Changed : Shadowed(r)
  <1> DEFINE ref == valuesFrom[i]
             object == ObjectOf(ref)
             Named == {j \in 1 .. Len(valuesFrom) : valuesFrom[j].name = ref.name}
  <1>1. ref \in References /\ ref.kind \in {"ConfigMap", "Secret"}
        /\ data[object] # origData[object]
    BY SameObject DEF ValuesTyped
  <1>2. object \in Changed
    <2>1. object \in Objects
      BY <1>1 DEF Objects
    <2>2. object \in DOMAIN data
      BY <2>1, ValuesAssumption DEF ValuesTyped
    <2>3. QED
      BY <1>1, <2>2 DEF Changed
  <1>3. PICK first \in Named : \A j \in Named : first <= j
    <2>1. Named \in SUBSET Nat /\ Named # {}
      OBVIOUS
    <2>2. QED
      BY <2>1, LeastNumber
  <1>4. first \in NewNames
    <2>1. first \in DOMAIN valuesFrom
      BY DEF ValuesTyped
    <2>2. ASSUME NEW j \in 1 .. first - 1, valuesFrom[j].name = valuesFrom[first].name
          PROVE  FALSE
      <3>1. j \in Named /\ j < first
        BY <2>2
      <3>2. QED
        BY <1>3, <3>1
    <2>3. QED
      BY <2>1, <2>2 DEF NewNames
  <1>5. CASE valuesFrom[first].kind = ref.kind
    <2>1. object = <<valuesFrom[first].kind, valuesFrom[first].name>>
      BY <1>5 DEF ObjectOf
    <2>2. object \in ResourceDependencies
      BY <1>4, <2>1 DEF ResourceDependencies
    <2>3. QED
      BY <1>2, <2>2 DEF IsDiffed
  <1>6. CASE valuesFrom[first].kind # ref.kind
    <2>1. first \in 1 .. i - 1
      BY <1>3, <1>6
    <2>2. i \in DOMAIN valuesFrom /\ object = <<ref.kind, ref.name>>
      BY DEF ValuesTyped, ObjectOf
    <2>3. Shadowed(object)
      BY <1>6, <2>1, <2>2 DEF Shadowed
    <2>4. QED
      BY <1>2, <2>3
  <1>7. QED
    BY <1>5, <1>6

LEMMA ChartIsSeen ==
    ASSUME Chart(versions[1]) # Chart(versions[2])
    PROVE  IsDiffed \/ \E r \in Changed : Resolved(r)
  <1>1. ChartSource \in Changed
    BY DEF Changed, Chart
  <1>2. CASE NoVersion \in {versions[1], versions[2]}
    <2>1. PICK i \in 1 .. 2 : versions[i] = NoVersion
      BY <1>2
    <2>2. Chart(versions[i]).source = ChartSource
      BY <2>1 DEF Chart
    <2>3. ChartSource \in ResourceDependencies
      BY <2>2 DEF ResourceDependencies
    <2>4. QED
      BY <1>1, <2>3 DEF IsDiffed
  <1>3. CASE NoVersion \notin {versions[1], versions[2]}
    BY <1>1, <1>3 DEF Resolved
  <1>4. QED
    BY <1>2, <1>3

(* A release whose values or chart differ is rendered, but for the two that   *)
(* its dependencies do not list.                                            *)
THEOREM ChangedReleaseIsDiffedHolds == DiffSpec => []ChangedReleaseIsDiffed
  <1>1. DiffInv /\ [DiffNext]_diffVars /\ ValuesTyped' => DiffInv'
    BY DiffStep
  <1>2. ASSUME DiffInv, outcome = "expanded", origOutcome = "expanded", values # origValues
        PROVE  IsDiffed \/ \E r \in Changed : Shadowed(r)
    <2> DEFINE n == Len(valuesFrom)
    <2>1. n \in Nat
      BY <1>2 DEF DiffInv, ValuesTyped
    <2>2. PICK f : Traces(f, n) /\ values = WithOwn(f[n])
      BY <1>2, <2>1 DEF DiffInv, Traced
    <2>3. PICK g : OrigTraces(g, n) /\ origValues = WithOwn(g[n])
      BY <1>2, <2>1 DEF DiffInv, OrigTraced
    <2>4. PICK i \in 1 .. n : Found(valuesFrom[i]) # Orig!Found(valuesFrom[i])
      BY <1>2, <2>1, <2>2, <2>3, SameTexts
    <2>5. QED
      BY <1>2, <2>4, DifferenceIsSeen DEF DiffInv
  <1>3. DiffInv => ChangedReleaseIsDiffed
    BY <1>2, ChartIsSeen DEF ChangedReleaseIsDiffed
  <1>4. ExpansionInv => ValuesTyped
    BY DEF ExpansionInv
  <1>5. QED
    BY <1>1, <1>3, <1>4, DiffBegins, ExpansionCorrect, PTL DEF DiffSpec
=============================================================================
