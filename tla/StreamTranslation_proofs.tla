---------------------- MODULE StreamTranslation_proofs ----------------------
(***************************************************************************)
(* For any number of chunks and tools: the types of StreamTranslation,     *)
(* that what the client receives is an Anthropic stream, and which pieces  *)
(* of the content arrive, in blocks of their kind.                         *)
(*                                                                         *)
(* The events that wait to be written lead the client, one legal step each,*)
(* from what it has seen to a view that agrees with the translator's state *)
(* (Live); translating a chunk extends this run event by event.            *)
(***************************************************************************)
EXTENDS StreamTranslation, TLAPS, FiniteSetTheorems, WellFoundedInduction

Kinds == Tool \cup {Text}
Block == [kind : Kinds, writes : Nat]
View == [phase : {"before", "content", "reason", "stopped"},
         blocks : [Indices -> {Unused} \cup Block], open : SUBSET Indices]
StreamState == [started : BOOLEAN, index : Indices, open : BOOLEAN,
                tools : [Tool -> Indices \cup {NoBlock}]]
Result == [state : StreamState, events : Seq(Event)]

Now == [phase |-> phase, blocks |-> blocks, open |-> open]
Late == interleaved \/ (lost /\ ~indexed)

\* It is clear which tool call a piece belongs to.
Clear == indexed \/ ~Late

WritesIn(b, kind) == MapThenSumSet(LAMBDA i : b[i].writes, {i \in Indices : b[i].kind = kind})

SameWrites(c, d) == \A kind \in Kinds : WritesIn(d.blocks, kind) = WritesIn(c.blocks, kind)

\* Of the y[kind] pieces of each kind that the chunks carried, the client's view c
\* has all, but for tool calls that were named in a chunk that could not be parsed;
\* only of text, if it is not clear which call a piece belongs to.
Delivered(clear, unnamed, c, y) ==
    \A kind \in Kinds : (kind = Text \/ clear) =>
        WritesIn(c.blocks, kind) = IF kind \in unnamed THEN 0 ELSE y[kind]

\* Of the calls in told, the translator's state s knows those that were named in a
\* chunk that could be parsed.
Named(numbered, clear, unnamed, s, told) ==
    /\ unnamed \subseteq told
    /\ numbered => \A t \in unnamed : s.tools[t] = NoBlock
    /\ clear /\ ~numbered => unnamed = {}
    /\ clear => \A t \in told \ unnamed : s.tools[IF numbered THEN t ELSE First] # NoBlock

\* The event e is legal for a client with the view c, whose next view is d.
Step(late, c, e, d) ==
    \/ e.type = "message_start" /\ c.phase = "before" /\ d = [c EXCEPT !.phase = "content"]
    \/ /\ e.type = "block_start" /\ c.phase = "content" /\ c.open = {}
       /\ e.index \in Indices /\ e.kind \in Kinds
       /\ \A j \in Indices : j < e.index <=> c.blocks[j] # Unused
       /\ e.kind # Text => \A j \in Indices : c.blocks[j] # Unused => c.blocks[j].kind # e.kind
       /\ d = [c EXCEPT !.blocks[e.index] = [kind |-> e.kind, writes |-> 0], !.open = {e.index}]
    \/ /\ e.type = "block_delta" /\ c.phase = "content"
       /\ e.index \in Indices /\ c.blocks[e.index] # Unused
       /\ ~late \/ c.blocks[e.index].kind = Text => e.index \in c.open
       /\ d = [c EXCEPT !.blocks[e.index].writes = @ + 1]
    \/ /\ e.type = "block_stop" /\ c.phase = "content"
       /\ e.index \in Indices /\ c.open = {e.index}
       /\ d = [c EXCEPT !.open = {}]
    \/ /\ e.type = "message_delta" /\ c.phase = "content" /\ c.open = {}
       /\ d = [c EXCEPT !.phase = "reason"]
    \/ e.type = "message_stop" /\ c.phase = "reason" /\ d = [c EXCEPT !.phase = "stopped"]

\* The events lead from c to d.
Run(late, c, events, d) ==
    \E v \in [0 .. Len(events) -> View] :
        /\ v[0] = c /\ v[Len(events)] = d
        /\ \A k \in 1 .. Len(events) : Step(late, v[k - 1], events[k], v[k])

\* A client's view c agrees with the translator's state s, when the upstream has
\* sent n chunks, named the calls in told and may go on writing those in cur.
Live(late, numbered, c, s, told, cur, n) ==
    /\ c.phase = IF s.started THEN "content" ELSE "before"
    /\ \A j \in Indices : c.blocks[j] # Unused <=> (j < s.index \/ (s.open /\ j = s.index))
    /\ c.open = IF s.open THEN {s.index} ELSE {}
    /\ \A j \in Indices : c.blocks[j] # Unused => c.blocks[j].kind \in told \cup {Text}
    /\ \A t \in Tool : s.tools[t] # NoBlock =>
          c.blocks[s.tools[t]] # Unused /\ c.blocks[s.tools[t]].kind # Text
    /\ (s.open /\ c.blocks[s.index].kind # Text) => \E t \in Tool : s.tools[t] = s.index
    /\ \A t \in Tool \ told : numbered => s.tools[t] = NoBlock
    /\ numbered => \A t \in Tool : s.tools[t] # NoBlock => c.blocks[s.tools[t]].kind = t
    /\ ~late => \A t \in cur :
          LET i == s.tools[IF numbered THEN t ELSE First]
          IN i # NoBlock => s.open /\ i = s.index /\ c.blocks[i].kind = t
    /\ n \in 0 .. MaxChunks /\ told \subseteq Tool /\ cur \subseteq Tool
    /\ s.index + (IF s.open THEN 1 ELSE 0) <= n + Cardinality(told)

Reaches(r, y, told, cur, n) ==
    /\ r \in Result /\ y \in [Kinds -> Nat]
    /\ Named(indexed, Clear, nameless, r.state, told)
    /\ \E c \in View : /\ Run(Late, Now, r.events, c)
                       /\ Live(Late, indexed, c, r.state, told, cur, n)
                       /\ Delivered(Clear, nameless, c, y)

Inductive ==
    /\ TypeOK
    /\ interleaved => indexed
    /\ failed => status = "broken"
    /\ \A t \in Tool \ announced : content[t] = 0
    /\ ~finished => Named(indexed, Clear, nameless, state, announced)
    /\ \E c \in View : /\ Run(Late, Now, pending, c)
                       /\ Delivered(Clear, nameless, c, content)
                       /\ ~finished => Live(Late, indexed, c, state, announced, current, chunks)
-----------------------------------------------------------------------------
(* Runs *)

LEMMA RunNone == ASSUME NEW late, NEW c \in View PROVE Run(late, c, <<>>, c)
  <1> DEFINE v == [k \in 0 .. 0 |-> c]
  <1>1. Len(<<>>) = 0 /\ v \in [0 .. 0 -> View] /\ v[0] = c
    OBVIOUS
  <1>2. \A k \in 1 .. 0 : Step(late, v[k - 1], <<>>[k], v[k])
    OBVIOUS
  <1> QED BY <1>1, <1>2 DEF Run

LEMMA RunAppend ==
    ASSUME NEW late, NEW c, NEW d, NEW e, NEW f \in View, NEW events \in Seq(Event),
           Run(late, c, events, d), Step(late, d, e, f)
    PROVE  Run(late, c, Append(events, e), f)
  <1> PICK v \in [0 .. Len(events) -> View] :
          /\ v[0] = c /\ v[Len(events)] = d
          /\ \A k \in 1 .. Len(events) : Step(late, v[k - 1], events[k], v[k])
    BY DEF Run
  <1> DEFINE n == Len(events)
             w == [k \in 0 .. n + 1 |-> IF k = n + 1 THEN f ELSE v[k]]
  <1>1. n \in Nat /\ Len(Append(events, e)) = n + 1
    OBVIOUS
  <1>2. w \in [0 .. Len(Append(events, e)) -> View] /\ w[0] = c /\ w[n + 1] = f
    BY <1>1
  <1>3. ASSUME NEW k \in 1 .. n + 1 PROVE Step(late, w[k - 1], Append(events, e)[k], w[k])
    <2>1. CASE k = n + 1
      <3>1. w[k - 1] = d /\ w[k] = f /\ Append(events, e)[k] = e
        BY <1>1, <2>1
      <3> QED BY <3>1
    <2>2. CASE k \in 1 .. n
      <3>1. w[k - 1] = v[k - 1] /\ w[k] = v[k] /\ Append(events, e)[k] = events[k]
        BY <1>1, <2>2
      <3> QED BY <2>2, <3>1
    <2> QED BY <1>1, <2>1, <2>2
  <1> QED BY <1>1, <1>2, <1>3 DEF Run

LEMMA RunFirst ==
    ASSUME NEW late, NEW c, NEW d, NEW events \in Seq(Event), events # <<>>,
           Run(late, c, events, d)
    PROVE  \E f \in View : Step(late, c, Head(events), f) /\ Run(late, f, Tail(events), d)
  <1> PICK v \in [0 .. Len(events) -> View] :
          /\ v[0] = c /\ v[Len(events)] = d
          /\ \A k \in 1 .. Len(events) : Step(late, v[k - 1], events[k], v[k])
    BY DEF Run
  <1> DEFINE n == Len(events) - 1
             w == [k \in 0 .. n |-> v[k + 1]]
  <1>1. /\ n \in Nat /\ Len(events) = n + 1 /\ Len(Tail(events)) = n
        /\ Head(events) = events[1]
        /\ \A k \in 1 .. n : Tail(events)[k] = events[k + 1]
    OBVIOUS
  <1>2. Step(late, c, Head(events), v[1]) /\ v[1] \in View
    BY <1>1
  <1>3. w \in [0 .. Len(Tail(events)) -> View] /\ w[0] = v[1] /\ w[n] = d
    BY <1>1
  <1>4. ASSUME NEW k \in 1 .. n PROVE Step(late, w[k - 1], Tail(events)[k], w[k])
    <2>1. w[k - 1] = v[k] /\ w[k] = v[k + 1] /\ Tail(events)[k] = events[k + 1]
      BY <1>1
    <2>2. k + 1 \in 1 .. Len(events) /\ (k + 1) - 1 = k
      BY <1>1
    <2> QED BY <2>1, <2>2
  <1>5. Run(late, v[1], Tail(events), d)
    BY <1>1, <1>3, <1>4 DEF Run
  <1> QED BY <1>2, <1>5

LEMMA RunNothing ==
    ASSUME NEW late, NEW c, NEW d, Run(late, c, <<>>, d) PROVE c = d
  BY DEF Run
-----------------------------------------------------------------------------
(* Blocks are numbered within Indices. *)

LEMMA Numbers ==
    /\ Cardinality(Tool) \in Nat /\ MaxChunks \in Nat
    /\ NoBlock \in Nat /\ NoBlock \notin Indices /\ 0 \in Indices
    /\ \A told \in SUBSET Tool : Cardinality(told) \in Nat /\ Cardinality(told) <= Cardinality(Tool)
    /\ \A told \in SUBSET Tool : \A t \in Tool \ told :
          Cardinality(told \cup {t}) = Cardinality(told) + 1
  <1>1. /\ Cardinality(Tool) \in Nat
        /\ \A told \in SUBSET Tool :
              IsFiniteSet(told) /\ Cardinality(told) \in Nat /\ Cardinality(told) <= Cardinality(Tool)
    BY FirstAssumption, FS_Subset, FS_CardinalityType
  <1>2. \A told \in SUBSET Tool : \A t \in Tool \ told :
          Cardinality(told \cup {t}) = Cardinality(told) + 1
    BY <1>1, FS_AddElement
  <1> QED BY <1>1, <1>2, ChunksAssumption DEF NoBlock, Indices

LEMMA NextIndex ==
    ASSUME NEW s \in StreamState, NEW told \in SUBSET Tool, NEW n \in 0 .. MaxChunks,
           s.index + (IF s.open THEN 1 ELSE 0) <= n + Cardinality(told)
    PROVE  s.open => s.index + 1 \in Indices
  <1>1. s.index \in Nat /\ s.open \in BOOLEAN
    BY Numbers DEF StreamState, Indices
  <1> QED BY <1>1, Numbers DEF Indices

LEMMA UnusedIsNoBlock == Unused \notin Block /\ Text \notin Tool
  BY ToolAssumption DEF Unused, Block, Kinds, Text
-----------------------------------------------------------------------------
(* What the client has received of each kind *)

\* What holds of the empty set, and of a set as soon as it holds of the set
\* without one of its elements, holds of every finite set.
LEMMA FiniteInduction ==
    ASSUME NEW S, IsFiniteSet(S), NEW Good \in SUBSET SUBSET S,
           {} \in Good,
           \A s \in SUBSET S : s # {} => \E x \in s : s \ {x} \in Good => s \in Good
    PROVE  Good = SUBSET S
  <1> DEFINE Bad == (SUBSET S) \ Good
             Order == StrictSubsetOrdering(S)
  <1>1. SUFFICES ASSUME Bad # {} PROVE FALSE
    OBVIOUS
  <1>2. PICK s \in Bad : \A t \in Bad : ~ (<<t, s>> \in Order)
    <2>1. IsWellFoundedOn(Order, SUBSET S)
      BY FS_StrictSubsetOrderingWellFounded, FS_FiniteSubsetsOfFinite
    <2>2. Bad \subseteq SUBSET S
      OBVIOUS
    <2> HIDE DEF Order, Bad
    <2> QED BY <1>1, <2>1, <2>2, WFMin
  <1>3. PICK x \in s : s \ {x} \in Good => s \in Good
    <2>1. s \in SUBSET S /\ s \notin Good
      OBVIOUS
    <2>2. s # {}
      BY <2>1
    <2> QED BY <2>1, <2>2
  <1>4. <<s \ {x}, s>> \in Order
    BY <1>3 DEF StrictSubsetOrdering
  <1>5. s \ {x} \notin Bad
    BY <1>2, <1>4
  <1> QED BY <1>3, <1>5

\* The writes of the blocks in S (the fold of MapThenSumSet), step by step.
Sum(b, S) == MapThenSumSet(LAMBDA i : b[i].writes, S)

Some(s) == CHOOSE x \in s : TRUE
IterSum(b, s, g) == IF s = {} THEN 0 ELSE b[Some(s)].writes + g[s \ {Some(s)}]
Partial(b, S) == CHOOSE g : g = [s \in SUBSET S |-> IterSum(b, s, g)]

LEMMA SomeIsElement == \A s : s # {} => Some(s) \in s
  BY DEF Some

\* The sum counts the pairs of a block and a number below its writes.
LEMMA SumCounts ==
    ASSUME NEW S, IsFiniteSet(S), NEW b, \A i \in S : b[i].writes \in Nat
    PROVE  /\ Sum(b, S) = Cardinality({p \in S \X Nat : p[2] < b[p[1]].writes})
           /\ IsFiniteSet({p \in S \X Nat : p[2] < b[p[1]].writes})
  <1> DEFINE Below(s) == {p \in s \X Nat : p[2] < b[p[1]].writes}
             Column(x) == {x} \X (0 .. b[x].writes - 1)
             G == [s \in SUBSET S |-> Cardinality(Below(s))]
             Good == {s \in SUBSET S : IsFiniteSet(Below(s))}
  <1>1. Sum(b, S) = Partial(b, S)[S]
    BY DEF Sum, MapThenSumSet, MapThenFoldSet, Partial, IterSum, Some
  <1>2. ASSUME NEW x \in S
        PROVE  IsFiniteSet(Column(x)) /\ Cardinality(Column(x)) = b[x].writes /\ b[x].writes \in Nat
    <2> DEFINE I == 0 .. b[x].writes - 1
               pair == [i \in I |-> <<x, i>>]
    <2>1. IsFiniteSet(I) /\ Cardinality(I) = b[x].writes /\ b[x].writes \in Nat
      <3>1. b[x].writes \in Nat
        OBVIOUS
      <3>2. \A m \in Nat : IsFiniteSet(0 .. m - 1) /\ Cardinality(0 .. m - 1) = m
        BY FS_Interval
      <3> QED BY <3>1, <3>2
    <2> HIDE DEF I
    <2>2. pair \in Bijection(I, {x} \X I)
      <3>1. pair \in [I -> {x} \X I]
        OBVIOUS
      <3>2. \A i, j \in I : pair[i] = pair[j] => i = j
        OBVIOUS
      <3>3. \A p \in {x} \X I : \E i \in I : pair[i] = p
        OBVIOUS
      <3> HIDE DEF pair
      <3> QED BY <3>1, <3>2, <3>3 DEF Bijection, Injection, Surjection, IsInjective
    <2>3. IsFiniteSet({x} \X I) /\ Cardinality({x} \X I) = Cardinality(I)
      BY <2>1, <2>2, FS_Bijection DEF ExistsBijection
    <2> QED BY <2>1, <2>3 DEF I
  <1>3. ASSUME NEW s \in SUBSET S, NEW x \in s
        PROVE  /\ Below(s) = Below(s \ {x}) \cup Column(x)
               /\ Below(s \ {x}) \cap Column(x) = {}
    <2>1. b[x].writes \in Nat
      OBVIOUS
    <2>2. ASSUME NEW p PROVE p \in Below(s) <=> p \in Below(s \ {x}) \/ p \in Column(x)
      BY <2>1
    <2> QED BY <2>2
  <1>4. Below({}) = {}
    OBVIOUS
  <1> HIDE DEF Below, Column
  <1>5. Good = SUBSET S
    <2>1. {} \in Good
      BY <1>4, FS_EmptySet
    <2>2. ASSUME NEW s \in SUBSET S, s # {}
          PROVE  \E x \in s : s \ {x} \in Good => s \in Good
      <3> PICK x \in s : TRUE
        BY <2>2
      <3>1. ASSUME s \ {x} \in Good PROVE s \in Good
        <4>1. IsFiniteSet(Below(s \ {x})) /\ IsFiniteSet(Column(x))
          BY <1>2, <3>1
        <4>2. IsFiniteSet(Below(s \ {x}) \cup Column(x))
          BY <4>1, FS_Union
        <4> QED BY <1>3, <4>2
      <3> QED BY <3>1
    <2>3. Good \in SUBSET SUBSET S
      OBVIOUS
    <2> HIDE DEF Good
    <2> QED BY <2>1, <2>2, <2>3, FiniteInduction
  <1>6. ASSUME NEW s \in SUBSET S, NEW x \in s
        PROVE  Cardinality(Below(s)) = b[x].writes + Cardinality(Below(s \ {x}))
    <2>1. IsFiniteSet(Below(s \ {x})) /\ Cardinality(Below(s \ {x})) \in Nat
      <3>1. s \ {x} \in Good
        BY <1>5
      <3> QED BY <3>1, FS_CardinalityType
    <2>2. IsFiniteSet(Column(x)) /\ Cardinality(Column(x)) = b[x].writes /\ b[x].writes \in Nat
      BY <1>2
    <2>3. Cardinality(Below(s \ {x}) \cup Column(x)) =
            Cardinality(Below(s \ {x})) + Cardinality(Column(x))
              - Cardinality(Below(s \ {x}) \cap Column(x))
      BY <2>1, <2>2, FS_Union
    <2>4. Cardinality(Below(s \ {x}) \cap Column(x)) = 0
      BY <1>3, FS_EmptySet
    <2> DEFINE n == Cardinality(Below(s))
               m == Cardinality(Below(s \ {x}))
    <2>5. n = m + b[x].writes - 0 /\ m \in Nat
      BY <1>3, <2>1, <2>2, <2>3, <2>4
    <2> HIDE DEF n, m
    <2>6. n = b[x].writes + m
      BY <2>2, <2>5
    <2> QED BY <2>6 DEF n, m
  <1>7. G = [s \in SUBSET S |-> IterSum(b, s, G)]
    <2> SUFFICES ASSUME NEW s \in SUBSET S PROVE G[s] = IterSum(b, s, G)
      OBVIOUS
    <2>1. CASE s = {}
      BY <2>1, <1>4, FS_EmptySet DEF IterSum
    <2>2. CASE s # {}
      <3>1. Some(s) \in s /\ s \ {Some(s)} \in SUBSET S
        BY <2>2, SomeIsElement
      <3> QED BY <2>2, <3>1, <1>6 DEF IterSum
    <2> QED BY <2>1, <2>2
  <1>8. Partial(b, S) = [s \in SUBSET S |-> IterSum(b, s, Partial(b, S))]
    <2> HIDE DEF G
    <2> QED BY <1>7 DEF Partial
  <1>9. SUBSET S = {s \in SUBSET S : Partial(b, S)[s] = Cardinality(Below(s))}
    <2> DEFINE p == Partial(b, S)
               Same == {s \in SUBSET S : p[s] = Cardinality(Below(s))}
    <2> HIDE DEF p
    <2>1. \A s \in SUBSET S : p[s] = IterSum(b, s, p)
      BY <1>8 DEF p
    <2>2. {} \in Same
      <3>1. {} \in SUBSET S /\ p[{}] = IterSum(b, {}, p)
        BY <2>1
      <3> QED BY <3>1, <1>4, FS_EmptySet DEF IterSum
    <2>3. ASSUME NEW s \in SUBSET S, s # {}
          PROVE  \E x \in s : s \ {x} \in Same => s \in Same
      <3>1. Some(s) \in s /\ s \ {Some(s)} \in SUBSET S
        BY <2>3, SomeIsElement
      <3>2. p[s] = b[Some(s)].writes + p[s \ {Some(s)}]
        BY <2>1, <2>3 DEF IterSum
      <3>3. Cardinality(Below(s)) = b[Some(s)].writes + Cardinality(Below(s \ {Some(s)}))
        BY <1>6, <3>1
      <3> QED BY <3>1, <3>2, <3>3
    <2>4. Same \in SUBSET SUBSET S
      OBVIOUS
    <2> HIDE DEF Same
    <2>5. Same = SUBSET S
      BY <2>2, <2>3, <2>4, FiniteInduction
    <2> QED BY <2>5 DEF Same, p
  <1>10. Sum(b, S) = Cardinality(Below(S))
    <2>1. S \in SUBSET S
      OBVIOUS
    <2> QED BY <1>1, <1>9, <2>1
  <1>11. IsFiniteSet(Below(S))
    BY <1>5
  <1> QED BY <1>10, <1>11 DEF Below

\* The pieces of kind k that have been written to the blocks b.
Pieces(b, k) == {p \in Indices \X Nat : b[p[1]].kind = k /\ p[2] < b[p[1]].writes}

LEMMA WritesCounted ==
    ASSUME NEW b \in [Indices -> {Unused} \cup Block], NEW k
    PROVE  WritesIn(b, k) = Cardinality(Pieces(b, k)) /\ IsFiniteSet(Pieces(b, k))
  <1> DEFINE S == {i \in Indices : b[i].kind = k}
             Q == {p \in S \X Nat : p[2] < b[p[1]].writes}
  <1>1. IsFiniteSet(S)
    <2>1. IsFiniteSet(Indices)
      BY Numbers, FS_Interval DEF Indices
    <2> QED BY <2>1, FS_Subset
  <1>2. \A i \in S : b[i].writes \in Nat
    BY DEF Block, Unused
  <1>3. Pieces(b, k) = Q
    BY DEF Pieces
  <1>4. WritesIn(b, k) = Sum(b, S)
    BY DEF WritesIn, Sum
  <1> HIDE DEF S
  <1>5. Sum(b, S) = Cardinality(Q) /\ IsFiniteSet(Q)
    BY <1>1, <1>2, SumCounts
  <1> QED BY <1>3, <1>4, <1>5

\* To blocks that are not in use nothing was written.
LEMMA NothingWritten ==
    ASSUME NEW b, b = [i \in Indices |-> Unused], NEW k \in Kinds
    PROVE  WritesIn(b, k) = 0
  <1>1. b \in [Indices -> {Unused} \cup Block]
    OBVIOUS
  <1>2. Pieces(b, k) = {}
    BY DEF Pieces, Unused
  <1> QED BY <1>1, <1>2, WritesCounted, FS_EmptySet

\* Starting a block writes nothing.
LEMMA StartWritesNothing ==
    ASSUME NEW b \in [Indices -> {Unused} \cup Block], NEW i \in Indices, b[i] = Unused,
           NEW kind \in Kinds, NEW k \in Kinds
    PROVE  WritesIn([b EXCEPT ![i] = [kind |-> kind, writes |-> 0]], k) = WritesIn(b, k)
  <1>1. PICK z : z = [kind |-> kind, writes |-> 0]
    OBVIOUS
  <1>2. PICK d : d = [b EXCEPT ![i] = z]
    OBVIOUS
  <1>3. z \in Block /\ d \in [Indices -> {Unused} \cup Block]
        /\ d[i] = z /\ \A j \in Indices \ {i} : d[j] = b[j]
    BY <1>1, <1>2 DEF Block
  <1>4. ASSUME NEW p \in Indices \X Nat PROVE p \in Pieces(d, k) <=> p \in Pieces(b, k)
    <2>1. CASE p[1] = i
      BY <1>1, <1>3, <2>1 DEF Pieces, Unused
    <2>2. CASE p[1] # i
      <3>1. d[p[1]] = b[p[1]]
        BY <1>3, <2>2
      <3> QED BY <3>1 DEF Pieces
    <2> QED BY <2>1, <2>2
  <1>5. Pieces(d, k) = Pieces(b, k)
    BY <1>4 DEF Pieces
  <1>6. WritesIn(d, k) = WritesIn(b, k)
    BY <1>3, <1>5, WritesCounted
  <1> QED BY <1>1, <1>2, <1>6

\* A piece is one more of the kind of its block.
LEMMA PieceIsWritten ==
    ASSUME NEW b \in [Indices -> {Unused} \cup Block], NEW i \in Indices, b[i] \in Block,
           NEW d \in [Indices -> {Unused} \cup Block],
           d[i].kind = b[i].kind, d[i].writes = b[i].writes + 1,
           \A j \in Indices \ {i} : d[j] = b[j],
           NEW k \in Kinds
    PROVE  /\ WritesIn(b, k) \in Nat
           /\ WritesIn(d, k) = WritesIn(b, k) + (IF k = b[i].kind THEN 1 ELSE 0)
  <1>1. IsFiniteSet(Pieces(b, k)) /\ WritesIn(b, k) = Cardinality(Pieces(b, k))
        /\ WritesIn(b, k) \in Nat /\ WritesIn(d, k) = Cardinality(Pieces(d, k))
    BY WritesCounted, FS_CardinalityType
  <1>2. PICK w \in Nat : w = b[i].writes
    BY DEF Block
  <1>3. PICK x : x = <<i, w>>
    OBVIOUS
  <1>4. ASSUME NEW p \in Indices \X Nat
        PROVE  p \in Pieces(d, k) <=> p \in Pieces(b, k) \/ (k = b[i].kind /\ p = x)
    <2>1. PICK j \in Indices, n \in Nat : p = <<j, n>> /\ p[1] = j /\ p[2] = n
      OBVIOUS
    <2>2. CASE j = i
      <3>1. p \in Pieces(b, k) <=> b[i].kind = k /\ n < w
        BY <1>2, <2>1, <2>2 DEF Pieces
      <3>2. p \in Pieces(d, k) <=> b[i].kind = k /\ n < w + 1
        BY <1>2, <2>1, <2>2 DEF Pieces
      <3>3. p = x <=> n = w
        BY <1>3, <2>1, <2>2
      <3>4. n < w + 1 <=> n < w \/ n = w
        OBVIOUS
      <3> QED BY <3>1, <3>2, <3>3, <3>4
    <2>3. CASE j # i
      <3>1. d[j] = b[j] /\ p # x
        BY <1>3, <2>1, <2>3
      <3> QED BY <2>1, <3>1 DEF Pieces
    <2> QED BY <2>2, <2>3
  <1>5. x \in Indices \X Nat /\ x \notin Pieces(b, k)
    BY <1>2, <1>3 DEF Pieces
  <1>6. CASE k = b[i].kind
    <2>1. Pieces(d, k) = Pieces(b, k) \cup {x}
      BY <1>4, <1>5, <1>6 DEF Pieces
    <2> PICK s : s = Pieces(b, k)
      OBVIOUS
    <2>2. Cardinality(s \cup {x}) = Cardinality(s) + 1
      BY <1>1, <1>5, FS_AddElement
    <2> QED BY <1>1, <1>6, <2>1, <2>2
  <1>7. CASE k # b[i].kind
    <2>1. Pieces(d, k) = Pieces(b, k)
      BY <1>4, <1>7 DEF Pieces
    <2> QED BY <1>1, <1>7, <2>1
  <1> QED BY <1>6, <1>7
-----------------------------------------------------------------------------
(* One event at a time, the view goes on agreeing with the state. *)

LEMMA Starts ==
    ASSUME NEW late, NEW numbered, NEW c \in View, NEW s \in StreamState,
           NEW told, NEW cur, NEW n, Live(late, numbered, c, s, told, cur, n), ~s.started
    PROVE  \E d \in View :
             /\ Step(late, c, Message("message_start"), d) /\ d.blocks = c.blocks
             /\ Live(late, numbered, d, [s EXCEPT !.started = TRUE], told, cur, n)
  <1> DEFINE d == [c EXCEPT !.phase = "content"]
             z == [s EXCEPT !.started = TRUE]
  <1>1. /\ d \in View /\ d.phase = "content" /\ d.blocks = c.blocks /\ d.open = c.open
        /\ z.started /\ z.index = s.index /\ z.open = s.open /\ z.tools = s.tools
    BY DEF View, StreamState
  <1>2. Step(late, c, Message("message_start"), d)
    BY DEF Step, Message, Ev, Live
  <1>3. Live(late, numbered, d, z, told, cur, n)
    <2> HIDE DEF d, z
    <2> QED BY <1>1 DEF Live
  <1> QED BY <1>1, <1>2, <1>3

LEMMA Stops ==
    ASSUME NEW late, NEW numbered, NEW c \in View, NEW s \in StreamState,
           NEW told, NEW cur, NEW n, Live(late, numbered, c, s, told, cur, n), s.started, s.open
    PROVE  \E d \in View :
             /\ Step(late, c, Ev("block_stop", s.index, Text), d) /\ d = [c EXCEPT !.open = {}]
             /\ [s EXCEPT !.open = FALSE, !.index = @ + 1] \in StreamState
             /\ Live(late, numbered, d, [s EXCEPT !.open = FALSE, !.index = @ + 1], told, {}, n)
  <1> DEFINE d == [c EXCEPT !.open = {}]
             z == [s EXCEPT !.open = FALSE, !.index = @ + 1]
  <1>1. s.index + 1 \in Indices /\ s.index \in Indices
    BY NextIndex DEF Live, StreamState
  <1>2. /\ d \in View /\ d.phase = c.phase /\ d.blocks = c.blocks /\ d.open = {}
        /\ z \in StreamState /\ z.started = s.started /\ z.index = s.index + 1 /\ ~z.open
        /\ z.tools = s.tools
    BY <1>1 DEF View, StreamState
  <1>3. Step(late, c, Ev("block_stop", s.index, Text), d)
    BY <1>1 DEF Step, Ev, Live
  <1>4. \A j \in Indices : j < s.index + 1 <=> (j < s.index \/ j = s.index)
    BY <1>1, Numbers DEF Indices
  <1>5. z.index + 0 <= n + Cardinality(told)
    <2>1. told \in SUBSET Tool /\ n \in 0 .. MaxChunks /\ s.index + 1 <= n + Cardinality(told)
      BY DEF Live
    <2> QED BY <1>1, <1>2, <2>1, Numbers DEF Indices
  <1>6. Live(late, numbered, d, z, told, {}, n)
    <2> HIDE DEF d, z
    <2> QED BY <1>2, <1>4, <1>5 DEF Live
  <1> QED BY <1>2, <1>3, <1>6

LEMMA StartsText ==
    ASSUME NEW late, NEW numbered, NEW c \in View, NEW s \in StreamState,
           NEW told, NEW cur, NEW n, Live(late, numbered, c, s, told, cur, n),
           s.started, ~s.open, n < MaxChunks
    PROVE  /\ [s EXCEPT !.open = TRUE] \in StreamState
           /\ \E d \in View :
                /\ Step(late, c, Ev("block_start", s.index, Text), d)
                /\ SameWrites(c, d)
                /\ Live(late, numbered, d, [s EXCEPT !.open = TRUE], told, {}, n + 1)
  <1> DEFINE b == [kind |-> Text, writes |-> 0]
             d == [c EXCEPT !.blocks[s.index] = b, !.open = {s.index}]
             z == [s EXCEPT !.open = TRUE]
  <1>1. s.index \in Indices /\ b \in Block /\ b # Unused
    BY UnusedIsNoBlock DEF StreamState, Block, Kinds
  <1>2. /\ d \in View /\ d.phase = c.phase /\ d.open = {s.index}
        /\ d.blocks[s.index] = b /\ \A j \in Indices \ {s.index} : d.blocks[j] = c.blocks[j]
        /\ z \in StreamState /\ z.started = s.started /\ z.index = s.index /\ z.open
        /\ z.tools = s.tools
    <2>1. c.blocks \in [Indices -> {Unused} \cup Block]
      BY DEF View
    <2> QED BY <1>1, <2>1 DEF View, StreamState
  <1>3. c.blocks[s.index] = Unused /\ c.phase = "content" /\ c.open = {}
    BY <1>1, Numbers DEF Live, Indices
  <1>4. Step(late, c, Ev("block_start", s.index, Text), d)
    BY <1>1, <1>3 DEF Step, Ev, Live, Kinds
  <1>5. n + 1 \in 0 .. MaxChunks /\ z.index + 1 <= (n + 1) + Cardinality(told)
    BY <1>1, <1>2, Numbers DEF Live, Indices
  <1>6. \A t \in Tool : s.tools[t] # NoBlock => s.tools[t] \in Indices \ {s.index}
    BY <1>3 DEF Live, StreamState
  <1>7. Live(late, numbered, d, z, told, {}, n + 1)
    <2> HIDE DEF d, z
    <2>1. \A j \in Indices : d.blocks[j] # Unused <=> (j < z.index \/ (z.open /\ j = z.index))
      BY <1>1, <1>2, <1>3 DEF Live
    <2>2. \A j \in Indices : d.blocks[j] # Unused => d.blocks[j].kind \in told \cup {Text}
      BY <1>2 DEF Live
    <2>3. \A t \in Tool : z.tools[t] # NoBlock =>
            d.blocks[z.tools[t]] # Unused /\ d.blocks[z.tools[t]].kind # Text
      BY <1>2, <1>6 DEF Live
    <2>4. d.blocks[z.index].kind = Text
      BY <1>2
    <2>5. numbered => \A t \in Tool : z.tools[t] # NoBlock => d.blocks[z.tools[t]].kind = t
      BY <1>2, <1>6 DEF Live
    <2> QED BY <1>2, <1>3, <1>5, <2>1, <2>2, <2>3, <2>4, <2>5 DEF Live
  <1>8. SameWrites(c, d)
    <2>1. c.blocks \in [Indices -> {Unused} \cup Block] /\ Text \in Kinds
      BY <1>1 DEF View, Kinds
    <2>2. d.blocks = [c.blocks EXCEPT ![s.index] = b]
      BY DEF View
    <2> QED BY <1>1, <1>3, <2>1, <2>2, StartWritesNothing DEF SameWrites
  <1> QED BY <1>2, <1>4, <1>7, <1>8

\* The state once the block of a tool call is open, which is found under slot.
TookBlock(s, slot) == [s EXCEPT !.open = TRUE, !.tools[slot] = s.index]

LEMMA StartsCall ==
    ASSUME NEW late, NEW numbered, NEW c \in View, NEW s \in StreamState,
           NEW told, NEW cur, NEW n, Live(late, numbered, c, s, told, cur, n),
           s.started, ~s.open, NEW t \in Tool, t \notin told, NEW slot \in Tool,
           numbered => slot = t, ~numbered => slot = First
    PROVE  /\ TookBlock(s, slot) \in StreamState /\ TookBlock(s, slot).started
           /\ \E d \in View : /\ Step(late, c, Ev("block_start", s.index, t), d)
                              /\ SameWrites(c, d)
                              /\ Live(late, numbered, d, TookBlock(s, slot), told \cup {t}, {t}, n)
  <1> DEFINE b == [kind |-> t, writes |-> 0]
             d == [c EXCEPT !.blocks[s.index] = b, !.open = {s.index}]
             z == [s EXCEPT !.open = TRUE, !.tools[slot] = s.index]
  <1>1. s.index \in Indices /\ b \in Block /\ b # Unused /\ slot \in Tool /\ t # Text
    BY UnusedIsNoBlock, FirstAssumption DEF StreamState, Block, Kinds
  <1>2. /\ d \in View /\ d.phase = c.phase /\ d.open = {s.index}
        /\ d.blocks[s.index] = b /\ \A j \in Indices \ {s.index} : d.blocks[j] = c.blocks[j]
    <2>1. c.blocks \in [Indices -> {Unused} \cup Block]
      BY DEF View
    <2> QED BY <1>1, <2>1 DEF View
  <1>3. /\ z \in StreamState /\ z.started = s.started /\ z.index = s.index /\ z.open
        /\ z.tools[slot] = s.index /\ \A u \in Tool \ {slot} : z.tools[u] = s.tools[u]
    <2>1. s.tools \in [Tool -> Indices \cup {NoBlock}]
      BY DEF StreamState
    <2> QED BY <1>1, <2>1 DEF StreamState
  <1>4. c.blocks[s.index] = Unused /\ c.phase = "content" /\ c.open = {}
    BY <1>1, Numbers DEF Live, Indices
  <1>5. Step(late, c, Ev("block_start", s.index, t), d)
    <2>1. \A j \in Indices : c.blocks[j] # Unused => c.blocks[j].kind # t
      BY <1>1 DEF Live
    <2>2. \A j \in Indices : j < s.index <=> c.blocks[j] # Unused
      BY DEF Live
    <2> QED BY <1>1, <1>4, <2>1, <2>2 DEF Step, Ev, Kinds
  <1>6. told \in SUBSET Tool /\ n \in 0 .. MaxChunks
        /\ z.index + 1 <= n + Cardinality(told \cup {t})
    <2>1. told \in SUBSET Tool /\ n \in 0 .. MaxChunks /\ s.index <= n + Cardinality(told)
      BY DEF Live, StreamState, Indices
    <2> QED BY <1>1, <1>3, <2>1, Numbers DEF Indices
  <1>7. \A u \in Tool : s.tools[u] # NoBlock => s.tools[u] \in Indices \ {s.index}
    BY <1>4 DEF Live, StreamState
  <1>8. Live(late, numbered, d, z, told \cup {t}, {t}, n)
    <2> HIDE DEF d, z
    <2>1. \A j \in Indices : d.blocks[j] # Unused <=> (j < z.index \/ (z.open /\ j = z.index))
      BY <1>1, <1>2, <1>3, <1>4 DEF Live
    <2>2. \A j \in Indices : d.blocks[j] # Unused => d.blocks[j].kind \in told \cup {t} \cup {Text}
      BY <1>2 DEF Live
    <2>3. \A u \in Tool : z.tools[u] # NoBlock =>
            d.blocks[z.tools[u]] # Unused /\ d.blocks[z.tools[u]].kind # Text
      <3>1. CASE TRUE
        <4> SUFFICES ASSUME NEW u \in Tool, z.tools[u] # NoBlock
                     PROVE  d.blocks[z.tools[u]] # Unused /\ d.blocks[z.tools[u]].kind # Text
          OBVIOUS
        <4>1. CASE u = slot
          BY <1>1, <1>2, <1>3, <4>1
        <4>2. CASE u # slot
          BY <1>2, <1>3, <1>7, <4>2 DEF Live
        <4> QED BY <4>1, <4>2
      <3> QED BY <3>1
    <2>4. \E u \in Tool : z.tools[u] = z.index
      BY <1>1, <1>3
    <2>5. \A u \in Tool \ (told \cup {t}) : numbered => z.tools[u] = NoBlock
      BY <1>3 DEF Live
    <2>6. \A u \in {t} : LET i == z.tools[IF numbered THEN u ELSE First]
                       IN i # NoBlock => z.open /\ i = z.index /\ d.blocks[i].kind = u
      BY <1>2, <1>3
    <2>7. told \cup {t} \subseteq Tool
      BY <1>6
    <2>8. numbered => \A u \in Tool : z.tools[u] # NoBlock => d.blocks[z.tools[u]].kind = u
      <3> SUFFICES ASSUME numbered, NEW u \in Tool, z.tools[u] # NoBlock
                   PROVE  d.blocks[z.tools[u]].kind = u
        OBVIOUS
      <3>1. CASE u = slot
        BY <1>2, <1>3, <3>1
      <3>2. CASE u # slot
        BY <1>2, <1>3, <1>7, <3>2 DEF Live
      <3> QED BY <3>1, <3>2
    <2> QED BY <1>2, <1>3, <1>4, <1>6, <2>1, <2>2, <2>3, <2>4, <2>5, <2>6, <2>7, <2>8 DEF Live
  <1>9. SameWrites(c, d)
    <2>1. c.blocks \in [Indices -> {Unused} \cup Block] /\ t \in Kinds
      BY <1>1 DEF View, Kinds
    <2>2. d.blocks = [c.blocks EXCEPT ![s.index] = b]
      BY DEF View
    <2> QED BY <1>1, <1>4, <2>1, <2>2, StartWritesNothing DEF SameWrites
  <1> QED BY <1>2, <1>3, <1>5, <1>8, <1>9 DEF TookBlock

LEMMA WritesBlock ==
    ASSUME NEW late, NEW numbered, NEW c \in View, NEW s \in StreamState,
           NEW told, NEW cur, NEW n, Live(late, numbered, c, s, told, cur, n), s.started,
           NEW i \in Indices, NEW kind,
           c.blocks[i] # Unused, ~late \/ c.blocks[i].kind = Text => i \in c.open
    PROVE  \E d \in View : /\ Step(late, c, Ev("block_delta", i, kind), d)
                          /\ Live(late, numbered, d, s, told, cur, n)
                          /\ \A k \in Kinds :
                                /\ WritesIn(c.blocks, k) \in Nat
                                /\ WritesIn(d.blocks, k) = WritesIn(c.blocks, k)
                                      + (IF k = c.blocks[i].kind THEN 1 ELSE 0)
  <1> DEFINE d == [c EXCEPT !.blocks[i].writes = @ + 1]
  <1>1. /\ d \in View /\ d.phase = c.phase /\ d.open = c.open
        /\ \A j \in Indices : /\ d.blocks[j] # Unused <=> c.blocks[j] # Unused
                              /\ d.blocks[j].kind = c.blocks[j].kind
        /\ d.blocks[i].writes = c.blocks[i].writes + 1 /\ c.blocks[i] \in Block
        /\ \A j \in Indices \ {i} : d.blocks[j] = c.blocks[j]
    <2>1. c.blocks \in [Indices -> {Unused} \cup Block] /\ c.blocks[i] \in Block
      BY DEF View
    <2>2. [c.blocks[i] EXCEPT !.writes = @ + 1] \in Block
          /\ [c.blocks[i] EXCEPT !.writes = @ + 1].kind = c.blocks[i].kind
          /\ [c.blocks[i] EXCEPT !.writes = @ + 1].writes = c.blocks[i].writes + 1
      BY <2>1 DEF Block
    <2>3. d = [c EXCEPT !.blocks = [c.blocks EXCEPT ![i] = [c.blocks[i] EXCEPT !.writes = @ + 1]]]
      BY DEF View
    <2> HIDE DEF d
    <2>4. d.blocks = [c.blocks EXCEPT ![i] = [c.blocks[i] EXCEPT !.writes = @ + 1]]
          /\ d.phase = c.phase /\ d.open = c.open /\ d \in View
      BY <2>1, <2>2, <2>3 DEF View
    <2> QED BY <2>1, <2>2, <2>4, UnusedIsNoBlock
  <1>2. Step(late, c, Ev("block_delta", i, kind), d)
    BY DEF Step, Ev, Live
  <1>3. Live(late, numbered, d, s, told, cur, n)
    <2> HIDE DEF d
    <2>1. \A t \in Tool : s.tools[t] # NoBlock => s.tools[t] \in Indices
      BY DEF StreamState
    <2>2. s.index \in Indices
      BY DEF StreamState
    <2> QED BY <1>1, <2>1, <2>2 DEF Live
  <1>4. ASSUME NEW k \in Kinds
        PROVE  /\ WritesIn(c.blocks, k) \in Nat
               /\ WritesIn(d.blocks, k) = WritesIn(c.blocks, k) + (IF k = c.blocks[i].kind THEN 1 ELSE 0)
    <2> HIDE DEF d
    <2>1. /\ c.blocks \in [Indices -> {Unused} \cup Block]
          /\ d.blocks \in [Indices -> {Unused} \cup Block]
      BY <1>1 DEF View
    <2> QED BY <1>1, <2>1, PieceIsWritten
  <1> HIDE DEF d
  <1> QED BY <1>1, <1>2, <1>3, <1>4

LEMMA Weakens ==
    ASSUME NEW late, NEW numbered, NEW c \in View, NEW s \in StreamState,
           NEW told, NEW cur, NEW n, Live(late, numbered, c, s, told, cur, n),
           NEW m \in n .. MaxChunks, NEW fewer \in SUBSET cur
    PROVE  Live(late, numbered, c, s, told, fewer, m)
  <1>1. /\ n \in Nat /\ m \in 0 .. MaxChunks /\ n <= m
        /\ s.index \in Nat /\ s.open \in BOOLEAN /\ Cardinality(told) \in Nat
    BY Numbers DEF Live, StreamState, Indices
  <1>2. s.index + (IF s.open THEN 1 ELSE 0) <= m + Cardinality(told)
    BY <1>1 DEF Live
  <1> QED BY <1>1, <1>2 DEF Live
-----------------------------------------------------------------------------
(* The translation of a chunk *)

LEMMA EventTypes ==
    /\ \A type \in {"message_start", "message_delta", "message_stop"} : Message(type) \in Event
    /\ \A type \in {"block_start", "block_delta", "block_stop"}, i \in Indices, kind \in Kinds :
          Ev(type, i, kind) \in Event
  BY DEF Message, Ev, Event, Kinds

LEMMA SameTools ==
    ASSUME NEW numbered, NEW clear, NEW unnamed, NEW s, NEW told,
           Named(numbered, clear, unnamed, s, told), NEW z, z.tools = s.tools
    PROVE  Named(numbered, clear, unnamed, z, told)
  BY DEF Named

LEMMA Emits ==
    ASSUME NEW r \in Result, NEW e \in Event, NEW s \in StreamState, NEW y \in [Kinds -> Nat],
           NEW c, Run(Late, Now, r.events, c),
           NEW d \in View, Step(Late, c, e, d),
           NEW told, NEW cur, NEW n, Live(Late, indexed, d, s, told, cur, n),
           Named(indexed, Clear, nameless, s, told), Delivered(Clear, nameless, d, y)
    PROVE  Reaches([state |-> s, events |-> Append(r.events, e)], y, told, cur, n)
  <1>1. r.events \in Seq(Event) /\ Append(r.events, e) \in Seq(Event)
    BY DEF Result
  <1>2. Run(Late, Now, Append(r.events, e), d)
    BY <1>1, RunAppend
  <1> QED BY <1>1, <1>2 DEF Reaches, Result

LEMMA EmitIs ==
    ASSUME NEW r \in Result, NEW e
    PROVE  Emit(r, e) = [state |-> r.state, events |-> Append(r.events, e)]
  <1> DEFINE q == Append(r.events, e)
  <1> PICK a, b : r = [state |-> a, events |-> b]
    BY DEF Result
  <1>1. Emit(r, e) = [r EXCEPT !.events = q]
    BY DEF Emit
  <1> HIDE DEF q
  <1>2. [r EXCEPT !.events = q] = [state |-> a, events |-> q]
    OBVIOUS
  <1>3. r.state = a
    OBVIOUS
  <1> QED BY <1>1, <1>2, <1>3 DEF q

LEMMA WrittenIs ==
    ASSUME NEW r \in Result, NEW i, NEW kind \in Kinds
    PROVE  Written(r, i, kind) =
             [state |-> r.state, events |-> Append(r.events, Ev("block_delta", i, kind))]
  BY EmitIs DEF Written

LEMMA StoppedIs ==
    ASSUME NEW r \in Result, r.state.open, r.state.started
    PROVE  /\ Stopped(r, TRUE) =
                [state |-> [r.state EXCEPT !.open = FALSE, !.index = @ + 1],
                 events |-> Append(r.events, Ev("block_stop", r.state.index, Text))]
           /\ Stopped(r, TRUE).state.started /\ ~Stopped(r, TRUE).state.open
  BY DEF Stopped, Emit, Result, StreamState

LEMMA StartReaches ==
    ASSUME NEW r, NEW y, NEW told, NEW cur, NEW n, Reaches(r, y, told, cur, n)
    PROVE  Reaches(MessageStarted(r), y, told, cur, n) /\ MessageStarted(r).state.started
  <1> PICK c \in View : /\ Run(Late, Now, r.events, c)
                        /\ Live(Late, indexed, c, r.state, told, cur, n)
                        /\ Delivered(Clear, nameless, c, y)
    BY DEF Reaches
  <1>1. CASE r.state.started
    BY <1>1 DEF MessageStarted
  <1>2. CASE ~r.state.started
    <2> DEFINE s == [r.state EXCEPT !.started = TRUE]
               e == Message("message_start")
    <2>1. r \in Result /\ r.state \in StreamState /\ y \in [Kinds -> Nat]
      BY DEF Reaches, Result
    <2>2. MessageStarted(r) = [state |-> s, events |-> Append(r.events, e)]
      BY <1>2, <2>1 DEF MessageStarted, Emit, Result
    <2>3. s \in StreamState /\ s.started /\ s.tools = r.state.tools
      BY <2>1 DEF StreamState
    <2>4. \E d \in View : /\ Step(Late, c, e, d) /\ Live(Late, indexed, d, s, told, cur, n)
                          /\ Delivered(Clear, nameless, d, y)
      BY <1>2, <2>1, Starts DEF Delivered
    <2>5. e \in Event
      BY EventTypes
    <2> HIDE DEF s, e
    <2>6. Named(indexed, Clear, nameless, s, told)
      BY <2>3, SameTools DEF Reaches
    <2>7. Reaches([state |-> s, events |-> Append(r.events, e)], y, told, cur, n)
      BY <2>1, <2>3, <2>4, <2>5, <2>6, Emits
    <2> QED BY <2>2, <2>3, <2>7
  <1> QED BY <1>1, <1>2

LEMMA StopReaches ==
    ASSUME NEW r, NEW y, NEW told, NEW cur, NEW n, Reaches(r, y, told, cur, n), r.state.started
    PROVE  /\ Reaches(Stopped(r, TRUE), y, told, {}, n)
           /\ Stopped(r, TRUE).state.started /\ ~Stopped(r, TRUE).state.open
  <1> PICK c \in View : /\ Run(Late, Now, r.events, c)
                        /\ Live(Late, indexed, c, r.state, told, cur, n)
                        /\ Delivered(Clear, nameless, c, y)
    BY DEF Reaches
  <1>0. r \in Result /\ r.state \in StreamState /\ y \in [Kinds -> Nat]
    BY DEF Reaches, Result
  <1>1. CASE ~r.state.open
    <2>1. Live(Late, indexed, c, r.state, told, {}, n)
      <3>1. n \in n .. MaxChunks /\ {} \in SUBSET cur
        BY Numbers DEF Live
      <3> QED BY <1>0, <3>1, Weakens
    <2> QED BY <1>0, <1>1, <2>1 DEF Stopped, Reaches
  <1>2. CASE r.state.open
    <2> DEFINE s == [r.state EXCEPT !.open = FALSE, !.index = @ + 1]
               e == Ev("block_stop", r.state.index, Text)
    <2>1. /\ Stopped(r, TRUE) = [state |-> s, events |-> Append(r.events, e)]
          /\ Stopped(r, TRUE).state.started /\ ~Stopped(r, TRUE).state.open
      BY <1>0, <1>2, StoppedIs
    <2>2. s \in StreamState
          /\ \E d \in View : /\ Step(Late, c, e, d) /\ Live(Late, indexed, d, s, told, {}, n)
                             /\ Delivered(Clear, nameless, d, y)
      <3>1. PICK d \in View : /\ Step(Late, c, e, d) /\ Live(Late, indexed, d, s, told, {}, n)
                              /\ d = [c EXCEPT !.open = {}] /\ s \in StreamState
        BY <1>0, <1>2, Stops
      <3>2. d.blocks = c.blocks
        BY <3>1 DEF View
      <3> QED BY <3>1, <3>2 DEF Delivered
    <2>3. s.tools = r.state.tools
      BY <1>0 DEF StreamState
    <2>4. e \in Event
      BY <1>0, EventTypes DEF StreamState, Kinds
    <2> HIDE DEF s, e
    <2>5. Named(indexed, Clear, nameless, s, told)
      BY <2>3, SameTools DEF Reaches
    <2>6. Reaches([state |-> s, events |-> Append(r.events, e)], y, told, {}, n)
      BY <1>0, <2>2, <2>4, <2>5, Emits
    <2> QED BY <2>1, <2>6
  <1> QED BY <1>0, <1>1, <1>2 DEF StreamState

LEMMA WriteReaches ==
    ASSUME NEW r, NEW y, NEW told, NEW cur, NEW n, Reaches(r, y, told, cur, n), r.state.started,
           NEW i \in Indices, NEW kind \in Kinds, Clear => kind \notin nameless, Text \notin nameless,
           \A c \in View : Live(Late, indexed, c, r.state, told, cur, n) =>
               /\ c.blocks[i] # Unused
               /\ ~Late \/ c.blocks[i].kind = Text => i \in c.open
               /\ c.blocks[i].kind = Text <=> kind = Text
               /\ Clear => c.blocks[i].kind = kind
    PROVE  Reaches(Written(r, i, kind), [y EXCEPT ![kind] = @ + 1], told, cur, n)
           /\ Written(r, i, kind).state = r.state
  <1> PICK c \in View : /\ Run(Late, Now, r.events, c)
                        /\ Live(Late, indexed, c, r.state, told, cur, n)
                        /\ Delivered(Clear, nameless, c, y)
    BY DEF Reaches
  <1> DEFINE e == Ev("block_delta", i, kind)
             z == [y EXCEPT ![kind] = @ + 1]
  <1>1. /\ r \in Result /\ r.state \in StreamState /\ y \in [Kinds -> Nat]
        /\ Named(indexed, Clear, nameless, r.state, told)
    BY DEF Reaches, Result
  <1>2. Written(r, i, kind) = [state |-> r.state, events |-> Append(r.events, e)]
    BY <1>1, WrittenIs
  <1>3. z \in [Kinds -> Nat] /\ e \in Event
    BY <1>1, EventTypes
  <1>4. \E d \in View : /\ Step(Late, c, e, d) /\ Live(Late, indexed, d, r.state, told, cur, n)
                        /\ Delivered(Clear, nameless, d, z)
    <2>1. /\ c.blocks[i] # Unused
          /\ ~Late \/ c.blocks[i].kind = Text => i \in c.open
          /\ c.blocks[i].kind = Text <=> kind = Text
          /\ Clear => c.blocks[i].kind = kind
      OBVIOUS
    <2>2. PICK d \in View :
            /\ Step(Late, c, e, d) /\ Live(Late, indexed, d, r.state, told, cur, n)
            /\ \A k \in Kinds :
                  /\ WritesIn(c.blocks, k) \in Nat
                  /\ WritesIn(d.blocks, k) = WritesIn(c.blocks, k)
                        + (IF k = c.blocks[i].kind THEN 1 ELSE 0)
      BY <1>1, <2>1, WritesBlock
    <2>3. ASSUME NEW k \in Kinds, k = Text \/ Clear
          PROVE  WritesIn(d.blocks, k) = IF k \in nameless THEN 0 ELSE z[k]
      <3>1. WritesIn(c.blocks, k) = IF k \in nameless THEN 0 ELSE y[k]
        BY <2>3 DEF Delivered
      <3>2. k = c.blocks[i].kind <=> k = kind
        BY <2>1, <2>3
      <3>3. CASE k = kind
        <4>1. k \notin nameless /\ z[k] = y[k] + 1
          BY <1>1, <2>3, <3>3
        <4> QED BY <2>2, <3>1, <3>2, <3>3, <4>1
      <3>4. CASE k # kind
        <4>1. z[k] = y[k] /\ WritesIn(c.blocks, k) \in Nat
          BY <1>1, <2>2, <3>4
        <4>2. WritesIn(d.blocks, k) = WritesIn(c.blocks, k)
          BY <2>2, <3>2, <3>4, <4>1
        <4> QED BY <3>1, <4>1, <4>2
      <3> QED BY <3>3, <3>4
    <2> QED BY <2>2, <2>3 DEF Delivered
  <1> HIDE DEF e, z
  <1>5. Reaches([state |-> r.state, events |-> Append(r.events, e)], z, told, cur, n)
    BY <1>1, <1>3, <1>4, Emits
  <1> QED BY <1>2, <1>5 DEF z

LEMMA TextReaches ==
    ASSUME NEW r, NEW y, NEW told, NEW cur, NEW n, Reaches(r, y, told, cur, n),
           r.state.started, n < MaxChunks
    PROVE  Reaches(TextTranslated(r), [y EXCEPT ![Text] = @ + 1], told, {}, n + 1)
           /\ TextTranslated(r).state.started
  <1> DEFINE closed == IF IsToolBlockOpen(r.state) THEN Stopped(r, TRUE) ELSE r
             opened == IF closed.state.open THEN closed ELSE Started(closed, Text)
  <1>1. n \in 0 .. MaxChunks /\ n + 1 \in n .. MaxChunks
    BY Numbers DEF Reaches, Live
  <1>2. /\ Reaches(closed, y, told, {}, n) /\ closed.state.started
        /\ closed.state.open => ~IsToolBlockOpen(closed.state)
    <2>1. CASE IsToolBlockOpen(r.state)
      BY <2>1, StopReaches
    <2>2. CASE ~IsToolBlockOpen(r.state)
      <3> PICK c \in View : /\ Run(Late, Now, r.events, c)
                            /\ Live(Late, indexed, c, r.state, told, cur, n)
                            /\ Delivered(Clear, nameless, c, y)
        BY DEF Reaches
      <3>1. n \in n .. MaxChunks /\ {} \in SUBSET cur /\ r \in Result /\ r.state \in StreamState
        BY <1>1, Numbers DEF Reaches, Result
      <3>2. Live(Late, indexed, c, r.state, told, {}, n)
        BY <3>1, Weakens
      <3> QED BY <2>2, <3>1, <3>2 DEF Reaches
    <2> QED BY <2>1, <2>2
  <1> HIDE DEF closed
  <1>3. /\ Reaches(opened, y, told, {}, n + 1) /\ opened.state.started
        /\ opened.state.open /\ ~IsToolBlockOpen(opened.state)
    <2> PICK c \in View : /\ Run(Late, Now, closed.events, c)
                          /\ Live(Late, indexed, c, closed.state, told, {}, n)
                          /\ Delivered(Clear, nameless, c, y)
      BY <1>2 DEF Reaches
    <2>0. /\ closed \in Result /\ closed.state \in StreamState /\ y \in [Kinds -> Nat]
          /\ Named(indexed, Clear, nameless, closed.state, told)
      BY <1>2 DEF Reaches, Result
    <2>1. CASE closed.state.open
      <3>1. Live(Late, indexed, c, closed.state, told, {}, n + 1)
        BY <1>1, <2>0, Weakens
      <3> QED BY <1>2, <2>0, <2>1, <3>1 DEF Reaches
    <2>2. CASE ~closed.state.open
      <3> DEFINE s == [closed.state EXCEPT !.open = TRUE]
                 e == Ev("block_start", closed.state.index, Text)
      <3>1. opened = [state |-> s, events |-> Append(closed.events, e)]
        BY <2>0, <2>2 DEF Started, Emit, Result
      <3>2. s.started /\ s.open /\ s.index = closed.state.index /\ s.tools = closed.state.tools
        BY <1>2, <2>0 DEF StreamState
      <3>3. s \in StreamState
            /\ \E d \in View : /\ Step(Late, c, e, d) /\ Live(Late, indexed, d, s, told, {}, n + 1)
                               /\ Delivered(Clear, nameless, d, y)
        BY <1>2, <2>0, <2>2, StartsText DEF Delivered, SameWrites
      <3>4. ~IsToolBlockOpen(s)
        <4>1. closed.state.index \in Indices /\ closed.state.tools \in [Tool -> Indices \cup {NoBlock}]
          BY <2>0 DEF StreamState
        <4>2. ~(c.blocks[closed.state.index] # Unused)
          BY <2>2, <4>1, Numbers DEF Live, Indices
        <4> QED BY <3>2, <4>1, <4>2, Numbers DEF IsToolBlockOpen, Live
      <3>5. e \in Event
        BY <2>0, EventTypes DEF StreamState, Kinds
      <3> HIDE DEF s, e
      <3>6. Named(indexed, Clear, nameless, s, told)
        BY <2>0, <3>2, SameTools
      <3>7. Reaches([state |-> s, events |-> Append(closed.events, e)], y, told, {}, n + 1)
        BY <2>0, <3>3, <3>5, <3>6, Emits
      <3> QED BY <3>1, <3>2, <3>4, <3>7
    <2> QED BY <2>1, <2>2
  <1> HIDE DEF opened
  <1>4. \A c \in View : Live(Late, indexed, c, opened.state, told, {}, n + 1) =>
               /\ c.blocks[opened.state.index] # Unused
               /\ opened.state.index \in c.open
               /\ c.blocks[opened.state.index].kind = Text
    <2>1. opened.state.index \in Indices
      BY <1>3 DEF Reaches, Result, StreamState
    <2> QED BY <1>3, <2>1 DEF Live, IsToolBlockOpen
  <1>5. opened.state.index \in Indices /\ Text \in Kinds
    BY <1>3 DEF Reaches, Result, StreamState, Kinds
  <1>6. Text \notin nameless
    <2>1. told \subseteq Tool /\ nameless \subseteq told
      BY <1>3 DEF Reaches, Live, Named
    <2> QED BY <2>1, UnusedIsNoBlock
  <1>7. TextTranslated(r) = Written(opened, opened.state.index, Text)
    BY DEF TextTranslated, opened, closed
  <1>8. PICK i, m, last, kind : i = opened.state.index /\ m = n + 1 /\ last = {} /\ kind = Text
    OBVIOUS
  <1>9. /\ Reaches(opened, y, told, last, m) /\ i \in Indices
        /\ kind \in Kinds /\ Text \notin nameless /\ (Clear => kind \notin nameless)
    BY <1>3, <1>5, <1>6, <1>8
  <1>10. \A c \in View : Live(Late, indexed, c, opened.state, told, last, m) =>
              /\ c.blocks[i] # Unused
              /\ ~Late \/ c.blocks[i].kind = Text => i \in c.open
              /\ c.blocks[i].kind = Text <=> kind = Text
              /\ Clear => c.blocks[i].kind = kind
    BY <1>4, <1>8
  <1>11. Reaches(Written(opened, i, kind), [y EXCEPT ![kind] = @ + 1], told, last, m)
         /\ Written(opened, i, kind).state = opened.state
    BY <1>3, <1>9, <1>10, WriteReaches
  <1> QED BY <1>3, <1>7, <1>8, <1>11

CallsTranslated(r, calls) == FoldLeft(CallTranslated, r, calls)

LEMMA FoldNone == ASSUME NEW r PROVE CallsTranslated(r, <<>>) = r
  <1> DEFINE calls == <<>>
             Iter(s, g) == IF s = {} THEN r ELSE LET x == Max(s) IN CallTranslated(g[s \ {x}], calls[x])
             fold == CHOOSE g : g = [s \in SUBSET (DOMAIN calls) |-> Iter(s, g)]
             G == [s \in SUBSET (DOMAIN calls) |-> r]
  <1>1. CallsTranslated(r, calls) = fold[DOMAIN calls]
    BY DEF CallsTranslated, FoldLeft, MapThenFoldSet
  <1>2. DOMAIN calls = {}
    OBVIOUS
  <1> HIDE DEF calls
  <1>3. G = [s \in SUBSET (DOMAIN calls) |-> Iter(s, G)]
    BY <1>2
  <1>4. fold = [s \in SUBSET (DOMAIN calls) |-> Iter(s, fold)]
    <2> HIDE DEF G, Iter
    <2> QED BY <1>3
  <1>5. fold[{}] = r
    <2> HIDE DEF fold
    <2> QED BY <1>4
  <1> QED BY <1>1, <1>2, <1>5

LEMMA FoldOne == ASSUME NEW r, NEW x PROVE CallsTranslated(r, <<x>>) = CallTranslated(r, x)
  <1> DEFINE calls == <<x>>
             Iter(s, g) == IF s = {} THEN r ELSE LET i == Max(s) IN CallTranslated(g[s \ {i}], calls[i])
             fold == CHOOSE g : g = [s \in SUBSET (DOMAIN calls) |-> Iter(s, g)]
             G == [s \in SUBSET (DOMAIN calls) |-> IF s = {} THEN r ELSE CallTranslated(r, x)]
  <1>1. CallsTranslated(r, calls) = fold[DOMAIN calls]
    BY DEF CallsTranslated, FoldLeft, MapThenFoldSet
  <1>2. DOMAIN calls = {1} /\ calls[1] = x
    OBVIOUS
  <1>3. Max({1}) = 1
    BY DEF Max
  <1> HIDE DEF calls
  <1>4. G = [s \in SUBSET (DOMAIN calls) |-> Iter(s, G)]
    <2> SUFFICES ASSUME NEW s \in SUBSET {1} PROVE G[s] = Iter(s, G)
      BY <1>2
    <2>1. CASE s = {}
      BY <2>1, <1>2
    <2>2. CASE s = {1}
      <3>1. Max(s) = 1 /\ s \ {1} = {}
        BY <2>2, <1>3
      <3> QED BY <3>1, <2>2, <1>2
    <2> QED BY <2>1, <2>2
  <1>5. fold = [s \in SUBSET (DOMAIN calls) |-> Iter(s, fold)]
    <2> HIDE DEF G, Iter
    <2> QED BY <1>4
  <1> HIDE DEF fold
  <1>6. fold[{}] = r
    BY <1>5
  <1>7. fold[{1}] = CallTranslated(fold[{}], calls[1])
    <2>1. {1} \ {1} = {} /\ {1} # {}
      OBVIOUS
    <2> QED BY <1>2, <1>3, <1>5, <2>1
  <1> QED BY <1>1, <1>2, <1>6, <1>7 DEF calls

LEMMA FoldTwo ==
    ASSUME NEW r, NEW x, NEW y
    PROVE  CallsTranslated(r, <<x, y>>) = CallTranslated(CallTranslated(r, x), y)
  <1> DEFINE calls == <<x, y>>
             Iter(s, g) == IF s = {} THEN r ELSE LET i == Max(s) IN CallTranslated(g[s \ {i}], calls[i])
             fold == CHOOSE g : g = [s \in SUBSET (DOMAIN calls) |-> Iter(s, g)]
             G == [s \in SUBSET (DOMAIN calls) |->
                     IF s = {} THEN r
                     ELSE IF s = {1} THEN CallTranslated(r, x)
                     ELSE IF s = {2} THEN CallTranslated(r, y)
                     ELSE CallTranslated(CallTranslated(r, x), y)]
  <1>1. CallsTranslated(r, calls) = fold[DOMAIN calls]
    BY DEF CallsTranslated, FoldLeft, MapThenFoldSet
  <1>2. DOMAIN calls = {1, 2} /\ calls[1] = x /\ calls[2] = y
    OBVIOUS
  <1>3. Max({1}) = 1 /\ Max({2}) = 2 /\ Max({1, 2}) = 2
    BY DEF Max
  <1>4. /\ {1} \ {1} = {} /\ {2} \ {2} = {} /\ {1, 2} \ {2} = {1}
        /\ {1} # {} /\ {2} # {} /\ {1, 2} # {} /\ {1} # {2} /\ {1, 2} # {1} /\ {1, 2} # {2}
        /\ \A s \in SUBSET {1, 2} : s = {} \/ s = {1} \/ s = {2} \/ s = {1, 2}
    <2>1. ASSUME NEW s \in SUBSET {1, 2} PROVE s = {} \/ s = {1} \/ s = {2} \/ s = {1, 2}
      <3>1. CASE 1 \in s /\ 2 \in s
        BY <3>1
      <3>2. CASE 1 \in s /\ 2 \notin s
        BY <3>2
      <3>3. CASE 1 \notin s /\ 2 \in s
        BY <3>3
      <3>4. CASE 1 \notin s /\ 2 \notin s
        BY <3>4
      <3> QED BY <3>1, <3>2, <3>3, <3>4
    <2>2. /\ {1} \ {1} = {} /\ {2} \ {2} = {} /\ {1, 2} \ {2} = {1}
          /\ {1} # {} /\ {2} # {} /\ {1, 2} # {} /\ {1} # {2} /\ {1, 2} # {1} /\ {1, 2} # {2}
      OBVIOUS
    <2> QED BY <2>1, <2>2
  <1> HIDE DEF calls
  <1>5. G = [s \in SUBSET (DOMAIN calls) |-> Iter(s, G)]
    <2>0. /\ {} \in SUBSET {1, 2} /\ {1} \in SUBSET {1, 2}
      OBVIOUS
    <2>1. G[{}] = r /\ G[{1}] = CallTranslated(r, x)
      BY <1>2, <1>4, <2>0
    <2> SUFFICES ASSUME NEW s \in SUBSET {1, 2} PROVE G[s] = Iter(s, G)
      BY <1>2
    <2>2. CASE s = {}
      BY <2>2, <1>2
    <2>3. CASE s = {1}
      <3>1. G[s] = CallTranslated(r, x)
        BY <1>2, <1>4, <2>3
      <3> HIDE DEF G
      <3> QED BY <3>1, <2>3, <2>1, <1>2, <1>3, <1>4
    <2>4. CASE s = {2}
      <3>1. G[s] = CallTranslated(r, y)
        BY <1>2, <1>4, <2>4
      <3> HIDE DEF G
      <3> QED BY <3>1, <2>4, <2>1, <1>2, <1>3, <1>4
    <2>5. CASE s = {1, 2}
      <3>1. G[s] = CallTranslated(CallTranslated(r, x), y)
        BY <1>2, <1>4, <2>5
      <3> HIDE DEF G
      <3> QED BY <3>1, <2>5, <2>1, <1>2, <1>3, <1>4
    <2> QED BY <1>4, <2>2, <2>3, <2>4, <2>5
  <1>6. fold = [s \in SUBSET (DOMAIN calls) |-> Iter(s, fold)]
    <2> HIDE DEF G, Iter
    <2> QED BY <1>5
  <1> HIDE DEF fold
  <1>7. \A s \in SUBSET {1, 2} : fold[s] = Iter(s, fold)
    BY <1>2, <1>6
  <1>8. fold[{}] = r
    BY <1>7
  <1>9. fold[{1}] = CallTranslated(r, x)
    <2>1. {1} \in SUBSET {1, 2}
      OBVIOUS
    <2>2. fold[{1}] = Iter({1}, fold)
      BY <1>7, <2>1
    <2> QED BY <1>2, <1>3, <1>4, <1>8, <2>2
  <1>10. fold[{1, 2}] = CallTranslated(CallTranslated(r, x), y)
    <2>2. fold[{1, 2}] = Iter({1, 2}, fold)
      BY <1>7
    <2> QED BY <1>2, <1>3, <1>4, <1>9, <2>2
  <1> QED BY <1>1, <1>2, <1>10 DEF calls

Opening(m, slot, i) == [[m EXCEPT !.state.open = TRUE] EXCEPT !.state.tools[slot] = i]

LEMMA OpensIs ==
    ASSUME NEW a, NEW b, NEW slot, NEW m, m = [state |-> a, events |-> b]
    PROVE  Opening(m, slot, a.index) = [state |-> TookBlock(a, slot), events |-> b]
  <1>1. PICK d : d = [a EXCEPT !.open = TRUE]
    OBVIOUS
  <1>2. PICK o : o = [state |-> d, events |-> b]
    OBVIOUS
  <1>3. PICK q : q = [d EXCEPT !.tools[slot] = a.index]
    OBVIOUS
  <1>4. m.state = a /\ o.state = d
    BY <1>2
  <1>5. [m EXCEPT !.state = d] = o
    BY <1>2
  <1>6. [m EXCEPT !.state.open = TRUE] = o
    BY <1>1, <1>4, <1>5
  <1>7. [o EXCEPT !.state = q] = [state |-> q, events |-> b]
    BY <1>2
  <1>8. [o EXCEPT !.state.tools[slot] = a.index] = [state |-> q, events |-> b]
    BY <1>3, <1>4, <1>7
  <1>9. q = TookBlock(a, slot)
    BY <1>1, <1>3 DEF TookBlock
  <1> QED BY <1>6, <1>8, <1>9 DEF Opening

LEMMA OpenedIs ==
    ASSUME NEW r, NEW closed \in Result, closed = Stopped(r, TRUE), NEW x
    PROVE  CallOpened(r, x) =
             [state |-> TookBlock(closed.state, Slot(x.tool)),
              events |-> Append(closed.events, Ev("block_start", closed.state.index, x.tool))]
  <1>0. PICK e : e = Ev("block_start", closed.state.index, x.tool)
    OBVIOUS
  <1>1. PICK a, b : a = closed.state /\ b = Append(closed.events, e)
    OBVIOUS
  <1>2. PICK m : m = Emit(closed, e)
    OBVIOUS
  <1>3. m = [state |-> a, events |-> b]
    BY <1>1, <1>2, EmitIs
  <1>4. CallOpened(r, x) = Opening(m, Slot(x.tool), a.index)
    BY <1>0, <1>1, <1>2 DEF CallOpened, Started, Opening
  <1>5. Opening(m, Slot(x.tool), a.index) = [state |-> TookBlock(a, Slot(x.tool)), events |-> b]
    BY <1>3, OpensIs
  <1>6. CallOpened(r, x) = [state |-> TookBlock(a, Slot(x.tool)), events |-> b]
    BY <1>4, <1>5
  <1> QED BY <1>0, <1>1, <1>6

\* A call that is opened is one that the state knows.
LEMMA TookNames ==
    ASSUME NEW s \in StreamState, NEW told \in SUBSET Tool, NEW t \in Tool, t \notin told,
           NEW slot \in Tool, NEW numbered, NEW clear, NEW unnamed,
           slot = IF numbered THEN t ELSE First, s.index # NoBlock,
           Named(numbered, clear, unnamed, s, told)
    PROVE  Named(numbered, clear, unnamed, TookBlock(s, slot), told \cup {t})
  <1> PICK z : z = TookBlock(s, slot)
    OBVIOUS
  <1>1. z.tools[slot] # NoBlock /\ \A u \in Tool \ {slot} : z.tools[u] = s.tools[u]
    <2>1. s.tools \in [Tool -> Indices \cup {NoBlock}]
      BY DEF StreamState
    <2> QED BY <2>1 DEF TookBlock, StreamState
  <1>2. unnamed \subseteq told /\ t \notin unnamed /\ First \in Tool
    BY FirstAssumption DEF Named
  <1>3. ASSUME clear, NEW u \in (told \cup {t}) \ unnamed
        PROVE  z.tools[IF numbered THEN u ELSE First] # NoBlock
    <2>1. CASE (IF numbered THEN u ELSE First) = slot
      BY <1>1, <2>1
    <2>2. CASE (IF numbered THEN u ELSE First) # slot
      <3>1. u \in told \ unnamed /\ (IF numbered THEN u ELSE First) \in Tool
        BY <1>2, <2>2
      <3> QED BY <1>1, <1>3, <2>2, <3>1 DEF Named
    <2> QED BY <2>1, <2>2
  <1>4. numbered => \A u \in unnamed : z.tools[u] = NoBlock
    BY <1>1, <1>2 DEF Named
  <1>5. clear /\ ~numbered => unnamed = {}
    BY DEF Named
  <1>6. Named(numbered, clear, unnamed, z, told \cup {t})
    BY <1>2, <1>3, <1>4, <1>5 DEF Named
  <1> QED BY <1>6

LEMMA NamedReaches ==
    ASSUME NEW r, NEW y, NEW told, NEW cur, NEW n, Reaches(r, y, told, cur, n), r.state.started,
           NEW x \in Call, x.tool \notin told
    PROVE  Reaches(CallOpened(r, x), y, told \cup {x.tool}, {x.tool}, n)
           /\ CallOpened(r, x).state.started
  <1>1. PICK closed : closed = Stopped(r, TRUE)
    OBVIOUS
  <1>2. Reaches(closed, y, told, {}, n) /\ closed.state.started /\ ~closed.state.open
    BY <1>1, StopReaches
  <1> PICK c \in View : /\ Run(Late, Now, closed.events, c)
                        /\ Live(Late, indexed, c, closed.state, told, {}, n)
                        /\ Delivered(Clear, nameless, c, y)
    BY <1>2 DEF Reaches
  <1> DEFINE s == TookBlock(closed.state, Slot(x.tool))
             e == Ev("block_start", closed.state.index, x.tool)
  <1>3. /\ closed \in Result /\ closed.state \in StreamState /\ y \in [Kinds -> Nat]
        /\ x.tool \in Tool /\ told \in SUBSET Tool
        /\ Named(indexed, Clear, nameless, closed.state, told)
    BY <1>2 DEF Reaches, Result, Call, Live
  <1>4. CallOpened(r, x) = [state |-> s, events |-> Append(closed.events, e)]
    BY <1>1, <1>3, OpenedIs
  <1>5. PICK t, slot : t = x.tool /\ slot = Slot(x.tool)
    OBVIOUS
  <1>6. /\ t \in Tool /\ t \notin told /\ slot \in Tool
        /\ indexed => slot = t
        /\ ~indexed => slot = First
    BY <1>3, <1>5, FirstAssumption DEF Slot
  <1>7. s \in StreamState /\ s.started
        /\ \E d \in View : /\ Step(Late, c, e, d)
                           /\ Delivered(Clear, nameless, d, y)
                           /\ Live(Late, indexed, d, s, told \cup {x.tool}, {x.tool}, n)
    <2>1. /\ TookBlock(closed.state, slot) \in StreamState /\ TookBlock(closed.state, slot).started
          /\ \E d \in View : /\ Step(Late, c, Ev("block_start", closed.state.index, t), d)
                             /\ SameWrites(c, d)
                             /\ Live(Late, indexed, d, TookBlock(closed.state, slot), told \cup {t}, {t}, n)
      BY <1>2, <1>3, <1>6, StartsCall
    <2> QED BY <1>5, <2>1 DEF Delivered, SameWrites
  <1>8. e \in Event
    BY <1>3, EventTypes DEF StreamState, Kinds
  <1>9. Named(indexed, Clear, nameless, s, told \cup {x.tool})
    <2>1. closed.state.index # NoBlock
      BY <1>3, Numbers DEF StreamState
    <2>2. Named(indexed, Clear, nameless, TookBlock(closed.state, slot), told \cup {t})
      BY <1>3, <1>6, <2>1, TookNames
    <2> QED BY <1>5, <2>2
  <1> HIDE DEF s, e
  <1>10. Reaches([state |-> s, events |-> Append(closed.events, e)], y, told \cup {x.tool}, {x.tool}, n)
    BY <1>3, <1>7, <1>8, <1>9, Emits
  <1> QED BY <1>4, <1>7, <1>10

\* The pieces carried once those of call x are counted too.
Counted(y, x) == IF x.args THEN [y EXCEPT ![x.tool] = @ + 1] ELSE y

LEMMA CallReaches ==
    ASSUME NEW r, NEW y, NEW told, NEW cur, NEW n, Reaches(r, y, told, cur, n), r.state.started,
           NEW x \in Call, Follows(x, told, cur)
    PROVE  Reaches(CallTranslated(r, x), Counted(y, x), told \cup {x.tool}, {x.tool}, n)
           /\ CallTranslated(r, x).state.started
  <1> DEFINE named == IF x.named THEN CallOpened(r, x) ELSE r
             i == named.state.tools[Slot(x.tool)]
  <1>1. x.tool \in Tool /\ x.tool # Text /\ Slot(x.tool) \in Tool /\ x.tool \in Kinds
    BY FirstAssumption, UnusedIsNoBlock DEF Call, Slot, Kinds
  <1>2. Reaches(named, y, told \cup {x.tool}, {x.tool}, n) /\ named.state.started
    <2>1. CASE x.named
      BY <2>1, NamedReaches DEF Follows
    <2>2. CASE ~x.named
      <3> PICK c \in View : /\ Run(Late, Now, r.events, c)
                            /\ Live(Late, indexed, c, r.state, told, cur, n)
                            /\ Delivered(Clear, nameless, c, y)
        BY DEF Reaches
      <3>1. told \cup {x.tool} = told /\ (interleaved \/ cur = {x.tool})
        BY <2>2 DEF Follows
      <3>2. Live(Late, indexed, c, r.state, told, {x.tool}, n)
        BY <1>1, <3>1 DEF Live, Late
      <3> QED BY <2>2, <3>1, <3>2 DEF Reaches
    <2> QED BY <2>1, <2>2
  <1>3. PICK every, last : every = told \cup {x.tool} /\ last = {x.tool}
    OBVIOUS
  <1>4. x.tool \in every /\ Reaches(named, y, every, last, n)
    BY <1>2, <1>3
  <1> HIDE DEF named
  <1>5. /\ named \in Result /\ named.state \in StreamState /\ i \in Indices \cup {NoBlock}
        /\ y \in [Kinds -> Nat] /\ Named(indexed, Clear, nameless, named.state, every)
    BY <1>1, <1>4 DEF Reaches, Result, StreamState
  <1>6. CASE x.args /\ i # NoBlock
    <2>1. CallTranslated(r, x) = Written(named, i, x.tool)
      BY <1>6 DEF CallTranslated, named
    <2>2. \A c \in View : Live(Late, indexed, c, named.state, every, last, n) =>
             /\ c.blocks[i] # Unused
             /\ ~Late \/ c.blocks[i].kind = Text => i \in c.open
             /\ c.blocks[i].kind = Text <=> x.tool = Text
             /\ Clear => c.blocks[i].kind = x.tool
      BY <1>1, <1>3, <1>6 DEF Live, Slot, Clear
    <2>3. Clear => x.tool \notin nameless
      BY <1>5, <1>6 DEF Named, Slot
    <2>4. Text \notin nameless
      <3>1. every \subseteq Tool /\ nameless \subseteq every
        BY <1>4 DEF Reaches, Live, Named
      <3> QED BY <3>1, UnusedIsNoBlock
    <2> HIDE DEF i
    <2>5. i \in Indices
      BY <1>5, <1>6
    <2>6. Reaches(Written(named, i, x.tool), [y EXCEPT ![x.tool] = @ + 1], every, last, n)
          /\ Written(named, i, x.tool).state = named.state
      BY <1>1, <1>2, <1>4, <2>2, <2>3, <2>4, <2>5, WriteReaches
    <2> QED BY <1>2, <1>3, <1>6, <2>1, <2>6 DEF Counted
  <1>7. CASE x.args /\ i = NoBlock
    <2>1. CallTranslated(r, x) = named
      BY <1>7 DEF CallTranslated, named
    <2>2. Clear => x.tool \in nameless
      BY <1>4, <1>5, <1>7 DEF Named, Slot
    <2>3. PICK z : z = [y EXCEPT ![x.tool] = @ + 1]
      OBVIOUS
    <2>4. z \in [Kinds -> Nat] /\ \A k \in Kinds : k # x.tool => z[k] = y[k]
      BY <1>1, <1>5, <2>3
    <2>5. ASSUME NEW c, Delivered(Clear, nameless, c, y) PROVE Delivered(Clear, nameless, c, z)
      <3> SUFFICES ASSUME NEW k \in Kinds, k = Text \/ Clear
                   PROVE  WritesIn(c.blocks, k) = IF k \in nameless THEN 0 ELSE z[k]
        BY DEF Delivered
      <3>1. WritesIn(c.blocks, k) = IF k \in nameless THEN 0 ELSE y[k]
        BY <2>5 DEF Delivered
      <3>2. k \in nameless \/ z[k] = y[k]
        BY <1>1, <2>2, <2>4
      <3> QED BY <3>1, <3>2
    <2>6. Reaches(named, z, every, last, n)
      BY <1>4, <2>4, <2>5 DEF Reaches
    <2> QED BY <1>2, <1>3, <1>7, <2>1, <2>3, <2>6 DEF Counted
  <1>8. CASE ~x.args
    <2>1. CallTranslated(r, x) = named
      BY <1>8 DEF CallTranslated, named
    <2> QED BY <1>2, <1>8, <2>1 DEF Counted
  <1> QED BY <1>6, <1>7, <1>8

LEMMA UpdatesState ==
    ASSUME NEW a, NEW q, NEW m, m = [state |-> a, events |-> q]
    PROVE  [m EXCEPT !.state.open = FALSE, !.state.index = IF FALSE THEN @ + 1 ELSE @]
             = [m EXCEPT !.state = [a EXCEPT !.open = FALSE, !.index = IF FALSE THEN @ + 1 ELSE @]]
  OBVIOUS

LEMMA StoppedLastIs ==
    ASSUME NEW r \in Result, r.state.open
    PROVE  \E s \in StreamState :
             Stopped(r, FALSE) =
               [state |-> s, events |-> Append(r.events, Ev("block_stop", r.state.index, Text))]
  <1>1. PICK a, b : r = [state |-> a, events |-> b]
    BY DEF Result
  <1>2. PICK q : q = Append(r.events, Ev("block_stop", r.state.index, Text))
    OBVIOUS
  <1>3. PICK m : m = Emit(r, Ev("block_stop", r.state.index, Text))
    OBVIOUS
  <1>4. m = [state |-> a, events |-> q]
    BY <1>1, <1>2, <1>3, EmitIs
  <1>5. Stopped(r, FALSE) = [m EXCEPT !.state.open = FALSE, !.state.index = IF FALSE THEN @ + 1 ELSE @]
    BY <1>3 DEF Stopped
  <1>6. PICK s : s = [a EXCEPT !.open = FALSE, !.index = IF FALSE THEN @ + 1 ELSE @]
    OBVIOUS
  <1>7. [m EXCEPT !.state = s] = [state |-> s, events |-> q]
    BY <1>4
  <1>8. Stopped(r, FALSE) = [state |-> s, events |-> q]
    <2>1. Stopped(r, FALSE) = [m EXCEPT !.state = s]
      BY <1>4, <1>5, <1>6, UpdatesState
    <2> QED BY <1>7, <2>1
  <1>9. a \in StreamState
    BY <1>1 DEF Result
  <1>10. s \in StreamState
    BY <1>6, <1>9 DEF StreamState
  <1> QED BY <1>2, <1>8, <1>10

\* After the last chunk the events end the message.
LEMMA FinishedEnds ==
    ASSUME NEW r, NEW y, NEW told, NEW cur, NEW n, Reaches(r, y, told, cur, n), r.state.started
    PROVE  /\ Finished(r) \in Result
           /\ \E c \in View : /\ Run(Late, Now, Finished(r).events, c)
                              /\ Delivered(Clear, nameless, c, y)
  <1> PICK c \in View : /\ Run(Late, Now, r.events, c)
                        /\ Live(Late, indexed, c, r.state, told, cur, n)
                        /\ Delivered(Clear, nameless, c, y)
    BY DEF Reaches
  <1>0. r \in Result /\ r.state \in StreamState /\ r.events \in Seq(Event)
    BY DEF Reaches, Result
  <1>1. PICK p : p = Stopped(r, FALSE)
    OBVIOUS
  <1>2. p \in Result
        /\ \E d \in View : /\ d.phase = "content" /\ d.open = {} /\ Run(Late, Now, p.events, d)
                           /\ d.blocks = c.blocks
    <2>1. CASE ~r.state.open
      BY <1>0, <1>1, <2>1 DEF Stopped, Live
    <2>2. CASE r.state.open
      <3> DEFINE e == Ev("block_stop", r.state.index, Text)
      <3>0. PICK s \in StreamState : p = [state |-> s, events |-> Append(r.events, e)]
        BY <1>0, <1>1, <2>2, StoppedLastIs
      <3>1. p.events = Append(r.events, e)
        BY <3>0
      <3>2. PICK d \in View : Step(Late, c, e, d) /\ d = [c EXCEPT !.open = {}]
        BY <1>0, <2>2, Stops
      <3>3. d.phase = "content" /\ d.open = {} /\ d.blocks = c.blocks
        BY <3>2 DEF Live, View
      <3>4. e \in Event
        BY <1>0, EventTypes DEF StreamState, Kinds
      <3> HIDE DEF e
      <3>5. Run(Late, Now, Append(r.events, e), d) /\ Append(r.events, e) \in Seq(Event)
        BY <1>0, <3>2, <3>4, RunAppend
      <3>6. p \in Result
        BY <1>0, <3>0, <3>5 DEF Result
      <3> QED BY <3>1, <3>3, <3>5, <3>6
    <2> QED BY <2>1, <2>2
  <1> PICK d \in View : /\ d.phase = "content" /\ d.open = {} /\ Run(Late, Now, p.events, d)
                        /\ d.blocks = c.blocks
    BY <1>2
  <1>3. PICK x, z : x = Message("message_delta") /\ z = Message("message_stop")
    OBVIOUS
  <1>4. x \in Event /\ z \in Event
    BY <1>3, EventTypes
  <1>5. PICK q : q = Append(p.events, x)
    OBVIOUS
  <1>6. p.events \in Seq(Event) /\ q \in Seq(Event) /\ Append(q, z) \in Seq(Event)
    BY <1>2, <1>4, <1>5 DEF Result
  <1>7. PICK m : m = [state |-> p.state, events |-> q]
    OBVIOUS
  <1>8. m \in Result /\ m.events = q
    BY <1>2, <1>6, <1>7 DEF Result
  <1>9. m = Emit(p, x)
    BY <1>2, <1>5, <1>7, EmitIs
  <1>10. Emit(m, z) = [state |-> m.state, events |-> Append(q, z)]
    BY <1>8, EmitIs
  <1>11. Finished(r) = Emit(m, z)
    BY <1>1, <1>3, <1>9 DEF Finished
  <1>12. Finished(r) \in Result /\ Finished(r).events = Append(q, z)
    BY <1>6, <1>8, <1>10, <1>11 DEF Result
  <1>13. PICK f : f = [d EXCEPT !.phase = "reason"]
    OBVIOUS
  <1>14. PICK g : g = [f EXCEPT !.phase = "stopped"]
    OBVIOUS
  <1>15. f \in View /\ g \in View /\ f.phase = "reason" /\ g.blocks = c.blocks
    BY <1>13, <1>14 DEF View
  <1>16. Step(Late, d, x, f) /\ Step(Late, f, z, g)
    BY <1>3, <1>13, <1>14, <1>15 DEF Step, Message, Ev
  <1>17. Run(Late, Now, q, f)
    BY <1>5, <1>6, <1>15, <1>16, RunAppend
  <1>18. Run(Late, Now, Append(q, z), g)
    BY <1>6, <1>15, <1>16, <1>17, RunAppend
  <1>19. Delivered(Clear, nameless, g, y)
    BY <1>15 DEF Delivered
  <1> QED BY <1>12, <1>15, <1>18, <1>19

-----------------------------------------------------------------------------
(* A chunk: the calls it carries, and what has been sent after it. *)

Told(chunk) == announced \cup {chunk.calls[i].tool : i \in 1 .. Len(chunk.calls)}

Cur(chunk) ==
    IF chunk.calls # <<>> THEN {chunk.calls[Len(chunk.calls)].tool}
    ELSE IF chunk.text THEN {} ELSE current

\* A chunk carries no call, or one that follows what was sent, or two.
LEMMA Carries ==
    ASSUME NEW chunk \in Chunk, Sendable(chunk), NEW before,
           before = IF chunk.text THEN {} ELSE current
    PROVE  \/ chunk.calls = <<>> /\ Told(chunk) = announced /\ Cur(chunk) = before
           \/ \E x \in Call :
                /\ chunk.calls = <<x>> /\ Follows(x, announced, before)
                /\ Told(chunk) = announced \cup {x.tool} /\ Cur(chunk) = {x.tool}
           \/ \E x, y \in Call :
                /\ chunk.calls = <<x, y>> /\ Follows(x, announced, before)
                /\ Follows(y, announced \cup {x.tool}, {x.tool})
                /\ Told(chunk) = (announced \cup {x.tool}) \cup {y.tool} /\ Cur(chunk) = {y.tool}
  <1> DEFINE calls == chunk.calls
             tools(i) == announced \cup {calls[j].tool : j \in 1 .. i - 1}
             cur(i) == IF i > 1 THEN {calls[i - 1].tool} ELSE IF chunk.text THEN {} ELSE current
  <1>1. calls \in Calls /\ \A i \in 1 .. Len(calls) : Follows(calls[i], tools(i), cur(i))
    BY DEF Chunk, Sendable
  <1>2. CASE calls = <<>>
    <2>1. Len(calls) = 0 /\ 1 .. 0 = {}
      BY <1>2
    <2>2. {calls[i].tool : i \in 1 .. Len(calls)} = {}
      BY <2>1
    <2> QED BY <1>2, <2>2 DEF Told, Cur
  <1>3. ASSUME NEW x \in Call, calls = <<x>>
        PROVE  /\ chunk.calls = <<x>> /\ Follows(x, announced, before)
               /\ Told(chunk) = announced \cup {x.tool} /\ Cur(chunk) = {x.tool}
    <2>1. Len(calls) = 1 /\ calls[1] = x /\ calls # <<>> /\ 1 .. 1 = {1} /\ 1 .. 1 - 1 = {}
      BY <1>3
    <2>2. tools(1) = announced /\ cur(1) = before
      BY <2>1
    <2>3. Follows(x, announced, before)
      BY <1>1, <2>1, <2>2
    <2>4. Told(chunk) = announced \cup {x.tool} /\ Cur(chunk) = {x.tool}
      BY <2>1 DEF Told, Cur
    <2> QED BY <1>3, <2>3, <2>4
  <1>4. ASSUME NEW x \in Call, NEW y \in Call, calls = <<x, y>>
        PROVE  /\ chunk.calls = <<x, y>> /\ Follows(x, announced, before)
               /\ Follows(y, announced \cup {x.tool}, {x.tool})
               /\ Told(chunk) = (announced \cup {x.tool}) \cup {y.tool} /\ Cur(chunk) = {y.tool}
    <2>1. /\ Len(calls) = 2 /\ calls[1] = x /\ calls[2] = y /\ calls # <<>>
          /\ 1 .. 2 = {1, 2} /\ 1 .. 1 - 1 = {} /\ 1 .. 2 - 1 = {1} /\ 2 - 1 = 1
      BY <1>4
    <2>2. tools(1) = announced /\ cur(1) = before
      BY <2>1
    <2>3. tools(2) = announced \cup {x.tool} /\ cur(2) = {x.tool}
      BY <2>1
    <2>4. Follows(x, announced, before) /\ Follows(y, announced \cup {x.tool}, {x.tool})
      <3> HIDE DEF calls, tools, cur
      <3>1. 1 \in 1 .. Len(calls) /\ 2 \in 1 .. Len(calls)
        BY <2>1
      <3>2. Follows(calls[1], tools(1), cur(1)) /\ Follows(calls[2], tools(2), cur(2))
        BY <1>1, <3>1
      <3> QED BY <2>1, <2>2, <2>3, <3>2
    <2>5. Told(chunk) = (announced \cup {x.tool}) \cup {y.tool} /\ Cur(chunk) = {y.tool}
      BY <2>1 DEF Told, Cur
    <2> QED BY <1>4, <2>4, <2>5
  <1>5. \/ calls = <<>>
        \/ \E x \in Call : calls = <<x>>
        \/ \E x, y \in Call : calls = <<x, y>>
    BY <1>1 DEF Calls
  <1> QED BY <1>2, <1>3, <1>4, <1>5

\* The pieces carried once those of the chunk are counted too.
Joined(y, chunk) == [kind \in Kinds |-> y[kind] + Carried(chunk, kind)]

\* How many of the calls carry arguments of t.
ArgsIn(calls, t) == Cardinality({i \in DOMAIN calls : calls[i].tool = t /\ calls[i].args})

LEMMA CallsCounted ==
    /\ \A calls : calls = <<>> => \A t : ArgsIn(calls, t) = 0
    /\ \A calls, x : calls = <<x>> => \A t :
          ArgsIn(calls, t) = IF x.tool = t /\ x.args THEN 1 ELSE 0
    /\ \A calls, x, z : calls = <<x, z>> => \A t :
          ArgsIn(calls, t)
            = (IF x.tool = t /\ x.args THEN 1 ELSE 0) + (IF z.tool = t /\ z.args THEN 1 ELSE 0)
  <1>1. /\ Cardinality({}) = 0 /\ IsFiniteSet({}) /\ Cardinality({1}) = 1 /\ IsFiniteSet({1})
        /\ Cardinality({2}) = 1 /\ Cardinality({1, 2}) = 2
    <2>1. Cardinality({}) = 0 /\ IsFiniteSet({})
      BY FS_EmptySet
    <2>2. Cardinality({1}) = 1 /\ IsFiniteSet({1}) /\ Cardinality({2}) = 1
      BY FS_Singleton
    <2>3. Cardinality({1} \cup {2}) = Cardinality({1}) + 1
      <3>1. 2 \notin {1}
        OBVIOUS
      <3> QED BY <2>2, <3>1, FS_AddElement
    <2>4. {1} \cup {2} = {1, 2}
      OBVIOUS
    <2> QED BY <2>1, <2>2, <2>3, <2>4
  <1>2. ASSUME NEW calls, calls = <<>>, NEW t
        PROVE  ArgsIn(calls, t) = 0
    <2>1. {i \in DOMAIN calls : calls[i].tool = t /\ calls[i].args} = {}
      BY <1>2
    <2> QED BY <1>1, <2>1 DEF ArgsIn
  <1>3. ASSUME NEW calls, NEW x, calls = <<x>>, NEW t
        PROVE  ArgsIn(calls, t)
                 = IF x.tool = t /\ x.args THEN 1 ELSE 0
    <2>1. {i \in DOMAIN calls : calls[i].tool = t /\ calls[i].args}
            = IF x.tool = t /\ x.args THEN {1} ELSE {}
      BY <1>3
    <2> QED BY <1>1, <2>1 DEF ArgsIn
  <1>4. ASSUME NEW calls, NEW x, NEW z, calls = <<x, z>>, NEW t
        PROVE  ArgsIn(calls, t)
                 = (IF x.tool = t /\ x.args THEN 1 ELSE 0) + (IF z.tool = t /\ z.args THEN 1 ELSE 0)
    <2> PICK s : s = {i \in DOMAIN calls : calls[i].tool = t /\ calls[i].args}
      OBVIOUS
    <2>1. DOMAIN calls = {1, 2} /\ calls[1] = x /\ calls[2] = z
      BY <1>4
    <2>2. /\ s \in SUBSET {1, 2}
          /\ 1 \in s <=> x.tool = t /\ x.args
          /\ 2 \in s <=> z.tool = t /\ z.args
      BY <2>1
    <2>3. ArgsIn(calls, t) = Cardinality(s)
      BY DEF ArgsIn
    <2>4. Cardinality(s) = (IF 1 \in s THEN 1 ELSE 0) + (IF 2 \in s THEN 1 ELSE 0)
      <3>1. CASE 1 \in s /\ 2 \in s
        <4>1. s = {1, 2}
          BY <2>2, <3>1
        <4>2. Cardinality(s) = 2
          BY <1>1, <4>1
        <4> QED BY <3>1, <4>2
      <3>2. CASE 1 \in s /\ 2 \notin s
        <4>1. s = {1}
          BY <2>2, <3>2
        <4>2. Cardinality(s) = 1
          BY <1>1, <4>1
        <4> QED BY <3>2, <4>2
      <3>3. CASE 1 \notin s /\ 2 \in s
        <4>1. s = {2}
          BY <2>2, <3>3
        <4>2. Cardinality(s) = 1
          BY <1>1, <4>1
        <4> QED BY <3>3, <4>2
      <3>4. CASE 1 \notin s /\ 2 \notin s
        <4>1. s = {}
          BY <2>2, <3>4
        <4>2. Cardinality(s) = 0
          BY <1>1, <4>1
        <4> QED BY <3>4, <4>2
      <3> QED BY <3>1, <3>2, <3>3, <3>4
    <2> QED BY <2>2, <2>3, <2>4
  <1> QED BY <1>2, <1>3, <1>4

\* The pieces of text that a chunk carries, and those of the arguments.
WithText(y, chunk) == IF chunk.text THEN [y EXCEPT ![Text] = @ + 1] ELSE y

LEMMA CountedIs ==
    ASSUME NEW y \in [Kinds -> Nat], NEW x \in Call
    PROVE  /\ Counted(y, x) \in [Kinds -> Nat]
           /\ \A k \in Kinds : Counted(y, x)[k] = y[k] + (IF x.tool = k /\ x.args THEN 1 ELSE 0)
  <1>1. x.tool \in Kinds /\ x.args \in BOOLEAN
    BY DEF Call, Kinds
  <1>2. CASE x.args
    BY <1>1, <1>2 DEF Counted
  <1>3. CASE ~x.args
    BY <1>1, <1>3 DEF Counted
  <1> QED BY <1>1, <1>2, <1>3

LEMMA TextIs ==
    ASSUME NEW y \in [Kinds -> Nat], NEW chunk \in Chunk
    PROVE  /\ WithText(y, chunk) \in [Kinds -> Nat]
           /\ WithText(y, chunk)[Text] = y[Text] + Carried(chunk, Text)
           /\ \A k \in Tool : WithText(y, chunk)[k] = y[k]
  <1>1. Text \in Kinds /\ Text \notin Tool /\ chunk.text \in BOOLEAN /\ Tool \subseteq Kinds
    BY UnusedIsNoBlock DEF Kinds, Chunk
  <1>2. CASE chunk.text
    BY <1>1, <1>2 DEF WithText, Carried
  <1>3. CASE ~chunk.text
    BY <1>1, <1>3 DEF WithText, Carried
  <1> QED BY <1>1, <1>2, <1>3

LEMMA CarriesAll ==
    ASSUME NEW y \in [Kinds -> Nat], NEW chunk \in Chunk
    PROVE  /\ chunk.calls = <<>> => WithText(y, chunk) = Joined(y, chunk)
           /\ \A x \in Call : chunk.calls = <<x>> => Counted(WithText(y, chunk), x) = Joined(y, chunk)
           /\ \A x, z \in Call : chunk.calls = <<x, z>> =>
                Counted(Counted(WithText(y, chunk), x), z) = Joined(y, chunk)
  <1>1. PICK w : w = WithText(y, chunk)
    OBVIOUS
  <1>2. /\ w \in [Kinds -> Nat] /\ w[Text] = y[Text] + Carried(chunk, Text)
        /\ \A k \in Tool : w[k] = y[k]
    BY <1>1, TextIs
  <1>3. Text \notin Tool /\ Kinds = Tool \cup {Text} /\ \A x \in Call : x.tool \in Tool
    BY UnusedIsNoBlock DEF Kinds, Call
  <1>4. \A k \in Tool : Carried(chunk, k) = ArgsIn(chunk.calls, k)
    BY <1>3 DEF Carried, ArgsIn
  <1>5. ASSUME chunk.calls = <<>> PROVE w = Joined(y, chunk)
    <2>1. \A k \in Kinds : w[k] = y[k] + Carried(chunk, k)
      <3> SUFFICES ASSUME NEW k \in Tool PROVE w[k] = y[k] + Carried(chunk, k)
        BY <1>2, <1>3
      <3>1. Carried(chunk, k) = 0 /\ y[k] \in Nat
        BY <1>3, <1>4, <1>5, CallsCounted
      <3> QED BY <1>2, <3>1
    <2> QED BY <1>2, <2>1 DEF Joined
  <1>6. ASSUME NEW x \in Call, chunk.calls = <<x>> PROVE Counted(w, x) = Joined(y, chunk)
    <2>1. PICK v : v = Counted(w, x)
      OBVIOUS
    <2>2. /\ v \in [Kinds -> Nat]
          /\ \A k \in Kinds : v[k] = w[k] + (IF x.tool = k /\ x.args THEN 1 ELSE 0)
      BY <1>2, <2>1, CountedIs
    <2>3. ASSUME NEW k \in Tool PROVE v[k] = y[k] + Carried(chunk, k)
      <3>1. Carried(chunk, k) = IF x.tool = k /\ x.args THEN 1 ELSE 0
        BY <1>4, <1>6, CallsCounted
      <3> QED BY <1>2, <1>3, <2>2, <3>1
    <2>4. v[Text] = y[Text] + Carried(chunk, Text)
      <3>1. v[Text] = w[Text] + 0 /\ w[Text] \in Nat
        BY <1>2, <1>3, <2>2
      <3> QED BY <1>2, <3>1
    <2>5. v = Joined(y, chunk)
      BY <1>3, <2>2, <2>3, <2>4 DEF Joined
    <2> QED BY <2>1, <2>5
  <1>7. ASSUME NEW x \in Call, NEW z \in Call, chunk.calls = <<x, z>>
        PROVE  Counted(Counted(w, x), z) = Joined(y, chunk)
    <2>1. PICK v, u : v = Counted(w, x) /\ u = Counted(v, z)
      OBVIOUS
    <2>2. /\ v \in [Kinds -> Nat]
          /\ \A k \in Kinds : v[k] = w[k] + (IF x.tool = k /\ x.args THEN 1 ELSE 0)
      BY <1>2, <2>1, CountedIs
    <2>3. /\ u \in [Kinds -> Nat]
          /\ \A k \in Kinds : u[k] = v[k] + (IF z.tool = k /\ z.args THEN 1 ELSE 0)
      BY <2>1, <2>2, CountedIs
    <2>4. ASSUME NEW k \in Tool PROVE u[k] = y[k] + Carried(chunk, k)
      <3>1. Carried(chunk, k) = (IF x.tool = k /\ x.args THEN 1 ELSE 0)
                                  + (IF z.tool = k /\ z.args THEN 1 ELSE 0)
        BY <1>4, <1>7, CallsCounted
      <3>2. y[k] \in Nat /\ w[k] = y[k] /\ k \in Kinds
        BY <1>2, <1>3
      <3>3. /\ v[k] = y[k] + (IF x.tool = k /\ x.args THEN 1 ELSE 0)
            /\ u[k] = v[k] + (IF z.tool = k /\ z.args THEN 1 ELSE 0)
        BY <2>2, <2>3, <3>2
      <3> QED BY <3>1, <3>2, <3>3
    <2>5. u[Text] = y[Text] + Carried(chunk, Text)
      <3>1. v[Text] = w[Text] + 0 /\ u[Text] = v[Text] + 0 /\ w[Text] \in Nat
        BY <1>2, <1>3, <2>2, <2>3
      <3> QED BY <1>2, <3>1
    <2>6. u = Joined(y, chunk)
      BY <1>3, <2>3, <2>4, <2>5 DEF Joined
    <2> QED BY <2>1, <2>6
  <1> QED BY <1>1, <1>5, <1>6, <1>7

LEMMA CallsReach ==
    ASSUME NEW r, NEW y, NEW before, NEW n, NEW chunk \in Chunk, Sendable(chunk),
           NEW w, w = WithText(y, chunk), y \in [Kinds -> Nat],
           Reaches(r, w, announced, before, n), r.state.started,
           before = IF chunk.text THEN {} ELSE current
    PROVE  Reaches(CallsTranslated(r, chunk.calls), Joined(y, chunk), Told(chunk), Cur(chunk), n)
           /\ CallsTranslated(r, chunk.calls).state.started
  <1>1. CASE chunk.calls = <<>> /\ Told(chunk) = announced /\ Cur(chunk) = before
    BY <1>1, FoldNone, CarriesAll
  <1>2. ASSUME NEW x \in Call, chunk.calls = <<x>>, Follows(x, announced, before),
               Told(chunk) = announced \cup {x.tool}, Cur(chunk) = {x.tool}
        PROVE  Reaches(CallsTranslated(r, chunk.calls), Joined(y, chunk), Told(chunk), Cur(chunk), n)
               /\ CallsTranslated(r, chunk.calls).state.started
    <2>1. CallsTranslated(r, chunk.calls) = CallTranslated(r, x)
      BY <1>2, FoldOne
    <2>2. Reaches(CallTranslated(r, x), Counted(w, x), announced \cup {x.tool}, {x.tool}, n)
          /\ CallTranslated(r, x).state.started
      BY <1>2, CallReaches
    <2>3. Counted(w, x) = Joined(y, chunk)
      BY <1>2, CarriesAll
    <2> QED BY <1>2, <2>1, <2>2, <2>3
  <1>3. ASSUME NEW x \in Call, NEW z \in Call, chunk.calls = <<x, z>>,
               Follows(x, announced, before), Follows(z, announced \cup {x.tool}, {x.tool}),
               Told(chunk) = (announced \cup {x.tool}) \cup {z.tool}, Cur(chunk) = {z.tool}
        PROVE  Reaches(CallsTranslated(r, chunk.calls), Joined(y, chunk), Told(chunk), Cur(chunk), n)
               /\ CallsTranslated(r, chunk.calls).state.started
    <2>1. PICK q, told, cur, v :
            /\ q = CallTranslated(r, x) /\ told = announced \cup {x.tool} /\ cur = {x.tool}
            /\ v = Counted(w, x)
      OBVIOUS
    <2>2. CallsTranslated(r, chunk.calls) = CallTranslated(q, z)
      <3>1. q = CallTranslated(r, x) /\ chunk.calls = <<x, z>>
        BY <1>3, <2>1
      <3> QED BY <3>1, FoldTwo
    <2>3. Reaches(q, v, told, cur, n) /\ q.state.started
      BY <1>3, <2>1, CallReaches
    <2>4. Follows(z, told, cur)
      BY <1>3, <2>1
    <2>5. Reaches(CallTranslated(q, z), Counted(v, z), told \cup {z.tool}, {z.tool}, n)
          /\ CallTranslated(q, z).state.started
      BY <2>3, <2>4, CallReaches
    <2>6. Counted(v, z) = Joined(y, chunk)
      BY <1>3, <2>1, CarriesAll
    <2> QED BY <1>3, <2>1, <2>2, <2>5, <2>6
  <1> QED BY <1>1, <1>2, <1>3, Carries

LEMMA ChunkReaches ==
    ASSUME Inductive, pending = <<>>, NEW chunk \in Chunk, Sendable(chunk), chunks < MaxChunks
    PROVE  /\ Translated(chunk) \in Result /\ Joined(content, chunk) \in [Kinds -> Nat]
           /\ ~chunk.finish => Named(indexed, Clear, nameless, Translated(chunk).state, Told(chunk))
           /\ \E c \in View :
                /\ Run(Late, Now, Translated(chunk).events, c)
                /\ Delivered(Clear, nameless, c, Joined(content, chunk))
                /\ ~chunk.finish =>
                     Live(Late, indexed, c, Translated(chunk).state, Told(chunk), Cur(chunk), chunks + 1)
  <1>1. PICK r, y : r = [state |-> state, events |-> <<>>] /\ y = content
    OBVIOUS
  <1>2. Reaches(r, y, announced, current, chunks) /\ y \in [Kinds -> Nat]
    <2> PICK c \in View : /\ Run(Late, Now, pending, c)
                          /\ Delivered(Clear, nameless, c, content)
                          /\ ~finished => Live(Late, indexed, c, state, announced, current, chunks)
      BY DEF Inductive
    <2>1. /\ r \in Result /\ r.events = <<>> /\ r.state = state /\ y \in [Kinds -> Nat]
      BY <1>1 DEF Inductive, TypeOK, Result, StreamState, Kinds
    <2>2. Live(Late, indexed, c, state, announced, current, chunks)
      BY DEF Sendable
    <2>3. Named(indexed, Clear, nameless, state, announced)
      BY DEF Sendable, Inductive
    <2> QED BY <1>1, <2>1, <2>2, <2>3 DEF Reaches
  <1>3. PICK r0 : r0 = MessageStarted(r)
    OBVIOUS
  <1>4. Reaches(r0, y, announced, current, chunks) /\ r0.state.started
    BY <1>2, <1>3, StartReaches
  <1>5. PICK r1 : r1 = IF chunk.text THEN TextTranslated(r0) ELSE r0
    OBVIOUS
  <1>6. PICK before, w : before = (IF chunk.text THEN {} ELSE current) /\ w = WithText(y, chunk)
    OBVIOUS
  <1>7. Reaches(r1, w, announced, before, chunks + 1) /\ r1.state.started
    <2>1. CASE chunk.text
      BY <1>4, <1>5, <1>6, <2>1, TextReaches DEF WithText
    <2>2. CASE ~chunk.text
      <3> PICK c \in View : /\ Run(Late, Now, r0.events, c)
                            /\ Live(Late, indexed, c, r0.state, announced, current, chunks)
                            /\ Delivered(Clear, nameless, c, y)
        BY <1>4 DEF Reaches
      <3>1. chunks + 1 \in chunks .. MaxChunks /\ current \in SUBSET current
        BY ChunksAssumption DEF Inductive, TypeOK
      <3>2. r0 \in Result /\ r0.state \in StreamState
        BY <1>4 DEF Reaches, Result
      <3>3. Live(Late, indexed, c, r0.state, announced, current, chunks + 1)
        BY <3>1, <3>2, Weakens
      <3>4. Reaches(r0, y, announced, current, chunks + 1)
        BY <1>4, <3>3 DEF Reaches
      <3>5. r1 = r0 /\ w = y /\ before = current
        BY <1>5, <1>6, <2>2 DEF WithText
      <3> QED BY <1>4, <3>4, <3>5
    <2> QED BY <2>1, <2>2
  <1>8. PICK r2 : r2 = CallsTranslated(r1, chunk.calls)
    OBVIOUS
  <1>9. PICK all, told, cur, n : /\ all = Joined(y, chunk) /\ told = Told(chunk)
                                 /\ cur = Cur(chunk) /\ n = chunks + 1
    OBVIOUS
  <1>10. Reaches(r2, all, told, cur, n) /\ r2.state.started
    BY <1>2, <1>6, <1>7, <1>8, <1>9, CallsReach
  <1>11. Translated(chunk) = IF chunk.finish THEN Finished(r2) ELSE r2
    BY <1>1, <1>3, <1>5, <1>8 DEF Translated, CallsTranslated
  <1>12. all \in [Kinds -> Nat] /\ all = Joined(content, chunk)
    BY <1>1, <1>9, <1>10 DEF Reaches
  <1>13. CASE chunk.finish
    <2>1. Finished(r2) \in Result
          /\ \E c \in View : Run(Late, Now, Finished(r2).events, c) /\ Delivered(Clear, nameless, c, all)
      BY <1>10, FinishedEnds
    <2> QED BY <1>11, <1>12, <1>13, <2>1
  <1>14. CASE ~chunk.finish
    <2>1. /\ r2 \in Result /\ Named(indexed, Clear, nameless, r2.state, told)
          /\ \E c \in View : /\ Run(Late, Now, r2.events, c)
                             /\ Live(Late, indexed, c, r2.state, told, cur, n)
                             /\ Delivered(Clear, nameless, c, all)
      BY <1>10 DEF Reaches
    <2> QED BY <1>9, <1>11, <1>12, <1>14, <2>1
  <1> QED BY <1>13, <1>14

-----------------------------------------------------------------------------
(* The induction *)

LEMMA InitInductive == Init => Inductive
  <1> SUFFICES ASSUME Init PROVE Inductive
    OBVIOUS
  <1>1. 0 \in Indices /\ 0 \in 0 .. MaxChunks /\ NoBlock \notin Indices
    BY Numbers, ChunksAssumption
  <1>2. NewStreamState \in StreamState
    BY <1>1 DEF NewStreamState, StreamState
  <1>3. TypeOK
    <2>1. state \in StreamState /\ pending \in Seq(Event) /\ content \in [Kinds -> Nat]
      BY <1>2 DEF Init, Kinds
    <2>2. {finished, indexed, failed, interleaved, lost} \subseteq BOOLEAN
      BY DEF Init
    <2>3. /\ phase \in {"before", "content", "reason", "stopped"}
          /\ blocks \in [Indices -> {Unused} \cup Block] /\ open \subseteq Indices
          /\ status \in {"reading", "gone", "done", "broken"}
          /\ announced \subseteq Tool /\ current \subseteq announced /\ nameless \subseteq announced
          /\ chunks \in 0 .. MaxChunks /\ received \in Nat
      BY <1>1 DEF Init
    <2> QED BY <2>1, <2>2, <2>3 DEF TypeOK, StreamState, Kinds, Block
  <1>4. Now \in View
    BY DEF Init, Now, View
  <1>5. Run(Late, Now, pending, Now)
    BY <1>4, RunNone DEF Init
  <1>6. Live(Late, indexed, Now, state, announced, current, chunks)
    <2>1. /\ ~state.started /\ state.index = 0 /\ ~state.open
          /\ \A t \in Tool : state.tools[t] = NoBlock
      BY DEF Init, NewStreamState
    <2>2. /\ Now.phase = "before" /\ Now.open = {} /\ \A j \in Indices : Now.blocks[j] = Unused
      BY DEF Init, Now
    <2>3. announced = {} /\ current = {} /\ chunks = 0 /\ Cardinality(announced) \in Nat
      BY Numbers DEF Init
    <2>4. \A j \in Indices : ~(j < 0)
      BY Numbers DEF Indices
    <2> QED BY <1>1, <2>1, <2>2, <2>3, <2>4, ChunksAssumption DEF Live
  <1>7. (failed => status = "broken") /\ (interleaved => indexed)
    BY DEF Init
  <1>8. Delivered(Clear, nameless, Now, content) /\ \A t \in Tool \ announced : content[t] = 0
    <2>1. Now.blocks = [i \in Indices |-> Unused] /\ content = [k \in Kinds |-> 0] /\ nameless = {}
      BY DEF Init, Now, Kinds
    <2> QED BY <2>1, NothingWritten DEF Delivered, Kinds
  <1>9. Named(indexed, Clear, nameless, state, announced)
    BY DEF Named, Init
  <1> QED BY <1>3, <1>4, <1>5, <1>6, <1>7, <1>8, <1>9 DEF Inductive

\* What a chunk tells of its calls, if the upstream does not interleave them.
LEMMA LastCall ==
    ASSUME NEW chunk \in Chunk, Sendable(chunk), ~interleaved, NEW t \in Cur(chunk)
    PROVE  t \in current \/ t \notin announced
  <1> PICK before : before = IF chunk.text THEN {} ELSE current
    OBVIOUS
  <1>1. CASE chunk.calls = <<>> /\ Cur(chunk) = before
    BY <1>1
  <1>2. ASSUME NEW x \in Call, Follows(x, announced, before), Cur(chunk) = {x.tool}
        PROVE  t \in current \/ t \notin announced
    BY <1>2 DEF Follows
  <1>3. ASSUME NEW x \in Call, NEW y \in Call, Follows(x, announced, before),
               Follows(y, announced \cup {x.tool}, {x.tool}), Cur(chunk) = {y.tool}
        PROVE  t \in current \/ t \notin announced
    BY <1>3 DEF Follows
  <1> QED BY <1>1, <1>2, <1>3, Carries

LEMMA SendTypes ==
    ASSUME TypeOK, NEW chunk \in Chunk, Send(chunk)
    PROVE  /\ chunks' \in 0 .. MaxChunks /\ chunks' = chunks + 1 /\ chunks < MaxChunks
           /\ announced' = Told(chunk) /\ current' = Cur(chunk) /\ Sendable(chunk)
           /\ announced \subseteq announced' /\ announced' \subseteq Tool
           /\ current' \subseteq announced' /\ finished' \in BOOLEAN
           /\ finished' = chunk.finish /\ ~finished
           /\ indexed' = indexed /\ interleaved' = interleaved
  <1>1. /\ chunks' = chunks + 1 /\ chunks < MaxChunks /\ Sendable(chunk) /\ ~finished
        /\ finished' = chunk.finish /\ indexed' = indexed /\ interleaved' = interleaved
        /\ announced' = Told(chunk) /\ current' = Cur(chunk)
    BY DEF Send, Sendable, Told, Cur
  <1>2. chunks' \in 0 .. MaxChunks /\ finished' \in BOOLEAN
    BY <1>1, ChunksAssumption DEF TypeOK, Chunk
  <1>3. Told(chunk) \subseteq Tool /\ announced \subseteq Told(chunk) /\ Cur(chunk) \subseteq Told(chunk)
    <2> PICK before : before = IF chunk.text THEN {} ELSE current
      OBVIOUS
    <2>1. announced \subseteq Tool /\ before \subseteq announced /\ \A x \in Call : x.tool \in Tool
      BY DEF TypeOK, Call
    <2>2. CASE Told(chunk) = announced /\ Cur(chunk) = before
      BY <2>1, <2>2
    <2>3. ASSUME NEW x \in Call, Told(chunk) = announced \cup {x.tool}, Cur(chunk) = {x.tool}
          PROVE  Told(chunk) \subseteq Tool /\ announced \subseteq Told(chunk) /\ Cur(chunk) \subseteq Told(chunk)
      BY <2>1, <2>3
    <2>4. ASSUME NEW x \in Call, NEW y \in Call,
                 Told(chunk) = (announced \cup {x.tool}) \cup {y.tool}, Cur(chunk) = {y.tool}
          PROVE  Told(chunk) \subseteq Tool /\ announced \subseteq Told(chunk) /\ Cur(chunk) \subseteq Told(chunk)
      BY <2>1, <2>4
    <2>5. \/ Told(chunk) = announced /\ Cur(chunk) = before
          \/ \E x \in Call : Told(chunk) = announced \cup {x.tool} /\ Cur(chunk) = {x.tool}
          \/ \E x \in Call, y \in Call :
               Told(chunk) = (announced \cup {x.tool}) \cup {y.tool} /\ Cur(chunk) = {y.tool}
      BY <1>1, Carries
    <2> QED BY <2>2, <2>3, <2>4, <2>5
  <1> QED BY <1>1, <1>2, <1>3

LEMMA CallsAreSequences == Calls \subseteq Seq(Call)
  <1>1. <<>> \in Seq(Call)
    OBVIOUS
  <1>2. ASSUME NEW x \in Call PROVE <<x>> \in Seq(Call)
    OBVIOUS
  <1>3. ASSUME NEW x \in Call, NEW z \in Call PROVE <<x, z>> \in Seq(Call)
    OBVIOUS
  <1>4. ASSUME NEW calls \in Calls PROVE calls \in Seq(Call)
    <2>1. \/ calls = <<>>
          \/ \E x \in Call : calls = <<x>>
          \/ \E x, z \in Call : calls = <<x, z>>
      BY DEF Calls
    <2> QED BY <1>1, <1>2, <1>3, <2>1
  <1> QED BY <1>4

LEMMA ReadKeeps ==
    ASSUME Inductive, NEW chunk \in Chunk, ReadChunk(chunk) PROVE Inductive' /\ Late' = Late /\ Now' = Now
  <1>1. /\ TypeOK /\ pending = <<>> /\ Send(chunk)
    BY DEF Inductive, ReadChunk
  <1>2. PICK r, y : r = Translated(chunk) /\ y = Joined(content, chunk)
    OBVIOUS
  <1>3. state' = r.state /\ pending' = r.events /\ content' = y /\ nameless' = nameless
    <2>1. DOMAIN content = Kinds
      BY <1>1 DEF TypeOK, Kinds
    <2> QED BY <1>2, <2>1 DEF ReadChunk, Joined
  <1>4. /\ chunks' \in 0 .. MaxChunks /\ chunks' = chunks + 1 /\ chunks < MaxChunks
        /\ announced' = Told(chunk) /\ current' = Cur(chunk) /\ Sendable(chunk)
        /\ announced' \subseteq Tool /\ current' \subseteq announced' /\ finished' \in BOOLEAN
        /\ announced \subseteq announced'
        /\ finished' = chunk.finish /\ indexed' = indexed /\ interleaved' = interleaved
    BY <1>1, SendTypes
  <1>5. /\ r \in Result /\ y \in [Kinds -> Nat]
        /\ ~chunk.finish => Named(indexed, Clear, nameless, r.state, Told(chunk))
        /\ \E c \in View :
             /\ Run(Late, Now, r.events, c)
             /\ Delivered(Clear, nameless, c, y)
             /\ ~chunk.finish => Live(Late, indexed, c, r.state, Told(chunk), Cur(chunk), chunks + 1)
    BY <1>1, <1>2, <1>4, ChunkReaches
  <1>6. Late' = Late /\ Now' = Now /\ Clear' = Clear
    BY <1>4 DEF ReadChunk, Late, Now, client, Clear
  <1>7. TypeOK'
    <2>1. nameless' \subseteq announced' /\ content' \in [Tool \cup {Text} -> Nat]
      BY <1>1, <1>3, <1>4, <1>5 DEF TypeOK, Kinds
    <2> QED BY <1>1, <1>3, <1>4, <1>5, <2>1 DEF TypeOK, Result, StreamState, ReadChunk, client
  <1>8. (failed' => status' = "broken") /\ (interleaved' => indexed')
    BY <1>4 DEF Inductive, ReadChunk, client
  <1>9. ASSUME NEW t \in Tool \ announced' PROVE content'[t] = 0
    <2>1. t \in Kinds /\ t # Text /\ t \notin announced /\ content[t] = 0
      BY <1>4, UnusedIsNoBlock DEF Kinds, Inductive
    <2>2. {i \in DOMAIN chunk.calls : chunk.calls[i].tool = t /\ chunk.calls[i].args} = {}
      <3>1. \A i \in 1 .. Len(chunk.calls) : chunk.calls[i].tool # t
        BY <1>4, <1>9 DEF Told
      <3>2. chunk.calls \in Seq(Call)
        BY CallsAreSequences DEF Chunk
      <3>3. DOMAIN chunk.calls = 1 .. Len(chunk.calls)
        BY <3>2
      <3> QED BY <3>1, <3>3
    <2>3. Carried(chunk, t) = 0
      BY <2>1, <2>2, FS_EmptySet DEF Carried
    <2>4. y[t] = content[t] + Carried(chunk, t)
      BY <1>2, <2>1 DEF Joined
    <2> QED BY <1>3, <2>1, <2>3, <2>4
  <1>10. ~finished' => Named(indexed', Clear', nameless', state', announced')
    BY <1>3, <1>4, <1>5, <1>6
  <1>11. \E c \in View : /\ Run(Late, Now, pending', c)
                         /\ Delivered(Clear, nameless', c, content')
                         /\ ~finished' => Live(Late, indexed', c, state', announced', current', chunks')
    BY <1>3, <1>4, <1>5
  <1>12. (\E c \in View : /\ Run(Late, Now, pending, c)
                          /\ Delivered(Clear, nameless, c, content)
                          /\ ~finished => Live(Late, indexed, c, state, announced, current, chunks))'
    BY <1>6, <1>11
  <1> QED BY <1>6, <1>7, <1>8, <1>9, <1>10, <1>12 DEF Inductive

\* The calls a chunk names are those that it is the first to carry.
LEMMA NewCalls ==
    ASSUME TypeOK, NEW chunk \in Chunk, Sendable(chunk)
    PROVE  NamedIn(chunk) = Told(chunk) \ announced
  <1> PICK before : before = IF chunk.text THEN {} ELSE current
    OBVIOUS
  <1>1. CASE chunk.calls = <<>> /\ Told(chunk) = announced
    BY <1>1 DEF NamedIn
  <1>2. ASSUME NEW x \in Call, chunk.calls = <<x>>, Follows(x, announced, before),
               Told(chunk) = announced \cup {x.tool}
        PROVE  NamedIn(chunk) = Told(chunk) \ announced
    <2>1. NamedIn(chunk) = IF x.named THEN {x.tool} ELSE {}
      BY <1>2 DEF NamedIn, Call
    <2> QED BY <1>2, <2>1 DEF Follows
  <1>3. ASSUME NEW x \in Call, NEW z \in Call, chunk.calls = <<x, z>>,
               Follows(x, announced, before), Follows(z, announced \cup {x.tool}, {x.tool}),
               Told(chunk) = (announced \cup {x.tool}) \cup {z.tool}
        PROVE  NamedIn(chunk) = Told(chunk) \ announced
    <2>1. DOMAIN chunk.calls = {1, 2} /\ chunk.calls[1] = x /\ chunk.calls[2] = z
      BY <1>3
    <2>2. x.tool \in Tool /\ z.tool \in Tool
      BY DEF Call
    <2>3. ASSUME NEW t PROVE t \in NamedIn(chunk) <=> (t = x.tool /\ x.named) \/ (t = z.tool /\ z.named)
      BY <2>1, <2>2 DEF NamedIn
    <2>4. (x.named <=> x.tool \notin announced) /\ (z.named <=> z.tool \notin announced \cup {x.tool})
      BY <1>3 DEF Follows
    <2> QED BY <1>3, <2>3, <2>4
  <1> QED BY <1>1, <1>2, <1>3, Carries

LEMMA SkipKeeps ==
    ASSUME Inductive, NEW chunk \in Chunk, SkipChunk(chunk) PROVE Inductive' /\ Now' = Now
  <1>1. /\ TypeOK /\ pending = <<>> /\ Send(chunk)
        /\ lost' = TRUE /\ state' = state /\ pending' = pending /\ status' = status /\ content' = content
        /\ nameless' = nameless \cup NamedIn(chunk)
    BY DEF Inductive, SkipChunk
  <1>2. /\ chunks' \in 0 .. MaxChunks /\ chunks' = chunks + 1 /\ chunks < MaxChunks
        /\ announced' = Told(chunk) /\ current' = Cur(chunk) /\ Sendable(chunk)
        /\ announced \subseteq announced' /\ announced' \subseteq Tool
        /\ current' \subseteq announced' /\ finished' \in BOOLEAN /\ ~finished
        /\ indexed' = indexed /\ interleaved' = interleaved
    BY <1>1, SendTypes
  <1>0. NamedIn(chunk) = Told(chunk) \ announced
    BY <1>1, <1>2, NewCalls
  <1>3. Now' = Now /\ TypeOK' /\ (failed' => status' = "broken") /\ (interleaved' => indexed')
    BY <1>0, <1>1, <1>2 DEF SkipChunk, Now, client, TypeOK, Inductive
  <1> PICK c \in View : /\ Run(Late, Now, pending, c)
                        /\ Delivered(Clear, nameless, c, content)
                        /\ ~finished => Live(Late, indexed, c, state, announced, current, chunks)
    BY DEF Inductive
  <1>4. Run(Late', Now, pending, c)
    BY <1>1, RunNothing, RunNone
  <1>5. ~Late' => indexed /\ ~interleaved /\ ~Late
    BY <1>1, <1>2 DEF Late
  <1>6. Live(Late', indexed, c, state, announced', current', chunks')
    <2>1. Live(Late, indexed, c, state, announced, current, chunks)
      BY <1>2
    <2>2. ~Late' => \A t \in current' :
            LET i == state.tools[IF indexed THEN t ELSE First]
            IN i # NoBlock => state.open /\ i = state.index /\ c.blocks[i].kind = t
      <3> SUFFICES ASSUME ~Late', NEW t \in current', state.tools[t] # NoBlock
                   PROVE  /\ state.open /\ state.tools[t] = state.index
                          /\ c.blocks[state.tools[t]].kind = t
        BY <1>5
      <3>1. t \in current \/ t \notin announced
        BY <1>2, <1>5, LastCall
      <3>2. t \in Tool
        BY <1>2
      <3>3. indexed /\ ~Late
        BY <1>5
      <3>4. t \in announced
        BY <2>1, <3>2, <3>3 DEF Live
      <3> QED BY <2>1, <3>1, <3>3, <3>4 DEF Live
    <2>3. state.index + (IF state.open THEN 1 ELSE 0) <= chunks' + Cardinality(announced')
      <3>1. Cardinality(announced) \in Nat /\ Cardinality(announced') \in Nat
            /\ Cardinality(announced) <= Cardinality(announced')
        <4>1. IsFiniteSet(announced')
          BY <1>2, FirstAssumption, FS_Subset
        <4> QED BY <1>2, <4>1, FS_Subset, FS_CardinalityType
      <3>2. state.index \in Nat /\ chunks \in Nat
        BY <1>1, Numbers DEF TypeOK, Indices
      <3> QED BY <1>2, <2>1, <3>1, <3>2 DEF Live
    <2>4. current' \subseteq Tool
      BY <1>2
    <2> QED BY <1>2, <2>1, <2>2, <2>3, <2>4 DEF Live
  <1>7. Clear' => indexed /\ Clear
    BY <1>2, <1>5 DEF Clear
  <1>8. /\ nameless \subseteq announced /\ \A t \in Tool \ announced : content[t] = 0
        /\ Text \notin nameless \cup NamedIn(chunk)
    <2>1. nameless \subseteq announced /\ \A t \in Tool \ announced : content[t] = 0
      BY DEF Inductive, TypeOK
    <2> QED BY <1>0, <1>2, <2>1, UnusedIsNoBlock
  <1>9. Delivered(Clear', nameless', c, content')
    <2> SUFFICES ASSUME NEW kind \in Kinds, kind = Text \/ Clear'
                 PROVE  WritesIn(c.blocks, kind) = IF kind \in nameless' THEN 0 ELSE content'[kind]
      BY DEF Delivered
    <2>1. WritesIn(c.blocks, kind) = IF kind \in nameless THEN 0 ELSE content[kind]
      BY <1>7 DEF Delivered
    <2>2. CASE kind \in NamedIn(chunk)
      <3>1. kind \in Tool \ announced /\ kind \in nameless'
        BY <1>0, <1>1, <1>2, <2>2
      <3> QED BY <1>8, <2>1, <3>1
    <2>3. CASE kind \notin NamedIn(chunk)
      BY <1>1, <2>1, <2>3
    <2> QED BY <2>2, <2>3
  <1>10. Named(indexed', Clear', nameless', state', announced')
    <2>1. Named(indexed, Clear, nameless, state, announced)
          /\ Live(Late, indexed, c, state, announced, current, chunks)
      BY <1>2 DEF Inductive
    <2>2. nameless' \subseteq announced'
      BY <1>0, <1>1, <1>2, <1>8
    <2>3. ASSUME indexed, NEW t \in nameless' PROVE state.tools[t] = NoBlock
      <3>1. t \in nameless \/ t \in Tool \ announced
        BY <1>0, <1>1, <1>2
      <3> QED BY <2>1, <2>3, <3>1 DEF Named, Live
    <2>4. ASSUME Clear', NEW t \in announced' \ nameless' PROVE state.tools[t] # NoBlock
      <3>1. t \in announced \ nameless
        BY <1>0, <1>1, <1>2
      <3> QED BY <1>7, <2>1, <2>4, <3>1 DEF Named
    <2> QED BY <1>1, <1>2, <1>7, <2>2, <2>3, <2>4 DEF Named
  <1>11. ASSUME NEW t \in Tool \ announced' PROVE content'[t] = 0
    BY <1>1, <1>2, <1>8
  <1>12. (\E d \in View : /\ Run(Late, Now, pending, d)
                          /\ Delivered(Clear, nameless, d, content)
                          /\ ~finished => Live(Late, indexed, d, state, announced, current, chunks))'
    BY <1>1, <1>2, <1>3, <1>4, <1>6, <1>9
  <1> QED BY <1>3, <1>10, <1>11, <1>12 DEF Inductive

StartBlock(c, i, k, x) == [c EXCEPT !.blocks[i] = k, !.open = x]

LEMMA StartedView ==
    ASSUME NEW p, NEW b, NEW o, NEW i, NEW k, NEW x, NEW c, c = [phase |-> p, blocks |-> b, open |-> o]
    PROVE  StartBlock(c, i, k, x) = [phase |-> p, blocks |-> [b EXCEPT ![i] = k], open |-> x]
  <1>1. PICK d : d = [b EXCEPT ![i] = k]
    OBVIOUS
  <1>2. PICK m : m = [phase |-> p, blocks |-> d, open |-> o]
    OBVIOUS
  <1>3. c.blocks = b /\ [c EXCEPT !.blocks = d] = m
    BY <1>2
  <1>4. [c EXCEPT !.blocks[i] = k] = m
    BY <1>1, <1>3
  <1>5. [m EXCEPT !.open = x] = [phase |-> p, blocks |-> d, open |-> x]
    BY <1>2
  <1>6. [c EXCEPT !.blocks[i] = k, !.open = x] = [[c EXCEPT !.blocks[i] = k] EXCEPT !.open = x]
    OBVIOUS
  <1> QED BY <1>1, <1>4, <1>5, <1>6 DEF StartBlock

LEMMA WrittenView ==
    ASSUME NEW p, NEW b, NEW o, NEW i, NEW c, c = [phase |-> p, blocks |-> b, open |-> o]
    PROVE  [c EXCEPT !.blocks[i].writes = @ + 1]
             = [phase |-> p, blocks |-> [b EXCEPT ![i].writes = @ + 1], open |-> o]
  <1>1. PICK d : d = [b EXCEPT ![i].writes = @ + 1]
    OBVIOUS
  <1>2. c.blocks = b /\ [c EXCEPT !.blocks = d] = [phase |-> p, blocks |-> d, open |-> o]
    OBVIOUS
  <1> QED BY <1>1, <1>2

LEMMA WriteKeeps ==
    ASSUME Inductive, WriteEvent
    PROVE  Inductive' /\ Step(Late, Now, Head(pending), Now') /\ Late' = Late
  <1> PICK c \in View : /\ Run(Late, Now, pending, c)
                        /\ Delivered(Clear, nameless, c, content)
                        /\ ~finished => Live(Late, indexed, c, state, announced, current, chunks)
    BY DEF Inductive
  <1>1. PICK e : e = Head(pending)
    OBVIOUS
  <1>2. /\ TypeOK /\ pending # <<>> /\ pending \in Seq(Event) /\ e \in Event
        /\ pending' = Tail(pending) /\ pending' \in Seq(Event) /\ Receive(e)
    BY <1>1 DEF Inductive, WriteEvent, TypeOK
  <1>3. PICK f \in View : Step(Late, Now, e, f) /\ Run(Late, f, Tail(pending), c)
    BY <1>1, <1>2, RunFirst
  <1>4. /\ state' = state /\ status' = status /\ content' = content /\ lost' = lost
        /\ nameless' = nameless
        /\ chunks' = chunks /\ announced' = announced /\ current' = current
        /\ finished' = finished /\ indexed' = indexed /\ interleaved' = interleaved
        /\ failed' = failed /\ received' = received + 1
    BY <1>2 DEF WriteEvent, Receive, upstream, ghosts
  <1>5. Now = [phase |-> phase, blocks |-> blocks, open |-> open]
        /\ Now' = [phase |-> phase', blocks |-> blocks', open |-> open']
    BY DEF Now
  <1>6. Now.phase = phase /\ Now.blocks = blocks /\ Now.open = open
    BY <1>5
  <1>7. Now' = f
    <2>1. CASE e.type = "message_start" /\ f = [Now EXCEPT !.phase = "content"]
      <3>1. phase' = "content" /\ blocks' = blocks /\ open' = open
        BY <1>2, <2>1 DEF Receive
      <3> QED BY <1>5, <2>1, <3>1
    <2>2. CASE /\ e.type = "block_start" /\ Now.open = {}
               /\ f = [Now EXCEPT !.blocks[e.index] = [kind |-> e.kind, writes |-> 0], !.open = {e.index}]
      <3>1. /\ phase' = phase /\ open' = {e.index}
            /\ blocks' = [blocks EXCEPT ![e.index] = [kind |-> e.kind, writes |-> 0]]
        BY <1>2, <1>6, <2>2 DEF Receive
      <3>2. PICK i, b, x : i = e.index /\ b = [kind |-> e.kind, writes |-> 0] /\ x = {e.index}
        OBVIOUS
      <3>3. StartBlock(Now, i, b, x) = [phase |-> phase, blocks |-> [blocks EXCEPT ![i] = b], open |-> x]
        BY <1>5, StartedView
      <3>4. f = StartBlock(Now, i, b, x)
        BY <2>2, <3>2 DEF StartBlock
      <3> QED BY <1>5, <3>1, <3>2, <3>3, <3>4
    <2>3. CASE e.type = "block_delta" /\ f = [Now EXCEPT !.blocks[e.index].writes = @ + 1]
      <3>1. /\ phase' = phase /\ open' = open
            /\ blocks' = [blocks EXCEPT ![e.index].writes = @ + 1]
        BY <1>2, <2>3 DEF Receive
      <3>2. PICK i : i = e.index
        OBVIOUS
      <3>3. [Now EXCEPT !.blocks[i].writes = @ + 1]
              = [phase |-> phase, blocks |-> [blocks EXCEPT ![i].writes = @ + 1], open |-> open]
        BY <1>5, WrittenView
      <3> QED BY <1>5, <2>3, <3>1, <3>2, <3>3
    <2>4. CASE e.type = "block_stop" /\ Now.open = {e.index} /\ f = [Now EXCEPT !.open = {}]
      <3>1. phase' = phase /\ blocks' = blocks /\ open' = {}
        BY <1>2, <1>6, <2>4 DEF Receive
      <3> QED BY <1>5, <2>4, <3>1
    <2>5. CASE e.type = "message_delta" /\ f = [Now EXCEPT !.phase = "reason"]
      <3>1. phase' = "reason" /\ blocks' = blocks /\ open' = open
        BY <1>2, <2>5 DEF Receive
      <3> QED BY <1>5, <2>5, <3>1
    <2>6. CASE e.type = "message_stop" /\ f = [Now EXCEPT !.phase = "stopped"]
      <3>1. phase' = "stopped" /\ blocks' = blocks /\ open' = open
        BY <1>2, <2>6 DEF Receive
      <3> QED BY <1>5, <2>6, <3>1
    <2> QED BY <1>3, <2>1, <2>2, <2>3, <2>4, <2>5, <2>6 DEF Step
  <1>8. /\ phase' \in {"before", "content", "reason", "stopped"}
        /\ blocks' \in [Indices -> {Unused} \cup Block] /\ open' \subseteq Indices
    <2>1. phase' = f.phase /\ blocks' = f.blocks /\ open' = f.open
      BY <1>5, <1>7
    <2> QED BY <2>1 DEF View
  <1>9. TypeOK'
    <2>1. received' \in Nat
      BY <1>2, <1>4 DEF TypeOK
    <2> QED BY <1>2, <1>4, <1>8, <2>1 DEF TypeOK, Block, Kinds
  <1>10. Late' = Late /\ Clear' = Clear
    BY <1>4 DEF Late, Clear
  <1>11. (\E d \in View : /\ Run(Late, Now, pending, d)
                          /\ Delivered(Clear, nameless, d, content)
                          /\ ~finished => Live(Late, indexed, d, state, announced, current, chunks))'
    <2>1. Run(Late, Now', pending', c)
      BY <1>2, <1>3, <1>7
    <2> QED BY <1>4, <1>10, <2>1
  <1>12. /\ (failed' => status' = "broken") /\ (interleaved' => indexed')
         /\ ~finished' => Named(indexed', Clear', nameless', state', announced')
         /\ \A t \in Tool \ announced' : content'[t] = 0
    BY <1>4, <1>10 DEF Inductive
  <1> QED BY <1>1, <1>3, <1>7, <1>9, <1>10, <1>11, <1>12 DEF Inductive

\* Steps that end the stream, and steps that change nothing.
LEMMA RestKeeps ==
    ASSUME Inductive,
           \/ \E how \in {"gone", "done"} : End(how)
           \/ StreamBroken
           \/ UNCHANGED vars
    PROVE  Inductive' /\ Late' = Late /\ Now' = Now
  <1>1. /\ state' = state /\ pending' = pending /\ content' = content /\ lost' = lost
        /\ nameless' = nameless
        /\ chunks' = chunks /\ announced' = announced /\ current' = current
        /\ finished' = finished /\ indexed' = indexed /\ interleaved' = interleaved
        /\ phase' = phase /\ blocks' = blocks /\ open' = open
    BY DEF End, StreamBroken, vars, upstream, client, ghosts
  <1>2. /\ status' \in {"reading", "gone", "done", "broken"} /\ received' \in Nat
        /\ failed' \in BOOLEAN /\ (failed' => status' = "broken")
    <2>1. /\ status \in {"reading", "gone", "done", "broken"} /\ received \in Nat
          /\ failed \in BOOLEAN /\ (failed => status = "broken")
      BY DEF Inductive, TypeOK
    <2>2. ASSUME NEW how \in {"gone", "done"}, End(how)
          PROVE  status' = how /\ received' = received /\ failed' = failed /\ ~failed
      BY <2>1, <2>2 DEF End, client
    <2>3. CASE StreamBroken
      BY <2>1, <2>3 DEF StreamBroken
    <2>4. CASE UNCHANGED vars
      BY <2>1, <2>4 DEF vars, client
    <2> QED BY <2>1, <2>2, <2>3, <2>4
  <1>3. Late' = Late /\ Now' = Now /\ Clear' = Clear
    BY <1>1 DEF Late, Now, Clear
  <1>4. TypeOK'
    BY <1>1, <1>2 DEF Inductive, TypeOK
  <1>5. (\E d \in View : /\ Run(Late, Now, pending, d)
                         /\ Delivered(Clear, nameless, d, content)
                         /\ ~finished => Live(Late, indexed, d, state, announced, current, chunks))'
    BY <1>1, <1>3 DEF Inductive
  <1>6. /\ interleaved' => indexed'
        /\ ~finished' => Named(indexed', Clear', nameless', state', announced')
        /\ \A t \in Tool \ announced' : content'[t] = 0
    BY <1>1, <1>3 DEF Inductive
  <1> QED BY <1>2, <1>3, <1>4, <1>5, <1>6 DEF Inductive

LEMMA NextInductive == Inductive /\ [Next]_vars => Inductive'
  <1> SUFFICES ASSUME Inductive, [Next]_vars PROVE Inductive'
    OBVIOUS
  <1>1. ASSUME NEW chunk \in Chunk, ReadChunk(chunk) PROVE Inductive'
    BY <1>1, ReadKeeps
  <1>2. ASSUME NEW chunk \in Chunk, SkipChunk(chunk) PROVE Inductive'
    BY <1>2, SkipKeeps
  <1>3. CASE WriteEvent
    BY <1>3, WriteKeeps
  <1>4. CASE \/ \E how \in {"gone", "done"} : End(how)
             \/ StreamBroken
             \/ UNCHANGED vars
    BY <1>4, RestKeeps
  <1> QED BY <1>1, <1>2, <1>3, <1>4 DEF Next, ClientGone, StreamDone

\* The types of StreamTranslation hold of every reachable state: every event's
\* block index is one the chunks can use (stream_translation.go:74-83).
THEOREM TypeCorrect == Spec => []TypeOK
  <1>1. Inductive => TypeOK
    BY DEF Inductive
  <1> QED BY <1>1, InitInductive, NextInductive, PTL DEF Spec

\* Whenever all that was translated has been written, the client has every piece
\* of text that a parsed chunk carried, and, as long as it is clear which tool call
\* is meant, every piece of the arguments of each call but those whose ID and name
\* were lost with a chunk, of which it has none (stream_translation.go:74-83, 105,
\* 117, 128; instance/handler.go:262).
THEOREM EveryPieceArrives == Spec => []ContentArrives
  <1>1. ASSUME Inductive PROVE ContentArrives
    <2> SUFFICES ASSUME pending = <<>>
                 PROVE  /\ Writes(Text) = content[Text]
                        /\ indexed \/ ~lost =>
                             \A t \in Tool : Writes(t) = IF t \in nameless THEN 0 ELSE content[t]
      BY DEF ContentArrives
    <2>1. PICK c \in View : Run(Late, Now, pending, c) /\ Delivered(Clear, nameless, c, content)
      BY <1>1 DEF Inductive
    <2>2. indexed \/ ~lost => Clear
      BY <1>1 DEF Clear, Late, Inductive
    <2>3. c = Now /\ Now.blocks = blocks
      BY <2>1, RunNothing DEF Now
    <2>4. ASSUME NEW kind \in Kinds, kind = Text \/ Clear
          PROVE  Writes(kind) = IF kind \in nameless THEN 0 ELSE content[kind]
      <3>1. WritesIn(blocks, kind) = IF kind \in nameless THEN 0 ELSE content[kind]
        BY <2>1, <2>3, <2>4 DEF Delivered
      <3> QED BY <3>1 DEF WritesIn, Writes
    <2>5. Text \notin nameless
      BY <1>1, UnusedIsNoBlock DEF Inductive, TypeOK
    <2> QED BY <2>2, <2>4, <2>5 DEF Kinds
  <1> QED BY <1>1, InitInductive, NextInductive, PTL DEF Spec
-----------------------------------------------------------------------------
(* The refinement *)

LEMMA WritesLegally ==
    ASSUME Inductive, WriteEvent PROVE Stream!Next
  <1>1. PICK e : e = Head(pending)
    OBVIOUS
  <1>2. Step(Late, Now, e, Now') /\ Late' = Late /\ Receive(e)
    BY <1>1, WriteKeeps DEF WriteEvent
  <1>3. Now.phase = phase /\ Now.blocks = blocks /\ Now.open = open /\ TypeOK
    BY DEF Now, Inductive
  <1>4. Stream!Event
    BY <1>2 DEF Stream!Event, Inductive, WriteEvent, Receive, Late
  <1>5. failed' = failed
    BY <1>2 DEF Receive
  <1>6. Stream!Text = Text /\ Stream!Unused = Unused
    BY DEF Stream!Text, Stream!Unused, Text, Unused
  <1>7. CASE e.type = "message_start" /\ Now.phase = "before"
    <2>1. Stream!MessageStart
      BY <1>2, <1>3, <1>4, <1>5, <1>7 DEF Stream!MessageStart, Receive
    <2> QED BY <2>1 DEF Stream!Next
  <1>8. CASE /\ e.type = "block_start" /\ Now.phase = "content" /\ Now.open = {}
             /\ e.index \in Indices /\ e.kind \in Kinds
             /\ \A j \in Indices : j < e.index <=> Now.blocks[j] # Unused
             /\ e.kind # Text => \A j \in Indices : Now.blocks[j] # Unused => Now.blocks[j].kind # e.kind
    <2>1. /\ phase' = phase /\ open' = {e.index}
          /\ blocks' = [blocks EXCEPT ![e.index] = [kind |-> e.kind, writes |-> 0]]
      BY <1>2, <1>3, <1>8 DEF Receive
    <2>2. Stream!BlockStart(e.index, e.kind)
      BY <1>3, <1>4, <1>5, <1>6, <1>8, <2>1 DEF Stream!BlockStart
    <2> QED BY <1>6, <1>8, <2>2 DEF Stream!Next, Kinds
  <1>9. CASE /\ e.type = "block_delta" /\ Now.phase = "content"
             /\ e.index \in Indices /\ Now.blocks[e.index] # Unused
             /\ ~Late \/ Now.blocks[e.index].kind = Text => e.index \in Now.open
    <2>1. /\ phase' = phase /\ open' = open
          /\ blocks' = [blocks EXCEPT ![e.index].writes = @ + 1]
      BY <1>2, <1>9 DEF Receive
    <2>2. blocks[e.index].kind \in Kinds
      BY <1>3, <1>9 DEF TypeOK, Kinds
    <2>3. PICK k : k = blocks[e.index].kind
      OBVIOUS
    <2>4. Stream!BlockDelta(e.index, k)
      BY <1>3, <1>4, <1>5, <1>6, <1>9, <2>1, <2>3 DEF Stream!BlockDelta, Late
    <2> QED BY <1>6, <1>9, <2>2, <2>3, <2>4 DEF Stream!Next, Kinds
  <1>10. CASE /\ e.type = "block_stop" /\ Now.phase = "content"
              /\ e.index \in Indices /\ Now.open = {e.index}
    <2>1. phase' = phase /\ open' = {} /\ blocks' = blocks
      BY <1>2, <1>3, <1>10 DEF Receive
    <2>2. Stream!BlockStop(e.index)
      BY <1>3, <1>4, <1>5, <1>10, <2>1 DEF Stream!BlockStop
    <2> QED BY <1>10, <2>2 DEF Stream!Next
  <1>11. CASE e.type = "message_delta" /\ Now.phase = "content" /\ Now.open = {}
    <2>1. Stream!MessageDelta
      BY <1>2, <1>3, <1>4, <1>5, <1>11 DEF Stream!MessageDelta, Receive
    <2> QED BY <2>1 DEF Stream!Next
  <1>12. CASE e.type = "message_stop" /\ Now.phase = "reason"
    <2>1. Stream!MessageStop
      BY <1>2, <1>3, <1>4, <1>5, <1>12 DEF Stream!MessageStop, Receive
    <2> QED BY <2>1 DEF Stream!Next
  <1> QED BY <1>2, <1>7, <1>8, <1>9, <1>10, <1>11, <1>12 DEF Step

LEMMA StepsLegally == Inductive /\ [Next]_vars => [Stream!Next]_(Stream!vars)
  <1> SUFFICES ASSUME Inductive, [Next]_vars PROVE [Stream!Next]_(Stream!vars)
    OBVIOUS
  <1>1. ASSUME NEW chunk \in Chunk, ReadChunk(chunk) PROVE UNCHANGED Stream!vars
    <2>1. Late' = Late
      BY <1>1, ReadKeeps
    <2> QED BY <1>1, <2>1 DEF ReadChunk, client, Stream!vars, Late
  <1>2. ASSUME NEW chunk \in Chunk, SkipChunk(chunk) PROVE [Stream!Next]_(Stream!vars)
    <2>1. /\ lost' = TRUE /\ indexed' = indexed /\ interleaved' = interleaved
          /\ {indexed, interleaved, lost} \subseteq BOOLEAN
          /\ phase' = phase /\ blocks' = blocks /\ open' = open
          /\ received' = received /\ failed' = failed
      BY <1>2 DEF Inductive, TypeOK, SkipChunk, Send, client
    <2>2. CASE interleaved \/ ~indexed
      <3>1. Late' = TRUE
        BY <2>1, <2>2 DEF Late
      <3>2. Stream!Confuse
        BY <2>1, <3>1 DEF Stream!Confuse, Late
      <3> QED BY <3>2 DEF Stream!Next
    <2>3. CASE ~interleaved /\ indexed
      <3>1. Late' = Late
        BY <2>1, <2>3 DEF Late
      <3> QED BY <2>1, <3>1 DEF Stream!vars, Late
    <2> QED BY <2>2, <2>3
  <1>3. CASE WriteEvent
    BY <1>3, WritesLegally
  <1>4. CASE StreamBroken
    <2>1. Late' = Late /\ ~failed
      BY <1>4, RestKeeps DEF Inductive, StreamBroken
    <2>2. Stream!Error
      BY <1>4, <2>1 DEF Stream!Error, Stream!Event, StreamBroken, Late
    <2> QED BY <2>2 DEF Stream!Next
  <1>5. CASE (\E how \in {"gone", "done"} : End(how)) \/ UNCHANGED vars
    <2>1. Late' = Late
      BY <1>5, RestKeeps
    <2> QED BY <1>5, <2>1 DEF End, vars, client, Stream!vars, Late
  <1> QED BY <1>1, <1>2, <1>3, <1>4, <1>5 DEF Next, ClientGone, StreamDone

\* What the client receives is an Anthropic stream, for any number of chunks and
\* tools (stream_translation.go:9, 85, 123).
THEOREM StreamIsAnthropicAlways == Spec => StreamIsAnthropic
  <1>1. Init => Stream!Init
    BY DEF Init, Stream!Init, Stream!Unused, Unused
  <1> QED BY <1>1, InitInductive, NextInductive, StepsLegally, PTL
          DEF Spec, StreamIsAnthropic, Stream!Spec
=============================================================================
