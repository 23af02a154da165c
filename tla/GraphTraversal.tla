--------------------------- MODULE GraphTraversal ---------------------------
(***************************************************************************)
(* The Gremlin-like step algebra of                                        *)
(* src/topology/graph/traversal/traversal.go.                              *)
(*                                                                         *)
(* A query is built one step at a time (V, Has, Out, In, Both, OutE, InE,  *)
(* InV, OutV, Dedup, Range, Limit, Count, Context).  Every step returns a  *)
(* new step value carrying a sequence of nodes, edges or values, or a     *)
(* sticky error.  Producing steps thread the traversal's pagination range  *)
(* (currentStepContext.PaginationRange) through a common.Iterator.         *)
(*                                                                         *)
(* The model evaluates the same query twice side by side: "paged" under    *)
(* the pagination range ctx and "full" without one, so that properties    *)
(* can relate a page to the unpaged result.  The graph is a constant; its *)
(* store (GetNodes, GetNodeEdges, GetEdgeNodes, LookupChildren,            *)
(* LookupParents) is outside src/ and follows the spec: insertion order.  *)
(***************************************************************************)
EXTENDS Integers, Sequences, FiniteSets

LOCAL SX == INSTANCE SequencesExt

CONSTANTS
    NodeIds,      \* node identifiers
    NodeOrder,    \* the graph's nodes in insertion order
    Meta,         \* Meta[n][k]: node metadata, Absent where the key is missing
    Edges,        \* the graph's edges in insertion order: [parent, child, rel]
    Keys,         \* node metadata keys
    Absent,       \* model value: the key is not in the metadata
    HasArgs,      \* parameter lists of Has: <<key, matcher, key, matcher, ...>>
    NodeFilters,  \* metadata arguments of V/Out/In/Both/InV/OutV: NoFilter or <<k, m, ...>>
    EdgeFilters,  \* metadata arguments of OutE/InE/E.Has: NoFilter or <<k, m, ...>>
    NoFilter,     \* model value: the step was called without metadata
    RangeArgs,    \* integer arguments of Range and Limit
    SumArgs,      \* arguments of Sum: a key, NoFilter (none) or a non-string
    SPTargets,    \* target metadata of ShortestPathTo, as [key, accept]
    SPEdgeFilters,\* edge metadata of ShortestPathTo: NoFilter or [key, accept]
    PageRanges,   \* pagination ranges of a query: NoRange or <<from, to>>
    NoRange,      \* model value: no PaginationRange in the step context
    MaxSteps      \* bound on the length of a query

ASSUME /\ NodeOrder \in Seq(NodeIds)
       /\ Edges \in Seq([parent : NodeIds, child : NodeIds, rel : Int \cup {Absent}])

-----------------------------------------------------------------------------
(* Metadata matchers: ParamToFilter turns a query argument into a filter.  *)
(* A matcher is [op, args]; a filter is the set of metadata values it     *)
(* accepts, or FilterError when the conversion fails.  Values are small   *)
(* integers and strings (model values).  Regex(expr) is [op |-> "regex", *)
(* args |-> <<L>>] where L, the set of strings expr matches, stands for   *)
(* the pattern (regexp is outside src/).                                   *)

\* Within, Without, Ne, Lt, Gt, Lte, Gte, Inside, Outside, Between and
\* Regex each wrap their arguments in a matcher of their own type (Regex
\* keeps the pattern whether or not it compiles).
Matcher(op, args) == [op |-> op, args |-> args]

FilterError == [err |-> TRUE, accept |-> {}]
Filter(f) == [err |-> FALSE, accept |-> f]

IsInt(v) == v \in Int
Ints(D) == { x \in D : IsInt(x) }

\* common.ToInt64: integers convert, anything else is an error.
ToInt64Ok(v) == IsInt(v)

\* The matchers of a parameter list k1, m1, k2, m2, ... (a trailing key of
\* an odd list has none).
PairMatchers(p) == { p[2 * i] : i \in 1..(Len(p) \div 2) }

\* The metadata values a matcher names (a pattern is not one).
ValueArgs(m) == IF m.op = "regex" THEN {} ELSE SX!ToSet(m.args)

\* The values over which filters are evaluated.
Domain == ({ Meta[n][k] : n \in NodeIds, k \in Keys }
           \cup UNION { ValueArgs(m) : m \in UNION { PairMatchers(p) :
                                         p \in HasArgs \cup ((NodeFilters \cup EdgeFilters) \ {NoFilter}) } }
           \cup { e.rel : e \in SX!ToSet(Edges) }) \ {Absent}

TermFilter(v) == {v}
NotFilter(f) == Domain \ f
LtFilter(i)  == { x \in Ints(Domain) : x < i }
GtFilter(i)  == { x \in Ints(Domain) : x > i }
LteFilter(i) == { x \in Ints(Domain) : x <= i }
GteFilter(i) == { x \in Ints(Domain) : x >= i }
\* filters.RegexFilter: a string value the pattern matches.
RegexFilter(L) == { x \in Domain \ Ints(Domain) : x \in L }

\* ParamToFilter.  Without and any other
\* matcher object reach the default case, where ToInt64 fails.
\* Mutant: Between translated with a strict lower bound.
ParamToFilterBetweenExclusive(m) ==
    LET a == m.args[1]
        b == IF Len(m.args) > 1 THEN m.args[2] ELSE a
        allInt == \A i \in DOMAIN m.args : ToInt64Ok(m.args[i])
    IN
    CASE m.op \in {"lt", "gt", "lte", "gte", "inside", "outside", "between"} /\ ~allInt -> FilterError
      [] m.op = "between" -> Filter(GtFilter(a) \cap LtFilter(b))
      [] m.op = "ne" -> Filter(NotFilter(TermFilter(a)))
      [] m.op = "lt"  -> Filter(LtFilter(a))
      [] m.op = "gt"  -> Filter(GtFilter(a))
      [] m.op = "gte" -> Filter(GteFilter(a))
      [] m.op = "lte" -> Filter(LteFilter(a))
      [] m.op = "inside"  -> Filter(GtFilter(a) \cap LtFilter(b))
      [] m.op = "within"  -> Filter(UNION { TermFilter(m.args[i]) : i \in DOMAIN m.args })
      [] m.op = "eq" -> Filter(TermFilter(a))
      [] OTHER -> FilterError

ParamToFilter(m) ==
    LET a == m.args[1]
        b == IF Len(m.args) > 1 THEN m.args[2] ELSE a
        allInt == \A i \in DOMAIN m.args : ToInt64Ok(m.args[i])
    IN
    CASE m.op = "regex" -> Filter(RegexFilter(a))
      [] m.op = "ne" -> Filter(NotFilter(TermFilter(a)))
      [] m.op \in {"lt", "gt", "lte", "gte", "inside", "outside", "between"}
            /\ ~allInt -> FilterError
      [] m.op = "lt"  -> Filter(LtFilter(a))
      [] m.op = "gt"  -> Filter(GtFilter(a))
      [] m.op = "gte" -> Filter(GteFilter(a))
      [] m.op = "lte" -> Filter(LteFilter(a))
      [] m.op = "inside"  -> Filter(GtFilter(a) \cap LtFilter(b))
      [] m.op = "outside" -> Filter(LtFilter(a) \cap GtFilter(b))
      [] m.op = "between" -> Filter(GteFilter(a) \cap LtFilter(b))
      [] m.op = "within"  -> Filter(UNION { TermFilter(m.args[i]) : i \in DOMAIN m.args })
      [] m.op = "eq" -> Filter(TermFilter(a))
      [] OTHER -> FilterError

\* What section 4.B of the spec says each matcher accepts.
SpecFilter(m) ==
    LET a == m.args[1]
        b == IF Len(m.args) > 1 THEN m.args[2] ELSE a
        numeric == m.op \in {"lt", "gt", "lte", "gte", "inside", "outside", "between"}
    IN
    IF numeric /\ \E i \in DOMAIN m.args : ~IsInt(m.args[i]) THEN FilterError
    ELSE CASE m.op = "regex" -> Filter({ x \in Domain \ Ints(Domain) : x \in a })
           [] m.op = "eq" -> Filter({a})
           [] m.op = "ne" -> Filter(Domain \ {a})
           [] m.op = "lt" -> Filter({ x \in Ints(Domain) : x < a })
           [] m.op = "gt" -> Filter({ x \in Ints(Domain) : x > a })
           [] m.op = "lte" -> Filter({ x \in Ints(Domain) : x <= a })
           [] m.op = "gte" -> Filter({ x \in Ints(Domain) : x >= a })
           [] m.op = "inside" -> Filter({ x \in Ints(Domain) : a < x /\ x < b })
           [] m.op = "outside" -> Filter({ x \in Ints(Domain) : x < a \/ x > b })
           [] m.op = "between" -> Filter({ x \in Ints(Domain) : a <= x /\ x < b })
           [] m.op = "within" -> Filter(SX!ToSet(m.args))
           [] m.op = "without" -> Filter(Domain \ SX!ToSet(m.args))

\* A node matches a filter on key k when it has k and the filter accepts
\* the value (the spec: missing keys never match).
NodeMatches(n, k, f) == k \in Keys /\ Meta[n][k] # Absent /\ Meta[n][k] \in f

\* The keys that are strings: node keys and the edges' RelationType (the
\* model value i0 stands for a key of another type).
StringKeys == Keys \cup {"RelationType"}

\* The index of the last pair of p with key k.
LastPair(p, k) ==
    CHOOSE i \in 1..(Len(p) \div 2) :
        p[2 * i - 1] = k /\ \A j \in 1..(Len(p) \div 2) : p[2 * j - 1] = k => j <= i

\* A bad parameter list: odd, a key that is not a string, or a matcher
\* that does not convert.
BadParams(p) ==
    \/ Len(p) % 2 # 0
    \/ \E i \in 1..(Len(p) \div 2) : p[2 * i - 1] \notin StringKeys \/ ParamToFilter(p[2 * i]).err

\* SliceToMetadata(k1, m1, k2, m2, ...): the metadata argument of V, Out,
\* In, Both, OutE, InE, InV, OutV and E.Has.  A bad list fails the whole
\* step; otherwise the map key -> filter built pair by pair with m[k] =
\* filter, so that a key given twice keeps only its last matcher.
SliceToMetadata(arg) ==
    CASE arg = NoFilter -> NoFilter
      [] BadParams(arg) -> FilterError
      [] OTHER -> [err |-> FALSE,
                   map |-> [k \in { arg[2 * i - 1] : i \in 1..(Len(arg) \div 2) } |->
                              ParamToFilter(arg[2 * LastPair(arg, k)]).accept]]

\* ParamsToFilter(params...): an odd list, a key that is not a string or a
\* failing matcher is an error; otherwise the And filter of one term per
\* pair, as a sequence of [key, accept] (a key given twice keeps both).
ParamsToFilter(p) ==
    LET pairs == 1..(Len(p) \div 2)
    IN IF BadParams(p)
       THEN FilterError
       ELSE [err |-> FALSE,
             terms |-> [i \in pairs |-> [key |-> p[2 * i - 1], accept |-> ParamToFilter(p[2 * i]).accept]]]

\* filters.NewAndFilter(...).Eval(n): every term accepts the node.
AndMatches(n, f) == \A i \in DOMAIN f.terms : NodeMatches(n, f.terms[i].key, f.terms[i].accept)

\* graph.Metadata matching (store side): every key of the map is present
\* with a value its filter accepts.  An edge's only key is RelationType.
MatchNode(n, mf) == mf = NoFilter \/ \A k \in DOMAIN mf.map : NodeMatches(n, k, mf.map[k])
EdgeValue(i, k) == IF k = "RelationType" THEN Edges[i].rel ELSE Absent
MatchEdge(i, mf) ==
    mf = NoFilter \/ \A k \in DOMAIN mf.map : EdgeValue(i, k) # Absent /\ EdgeValue(i, k) \in mf.map[k]

-----------------------------------------------------------------------------
(* The graph store, in insertion order (the store is outside src/).        *)

EdgeIds == DOMAIN Edges
GetNodes(mf) == SelectSeq(NodeOrder, LAMBDA n : MatchNode(n, mf))
GetNodeEdges(n, mf) ==
    SelectSeq([i \in EdgeIds |-> i],
              LAMBDA i : (Edges[i].parent = n \/ Edges[i].child = n) /\ MatchEdge(i, mf))
EdgeParent(i, mf) == IF MatchNode(Edges[i].parent, mf) THEN <<Edges[i].parent>> ELSE << >>
EdgeChild(i, mf)  == IF MatchNode(Edges[i].child, mf) THEN <<Edges[i].child>> ELSE << >>
LookupChildren(n, mf) ==
    SX!FlattenSeq([j \in 1..Len(GetNodeEdges(n, NoFilter)) |->
        LET i == GetNodeEdges(n, NoFilter)[j]
        IN IF Edges[i].parent = n THEN EdgeChild(i, mf) ELSE << >>])
LookupParents(n, mf) ==
    SX!FlattenSeq([j \in 1..Len(GetNodeEdges(n, NoFilter)) |->
        LET i == GetNodeEdges(n, NoFilter)[j]
        IN IF Edges[i].child = n THEN EdgeParent(i, mf) ELSE << >>])

\* The nested "for each element, for each result" loops: the results of
\* the elements, concatenated in order.
ConcatMap(results) == SX!FlattenSeq(results)

-----------------------------------------------------------------------------
(* common.Iterator over a GraphTraversalRange: element number i (counted   *)
(* from 0 among the elements offered to Next) is admitted when            *)
(* from <= i < to, and the loop stops once i reaches to.                   *)

Done(r, i)   == r # NoRange /\ i >= r[2]
Admits(r, i) == r = NoRange \/ (r[1] <= i /\ i < r[2])

\* The loop "if it.Done() break; else if cond && it.Next() append" over the
\* candidates that satisfy cond.
\* Mutant: the iterator admits from index from + 1.
PageFromOne(cands, r) ==
    IF r = NoRange THEN cands
    ELSE SubSeq(cands, r[1] + 2, IF r[2] < Len(cands) THEN r[2] ELSE Len(cands))

Page(cands, r) ==
    IF r = NoRange THEN cands
    ELSE SubSeq(cands, r[1] + 1, IF r[2] < Len(cands) THEN r[2] ELSE Len(cands))

-----------------------------------------------------------------------------
(* Step values.  kind is the Go type of the step (GraphTraversal, ...V,    *)
(* ...E, ...Value); rng is currentStepContext.PaginationRange of the      *)
(* GraphTraversal the step points to.  An error step has no elements.     *)

Kinds == {"graph", "V", "E", "value", "paths"}

Result(s, kind, elems) == [kind |-> kind, elems |-> elems, err |-> FALSE, rng |-> s.rng]
\* An element of a value step: [val |-> v] for a metadata value or a
\* number, [key |-> k] for a metadata key.
Val(v) == [val |-> v]

Err(kind) == [kind |-> kind, elems |-> << >>, err |-> TRUE, rng |-> NoRange]

\* Steps on a GraphTraversal.
ContextStep(s, future, ok) ==
    IF s.err THEN s
    ELSE IF future \/ ~ok THEN Err("graph")
    ELSE [s EXCEPT !.rng = NoRange]

V(s) == IF s.err THEN Err("V") ELSE Result(s, "V", Page(GetNodes(NoFilter), s.rng))

\* Mutant: GetNode's nil result is not checked.
VByIdNoNilCheck(s, id) ==
    IF s.err THEN Err("V")
    ELSE Result(s, "V", Page(<<IF id \in SX!ToSet(NodeOrder) THEN id ELSE Absent>>, s.rng))

VById(s, id) ==
    CASE s.err -> Err("V")
      [] id \notin SX!ToSet(NodeOrder) -> Err("V")
      [] OTHER -> Result(s, "V", Page(<<id>>, s.rng))

VByMetadata(s, arg) ==
    LET mf == SliceToMetadata(arg)
    IN CASE s.err -> Err("V")
         [] mf = FilterError -> Err("V")
         [] OTHER -> Result(s, "V", Page(GetNodes(mf), s.rng))

\* Steps on a GraphTraversalV.
HasKey(s, k) ==
    IF s.err THEN s ELSE Result(s, "V", SelectSeq(s.elems, LAMBDA n : Meta[n][k] # Absent))

\* Has with two or more parameters (the one-parameter case is HasKey).
Has(s, params) ==
    LET f == ParamsToFilter(params)
    IN CASE s.err -> s
         [] f.err -> Err("V")
         [] OTHER -> Result(s, "V", Page(SelectSeq(s.elems, LAMBDA n : AndMatches(n, f)), s.rng))

Out(s, arg) ==
    LET mf == SliceToMetadata(arg)
    IN CASE s.err -> s
         [] mf = FilterError -> Err("V")
         [] OTHER -> Result(s, "V", Page(ConcatMap([j \in 1..Len(s.elems) |-> LookupChildren(s.elems[j], mf)]), s.rng))

\* In never calls it.Next(): the pagination range is not applied.
In(s, arg) ==
    LET mf == SliceToMetadata(arg)
    IN CASE s.err -> s
         [] mf = FilterError -> Err("V")
         [] OTHER -> Result(s, "V", ConcatMap([j \in 1..Len(s.elems) |-> LookupParents(s.elems[j], mf)]))

Both(s, arg) ==
    LET mf == SliceToMetadata(arg)
        Other(n) == LET es == GetNodeEdges(n, NoFilter)
                    IN ConcatMap([j \in 1..Len(es) |->
                         IF Edges[es[j]].child = n THEN EdgeParent(es[j], mf) ELSE EdgeChild(es[j], mf)])
    IN CASE s.err -> s
         [] mf = FilterError -> Err("V")
         [] OTHER -> Result(s, "V", Page(ConcatMap([j \in 1..Len(s.elems) |-> Other(s.elems[j])]), s.rng))

\* The edges of n matching mf of which n is the parent (the child).
OutEdges(n, mf) == SelectSeq(GetNodeEdges(n, mf), LAMBDA i : Edges[i].parent = n)
InEdges(n, mf)  == SelectSeq(GetNodeEdges(n, mf), LAMBDA i : Edges[i].child = n)

\* OutE never calls it.Next() either.
OutE(s, arg) ==
    LET mf == SliceToMetadata(arg)
    IN CASE s.err -> Err("E")
         [] mf = FilterError -> Err("E")
         [] OTHER -> Result(s, "E", ConcatMap([j \in 1..Len(s.elems) |-> OutEdges(s.elems[j], mf)]))

InE(s, arg) ==
    LET mf == SliceToMetadata(arg)
    IN CASE s.err -> Err("E")
         [] mf = FilterError -> Err("E")
         [] OTHER -> Result(s, "E", Page(ConcatMap([j \in 1..Len(s.elems) |-> InEdges(s.elems[j], mf)]), s.rng))

HasNoParameter(s) == IF s.err THEN s ELSE Err("V")

\* The Dedup loop: kvisited is the node ID, or with a key its value (a node
\* without the key is skipped).  A node is marked visited only once the
\* iterator admitted it.
NoKey == "id"
DedupKey(n, k) == IF k = NoKey THEN n ELSE Meta[n][k]

\* Mutant: it.Next() is called before the visited check.
RECURSIVE DedupLoopNextFirst(_, _, _, _, _)
DedupLoopNextFirst(xs, k, r, i, visited) ==
    IF xs = << >> \/ Done(r, i) THEN << >>
    ELSE LET n == Head(xs)
         IN CASE k # NoKey /\ Meta[n][k] = Absent -> DedupLoopNextFirst(Tail(xs), k, r, i, visited)
              [] DedupKey(n, k) \notin visited /\ Admits(r, i) ->
                    <<n>> \o DedupLoopNextFirst(Tail(xs), k, r, i + 1, visited \cup {DedupKey(n, k)})
              [] OTHER -> DedupLoopNextFirst(Tail(xs), k, r, i + 1, visited)

RECURSIVE DedupLoop(_, _, _, _, _)
DedupLoop(xs, k, r, i, visited) ==
    IF xs = << >> \/ Done(r, i) THEN << >>
    ELSE LET n == Head(xs)
         IN CASE k # NoKey /\ Meta[n][k] = Absent -> DedupLoop(Tail(xs), k, r, i, visited)
              [] DedupKey(n, k) \in visited -> DedupLoop(Tail(xs), k, r, i, visited)
              [] Admits(r, i) ->
                    <<n>> \o DedupLoop(Tail(xs), k, r, i + 1, visited \cup {DedupKey(n, k)})
              [] OTHER -> DedupLoop(Tail(xs), k, r, i + 1, visited)

Dedup(s, k) == IF s.err THEN s ELSE Result(s, "V", DedupLoop(s.elems, k, s.rng, 0, {}))

\* Range indexes tv.nodes[from] for from < len and from < to: a negative
\* from indexes out of bounds, a runtime panic.
RangePanics(s, from, to) == ~s.err /\ from < 0 /\ from < to /\ Len(s.elems) > 0
RangeSlice(xs, from, to) ==
    IF from >= to \/ from >= Len(xs) THEN << >>
    ELSE SubSeq(xs, from + 1, IF to < Len(xs) THEN to ELSE Len(xs))
Range(s, from, to) ==
    CASE s.err -> Err(s.kind)
      [] RangePanics(s, from, to) -> s
      [] OTHER -> Result(s, s.kind, RangeSlice(s.elems, from, to))
Limit(s, n) == Range(s, 0, n)

\* Mutant: Count does not check the step's error.
CountNoErrorCheck(s) == Result(s, "value", <<Val(Len(s.elems))>>)

Count(s) == IF s.err THEN Err("value") ELSE Result(s, "value", <<Val(Len(s.elems))>>)

\* Steps on a GraphTraversalE.
EHas(s, arg) ==
    LET mf == SliceToMetadata(arg)
    IN CASE s.err -> s
         [] mf = FilterError -> Err("E")
         [] OTHER -> Result(s, "E", Page(SelectSeq(s.elems, LAMBDA i : MatchEdge(i, mf)), s.rng))

\* GraphTraversalE.hasKey: edges carrying the key, paged (unlike the node
\* step).  An edge's only metadata key here is RelationType.
EHasKey(s) ==
    IF s.err THEN s ELSE Result(s, "E", Page(SelectSeq(s.elems, LAMBDA i : Edges[i].rel # Absent), s.rng))

\* GraphTraversalE.Has() without arguments is an error.
EHasNoParameter(s) == IF s.err THEN s ELSE Err("E")

InV(s, arg) ==
    LET mf == SliceToMetadata(arg)
    IN CASE s.err -> Err("V")
         [] mf = FilterError -> Err("V")
         [] OTHER -> Result(s, "V", Page(ConcatMap([j \in 1..Len(s.elems) |-> EdgeParent(s.elems[j], mf)]), s.rng))

OutV(s, arg) ==
    LET mf == SliceToMetadata(arg)
    IN CASE s.err -> Err("V")
         [] mf = FilterError -> Err("V")
         [] OTHER -> Result(s, "V", Page(ConcatMap([j \in 1..Len(s.elems) |-> EdgeChild(s.elems[j], mf)]), s.rng))

\* GraphTraversalE.Dedup: no pagination; an edge without the key falls back
\* to its ID.
EDedupKey(i, k) == IF k # NoKey /\ Edges[i].rel # Absent THEN <<"value", Edges[i].rel>> ELSE <<"id", i>>
EDedup(s, k) ==
    IF s.err THEN s
    ELSE LET Visit(acc, i) ==
                 IF \E j \in DOMAIN acc : EDedupKey(acc[j], k) = EDedupKey(i, k)
                 THEN acc ELSE Append(acc, i)
         IN Result(s, "E", SX!FoldLeft(Visit, << >>, s.elems))

(* Steps producing a GraphTraversalValue.                                  *)

\* PropertyValues(key): the key's value on every node that has it.
\* keys[0].(string) panics without an argument or with a non-string one;
\* the model passes keys only.
PropertyValues(s, k) ==
    IF s.err THEN Err("value")
    ELSE Result(s, "value", [j \in 1..Len(SelectSeq(s.elems, LAMBDA n : Meta[n][k] # Absent)) |->
                   Val(Meta[SelectSeq(s.elems, LAMBDA n : Meta[n][k] # Absent)[j]][k])])

\* The keys a node's metadata has.
KeysOf(n) == { k \in Keys : Meta[n][k] # Absent }

\* The key orders a range over each node's metadata map may yield: Go
\* randomises map iteration.  The model lets each node's keys come in any
\* order, one order per node and evaluation (a node repeated in the step
\* shows the same order each time, a subset of what Go may do).
KeyOrders(xs) ==
    { [j \in 1..Len(xs) |-> f[xs[j]]] :
        f \in { g \in [SX!ToSet(xs) -> UNION { SX!SetToSeqs(KeysOf(n)) : n \in SX!ToSet(xs) }] :
                \A n \in SX!ToSet(xs) : g[n] \in SX!SetToSeqs(KeysOf(n)) } }

\* PropertyKeys(): every key of every node, in the order order.
PropertyKeys(s, order) ==
    IF s.err THEN Err("value")
    ELSE Result(s, "value", [j \in 1..Len(SX!FlattenSeq(order)) |-> [key |-> SX!FlattenSeq(order)[j]]])

\* Sum(key): the sum of the key's integer values; a node whose value is not
\* an int64 is skipped.  Wrong argument counts and types are errors.
Sum(s, arg) ==
    CASE s.err -> Err("value")
      [] arg = NoFilter -> Err("value")
      [] arg \notin Keys -> Err("value")
      [] OTHER -> Result(s, "value",
                    << Val(SX!FoldLeft(LAMBDA acc, n : IF IsInt(Meta[n][arg]) THEN acc + Meta[n][arg] ELSE acc,
                                       0, s.elems)) >>)

\* The values in order, each kept at its first occurrence (the visited map).
ValueFirstOccurrences(xs) ==
    SX!FoldLeft(LAMBDA acc, x : IF x \in SX!ToSet(acc) THEN acc ELSE Append(acc, x), << >>, xs)

\* GraphTraversalValue.Dedup: keys are ignored and there is no pagination;
\* Values() of a single value is that value alone.
ValueDedup(s) == IF s.err THEN s ELSE Result(s, "value", ValueFirstOccurrences(s.elems))

(* ShortestPathTo and the store's LookupShortestPath.                      *)

\* The sequence with every later duplicate removed, in input order.
FirstOccurrences(xs) ==
    SX!FoldLeft(LAMBDA acc, x : IF x \in SX!ToSet(acc) THEN acc ELSE Append(acc, x), << >>, xs)


\* The neighbours of n over edges matching ef, both directions, in the
\* insertion order of the edges.
SPMatchEdge(i, ef) == ef = NoFilter \/ (Edges[i].rel # Absent /\ Edges[i].rel \in ef.accept)
Neighbours(n, ef) ==
    LET es == SelectSeq([i \in EdgeIds |-> i],
                        LAMBDA i : (Edges[i].parent = n \/ Edges[i].child = n) /\ SPMatchEdge(i, ef))
    IN [j \in 1..Len(es) |-> IF Edges[es[j]].parent = n THEN Edges[es[j]].child ELSE Edges[es[j]].parent]

IsTarget(n, tf) == Meta[n][tf.key] # Absent /\ Meta[n][tf.key] \in tf.accept

\* Breadth-first search over a queue of paths; a node is marked visited
\* when it is queued.  The first dequeued path ending at a target wins.
RECURSIVE BFS(_, _, _, _)
BFS(queue, visited, tf, ef) ==
    IF queue = << >> THEN << >>
    ELSE LET p == Head(queue)
             v == p[Len(p)]
             fresh == SelectSeq(Neighbours(v, ef), LAMBDA u : u \notin visited)
             new == FirstOccurrences(fresh)
         IN IF IsTarget(v, tf) THEN p
            ELSE BFS(Tail(queue) \o [j \in 1..Len(new) |-> Append(p, new[j])],
                     visited \cup SX!ToSet(new), tf, ef)

\* Graph.LookupShortestPath (spec 4.A): source to target inclusive, empty
\* when no target is reachable.
LookupShortestPath(n, tf, ef) == BFS(<< <<n>> >>, {n}, tf, ef)

\* ShortestPathTo: one path per source that reaches a target, in source
\* order.  The visited map is never written, so a repeated source gets its
\* path again.
ShortestPathTo(s, tf, ef) ==
    IF s.err THEN Err("paths")
    ELSE LET ps == [j \in 1..Len(s.elems) |-> LookupShortestPath(s.elems[j], tf, ef)]
         IN Result(s, "paths", SelectSeq(ps, LAMBDA p : Len(p) > 0))

-----------------------------------------------------------------------------
(* A query under evaluation.  ctx is the pagination range the query was    *)
(* issued with; paged is its evaluation under ctx, full the evaluation of  *)
(* the same steps without a range; lastCall the step just applied.         *)

VARIABLES ctx, paged, full, lastCall, steps, panicked

vars == <<ctx, paged, full, lastCall, steps, panicked>>

NoCall == [op |-> "none", arg |-> NoFilter]

Init ==
    /\ ctx \in PageRanges
    /\ paged = [kind |-> "graph", elems |-> << >>, err |-> FALSE, rng |-> ctx]
    /\ full  = [kind |-> "graph", elems |-> << >>, err |-> FALSE, rng |-> NoRange]
    /\ lastCall = NoCall
    /\ steps = 0
    /\ panicked = FALSE

\* Calling method op with argument arg on the current step of kind kind:
\* nextPaged and nextFull are the step's results in the two evaluations.
Call(kind, op, arg, nextPaged, nextFull) ==
    /\ steps < MaxSteps
    /\ ~panicked
    /\ paged.kind = kind
    /\ paged' = nextPaged
    /\ full' = nextFull
    /\ lastCall' = [op |-> op, arg |-> arg]
    /\ steps' = steps + 1
    /\ UNCHANGED <<ctx, panicked>>

\* Graph.WithContext (outside src/) may reject a time slice: ok is its outcome.
CallContext == \E future, ok \in BOOLEAN :
    Call("graph", "Context", NoFilter, ContextStep(paged, future, ok), ContextStep(full, future, ok))
CallV == Call("graph", "V", NoFilter, V(paged), V(full))
CallVById == \E id \in NodeIds : Call("graph", "V", id, VById(paged, id), VById(full, id))
CallVByMetadata == \E arg \in NodeFilters \ {NoFilter} :
    Call("graph", "V", arg, VByMetadata(paged, arg), VByMetadata(full, arg))
CallHasNoParameter == Call("V", "Has", NoFilter, HasNoParameter(paged), HasNoParameter(full))
CallHasKey == \E k \in Keys : Call("V", "HasKey", k, HasKey(paged, k), HasKey(full, k))
CallHas == \E arg \in HasArgs : Call("V", "Has", arg, Has(paged, arg), Has(full, arg))
CallOut == \E arg \in NodeFilters : Call("V", "Out", arg, Out(paged, arg), Out(full, arg))
CallIn == \E arg \in NodeFilters : Call("V", "In", arg, In(paged, arg), In(full, arg))
CallBoth == \E arg \in NodeFilters : Call("V", "Both", arg, Both(paged, arg), Both(full, arg))
CallOutE == \E arg \in EdgeFilters : Call("V", "OutE", arg, OutE(paged, arg), OutE(full, arg))
CallInE == \E arg \in EdgeFilters : Call("V", "InE", arg, InE(paged, arg), InE(full, arg))
CallDedup == \E k \in Keys \cup {NoKey} : Call("V", "Dedup", k, Dedup(paged, k), Dedup(full, k))
CallCount == \E kind \in {"V", "E"} : Call(kind, "Count", NoFilter, Count(paged), Count(full))
CallLimit == \E kind \in {"V", "E"}, n \in RangeArgs :
    Call(kind, "Limit", n, Limit(paged, n), Limit(full, n))
CallEHas == \E arg \in EdgeFilters \ {NoFilter} : Call("E", "Has", arg, EHas(paged, arg), EHas(full, arg))
CallEHasKey == Call("E", "HasKey", "RelationType", EHasKey(paged), EHasKey(full))
CallEHasNoParameter == Call("E", "Has", NoFilter, EHasNoParameter(paged), EHasNoParameter(full))
CallInV == \E arg \in NodeFilters : Call("E", "InV", arg, InV(paged, arg), InV(full, arg))
CallOutV == \E arg \in NodeFilters : Call("E", "OutV", arg, OutV(paged, arg), OutV(full, arg))
CallEDedup == \E k \in {NoKey, "RelationType"} : Call("E", "Dedup", k, EDedup(paged, k), EDedup(full, k))
CallPropertyValues == \E k \in Keys :
    Call("V", "PropertyValues", k, PropertyValues(paged, k), PropertyValues(full, k))
\* Each evaluation iterates the metadata maps in an order of its own.
CallPropertyKeys ==
    paged.kind = "V" /\ \E op \in KeyOrders(paged.elems), of \in KeyOrders(full.elems) :
    Call("V", "PropertyKeys", NoFilter, PropertyKeys(paged, op), PropertyKeys(full, of))
CallSum == \E arg \in SumArgs : Call("V", "Sum", arg, Sum(paged, arg), Sum(full, arg))
CallValueDedup == Call("value", "Dedup", NoKey, ValueDedup(paged), ValueDedup(full))
CallShortestPathTo == \E tf \in SPTargets, ef \in SPEdgeFilters :
    Call("V", "ShortestPathTo", <<tf, ef>>, ShortestPathTo(paged, tf, ef), ShortestPathTo(full, tf, ef))

\* Range on nodes or edges; a negative from on a non-empty step panics in
\* either evaluation, which ends the query.
CallRange == \E kind \in {"V", "E"}, from, to \in RangeArgs :
    /\ steps < MaxSteps
    /\ ~panicked
    /\ paged.kind = kind
    /\ paged' = Range(paged, from, to)
    /\ full' = Range(full, from, to)
    /\ lastCall' = [op |-> "Range", arg |-> <<from, to>>]
    /\ steps' = steps + 1
    /\ panicked' = (RangePanics(paged, from, to) \/ RangePanics(full, from, to))
    /\ UNCHANGED ctx

Next ==
    \/ CallContext \/ CallV \/ CallVById \/ CallVByMetadata
    \/ CallHasNoParameter \/ CallHasKey \/ CallHas
    \/ CallOut \/ CallIn \/ CallBoth \/ CallOutE \/ CallInE
    \/ CallDedup \/ CallCount \/ CallLimit \/ CallRange
    \/ CallEHas \/ CallEHasKey \/ CallEHasNoParameter \/ CallInV \/ CallOutV \/ CallEDedup
    \/ CallPropertyValues \/ CallPropertyKeys \/ CallSum \/ CallValueDedup
    \/ CallShortestPathTo

Spec == Init /\ [][Next]_vars

-----------------------------------------------------------------------------
(* Properties.                                                             *)

ElemsOf(kind) ==
    CASE kind = "V" -> Seq(NodeIds)
      [] kind = "E" -> Seq(EdgeIds)
      [] kind = "value" -> Seq([val : Domain \cup Int] \cup [key : Keys])
      [] kind = "paths" -> Seq(Seq(NodeIds))
      [] kind = "graph" -> {<< >>}

StepOK(s) ==
    /\ s.kind \in Kinds
    /\ s.elems \in ElemsOf(s.kind)
    /\ s.err \in BOOLEAN
    /\ s.rng \in PageRanges \cup {NoRange}

TypeOK ==
    /\ ctx \in PageRanges
    /\ StepOK(paged) /\ StepOK(full)
    /\ paged.kind = full.kind
    /\ steps \in 0..MaxSteps
    /\ panicked \in BOOLEAN

FirstN(xs, n) == SubSeq(xs, 1, IF n < Len(xs) THEN n ELSE Len(xs))

\* Pagination law (spec section 8, law 3): a query issued with the range
\* [0, n) fails exactly when the query without a range fails, and otherwise
\* yields a prefix, in the same order, of the unpaged node or edge sequence.
\* It is about every producing step threading PaginationRange through its
\* iterator.
PaginationLaw ==
    (ctx # NoRange /\ ctx[1] = 0 /\ paged.kind \in {"V", "E"})
        => /\ paged.err = full.err
           /\ SX!IsPrefix(paged.elems, full.elems)

\* Spec section 4.B: a query issued with the range [0, n) yields the first n
\* elements of the unpaged query (V().Has(...) yields the first n matching
\* nodes).  V pages before Has filters, and In and OutE do not page.
PageIsFirstN ==
    (ctx # NoRange /\ ctx[1] = 0 /\ paged.kind \in {"V", "E"} /\ ~full.err)
        => paged.elems = FirstN(full.elems, ctx[2])

\* Errors are sticky (spec 4.B): once a step of the query has failed, every
\* later step returns the error, whatever method is called on it.
ErrorSticky ==
    [][ /\ paged.err => paged'.err
        /\ full.err => full'.err ]_vars

\* Spec 4.B's predicate of a parameter list k1, m1, k2, m2, ...: an error
\* when the list is odd, a key is not a string or a matcher is ill-typed;
\* otherwise the nodes whose value for each key its matcher accepts (a key
\* given twice must satisfy both).
SpecMatch(p) ==
    LET pairs == 1..(Len(p) \div 2)
        f(i) == SpecFilter(p[2 * i])
    IN IF Len(p) % 2 # 0 \/ \E i \in pairs : p[2 * i - 1] \notin StringKeys \/ f(i).err
       THEN FilterError
       ELSE Filter({ n \in NodeIds : \A i \in pairs : NodeMatches(n, p[2 * i - 1], f(i).accept) })

\* Has(k1, m1, k2, m2, ...) keeps exactly the nodes whose value for every
\* key its matcher accepts under the predicate semantics of spec 4.B (a
\* key given twice must satisfy both), and fails exactly when the spec says
\* an argument is ill-typed or the parameter count is wrong.  It is about
\* the translation of matchers into filters in ParamToFilter and their
\* conjunction in ParamsToFilter.
HasFollowsSpec ==
    [][ (lastCall'.op = "Has" /\ lastCall'.arg # NoFilter /\ ~full.err /\ full'.kind = "V")
          => LET sm == SpecMatch(lastCall'.arg)
             IN IF sm.err THEN full'.err
                ELSE ~full'.err /\ full'.elems = SelectSeq(full.elems, LAMBDA n : n \in sm.accept) ]_vars

\* Spec 4.B's Dedup of nodes: the nodes that have key k (all of them without
\* a key), each kept only at its first node with the same value of k (the
\* same identity without a key), in input order.
SpecDedup(xs, k) ==
    LET key(n) == IF k = NoKey THEN n ELSE Meta[n][k]
        keyed == SelectSeq(xs, LAMBDA n : k = NoKey \/ Meta[n][k] # Absent)
    IN SX!FoldLeft(LAMBDA acc, n : IF \E j \in DOMAIN acc : key(acc[j]) = key(n)
                                   THEN acc ELSE Append(acc, n),
                   << >>, keyed)

\* Dedup() and Dedup(key) on nodes (spec 4.B) yield the page, under the
\* query's range, of SpecDedup of their input: a node missing the key is
\* dropped, not kept as distinct, and input order is kept.  It is about the
\* order of the visited check, the iterator and the visited update in the
\* Dedup loop, and its skip of nodes without the key.
DedupFollowsSpec ==
    [][ (lastCall'.op = "Dedup" /\ paged.kind = "V" /\ ~paged.err)
          => paged'.elems = Page(SpecDedup(paged.elems, lastCall'.arg), paged.rng) ]_vars
=============================================================================
