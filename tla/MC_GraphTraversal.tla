------------------------- MODULE MC_GraphTraversal -------------------------
(* A four-node graph for GraphTraversal: n4 is not in the graph (V(id) of  *)
(* a missing node), n2 has no Port, and the edges n2->n3 and n3->n2 form a *)
(* cycle so that Both and Out produce duplicates for Dedup.  Name holds   *)
(* strings (s1, s2) for the string and Regex matchers.                     *)
EXTENDS GraphTraversal

CONSTANTS n1, n2, n3, n4, s1, s2, i0

Order == <<n1, n2, n3>>

Metadata ==
    [n \in {n1, n2, n3, n4} |->
        CASE n = n1 -> [Type |-> 0, Port |-> 1, Name |-> s1]
          [] n = n2 -> [Type |-> 1, Port |-> Absent, Name |-> s2]
          [] n = n3 -> [Type |-> 1, Port |-> 2, Name |-> Absent]
          [] n = n4 -> [Type |-> 0, Port |-> 0, Name |-> s1]]

EdgeList ==
    << [parent |-> n1, child |-> n2, rel |-> 0],
       [parent |-> n1, child |-> n3, rel |-> 0],
       [parent |-> n2, child |-> n3, rel |-> 1],
       [parent |-> n3, child |-> n2, rel |-> Absent] >>

M(op, args) == Matcher(op, args)

\* The matchers whose translation agrees with the spec, with boundary
\* arguments and ill-typed ones.
SoundMatchers ==
    { M("eq", <<1>>), M("eq", <<s1>>), M("ne", <<1>>), M("lt", <<1>>),
      M("gt", <<1>>), M("lte", <<1>>), M("gte", <<1>>), M("lt", <<s1>>),
      M("inside", <<0, 2>>), M("between", <<1, 2>>), M("within", <<0, 2>>) }
OutsideMatcher == { M("outside", <<1, 1>>) }
WithoutMatcher == { M("without", <<1>>) }
EqMatcher == { M("eq", <<1>>) }

PortArgs(ms) == { <<"Port", m>> : m \in ms }
\* String matchers on Name: a pattern matching s1 only, one matching both
\* strings (Regex on an integer key never matches), and Ne on a string.
NameArgs ==
    { <<"Name", M("regex", <<{s1}>>)>>, <<"Name", M("regex", <<{s1, s2}>>)>>,
      <<"Port", M("regex", <<{s1, s2}>>)>>, <<"Name", M("ne", <<s1>>)>> }
\* Has with two pairs (two keys; one key twice), an odd parameter list and
\* a key that is not a string (i0).
PairHasArgs ==
    { <<"Port", M("gte", <<1>>), "Type", M("eq", <<1>>)>>,
      <<"Port", M("gt", <<1>>), "Port", M("lte", <<2>>)>>,
      <<"Port", M("eq", <<1>>), "Type">>,
      <<i0, M("eq", <<1>>)>> }
SoundHasArgs == PortArgs(SoundMatchers) \cup PairHasArgs \cup NameArgs
\* The two matchers whose translation departs from the spec.
MismatchHasArgs == PortArgs(OutsideMatcher \cup WithoutMatcher)
TypeArg == { <<"Type", M("eq", <<1>>)>> }
ErrArg == { <<"Port", M("gt", <<s1>>)>> }
\* V(...) with two keys, a Regex, an odd list and a key that is not a
\* string (each key at most once: see README on a repeated key).
VArgs == { <<"Type", M("eq", <<1>>), "Port", M("gte", <<1>>)>>,
           <<"Name", M("regex", <<{s1, s2}>>)>>,
           <<"Type", M("eq", <<1>>), "Port">>,
           <<i0, M("eq", <<1>>)>> }

NodeArgs == {NoFilter} \cup TypeArg \cup ErrArg
VNodeArgs == NodeArgs \cup VArgs
EdgeArgs == { NoFilter, <<"RelationType", M("eq", <<0>>)>>,
              <<"RelationType", M("lte", <<1>>), "Type", M("eq", <<0>>)>> }

\* Sum with a key, with no argument and with a non-string argument (i0
\* stands for the integer 0: a set cannot mix strings and integers).
SumKeys == {"Port", NoFilter, i0}
\* ShortestPathTo towards the node with Port 2 (n3), Type 0 (n1) or Port 0
\* (only n4, which is not in the graph), over every edge or the
\* RelationType 0 edges only.
Targets == { [key |-> "Port", accept |-> {2}], [key |-> "Type", accept |-> {0}],
             [key |-> "Port", accept |-> {0}] }
SPEdges == { NoFilter, [key |-> "RelationType", accept |-> {0}] }

FromZero == {NoRange, <<0, 1>>, <<0, 3>>}
FromOne == {<<1, 3>>}
=============================================================================
