------------------------------ MODULE PrefixTree ------------------------------
(***************************************************************************)
(* PrefixTree.h: a tree with one node per byte of the strings inserted     *)
(* into it.  A node is named by the string that leads to it, so that a     *)
(* tree is a function from non-empty strings to [type, value] whose domain *)
(* is closed under prefixes, with the counter of its nodes.  The root is   *)
(* the empty string and carries nothing.  Every operation runs under lock_.*)
(***************************************************************************)
EXTENDS Integers, Sequences, FiniteSets, FiniteSetsExt

CONSTANT MaxDepth   \* max_depth_

ASSUME MaxDepthAssumption == MaxDepth \in Nat \ {0}

NodeTypes == {"inner", "prefix", "literal"}
NoValue == "none"

EmptyTree == [nodes |-> [s \in {} |-> [type |-> "inner", value |-> NoValue]], count |-> 0]

PrefixesOf(s) == {SubSeq(s, 1, k) : k \in 1..Len(s)}

\* node_count_ grows for a new node, and again when an inner node becomes the
\* end of a string; it is never less than the number of nodes.
NewCount(t, s) ==
    t.count + IF s \in DOMAIN t.nodes
              THEN IF t.nodes[s].type = "inner" THEN 1 ELSE 0
              ELSE Cardinality(PrefixesOf(s) \ DOMAIN t.nodes)

\* InsertLocked: the empty string is refused, and a string that needs a node
\* below max_depth_ leaves no trace.  The node of a known string is overwritten.
Inserts(t, s) == s # <<>> /\ (s \in DOMAIN t.nodes \/ Len(s) <= MaxDepth)
InsertLocked(t, s, value, type) ==
    IF ~Inserts(t, s) THEN t
    ELSE [count |-> NewCount(t, s),
          nodes |-> [n \in DOMAIN t.nodes \cup PrefixesOf(s) |->
                        IF n = s THEN [type |-> type, value |-> value]
                        ELSE IF n \in DOMAIN t.nodes THEN t.nodes[n]
                        ELSE [type |-> "inner", value |-> NoValue]]]

InsertPrefix(t, s, value) == InsertLocked(t, s, value, "prefix")
InsertLiteral(t, s, value) == InsertLocked(t, s, value, "literal")

\* The nodes a lookup passes that match the input.
Matching(t, s) == {n \in PrefixesOf(s) \cap DOMAIN t.nodes :
    t.nodes[n].type = "prefix" \/ (n = s /\ t.nodes[n].type = "literal")}

ContainsLocked(t, s) == Matching(t, s) # {}
HasPrefixLocked(t, s) == Matching(t, s) # {}

(* Mutant of LookupLongestMatchingPrefix: the first match of the walk is returned. *)
LookupFirst(t, s) ==
    IF ContainsLocked(t, s)
    THEN t.nodes[CHOOSE n \in Matching(t, s) :
                    \A m \in Matching(t, s) : Len(n) <= Len(m)].value
    ELSE NoValue

LookupLongestMatchingPrefix(t, s) ==
    IF ContainsLocked(t, s)
    THEN t.nodes[CHOOSE n \in Matching(t, s) :
                    \A m \in Matching(t, s) : Len(m) <= Len(n)].value
    ELSE NoValue

\* The stack PruneLocked allocates has room for every node below the root.
StackFits(t) == Cardinality(DOMAIN t.nodes) <= t.count
================================================================================
