---------------------------- MODULE AbilityClusters ----------------------------
(***************************************************************************)
(* The map of a student's abilities.  AbilityHacClusteringService puts     *)
(* abilities together whose labels are alike: the most similar two         *)
(* clusters first, till no two are as similar as a threshold.              *)
(* AbilityDynamicAnchorRegistryService would make a new anchor of a        *)
(* cluster of three or more in which none is known; there is none.         *)
(*                                                                         *)
(* A label is what AbilityFeatureVectorizer sees in it, its anchors and    *)
(* its words; the pairs of letters, of weight 0.35, go with the words.     *)
(***************************************************************************)
EXTENDS Integers, Sequences, FiniteSets, FiniteSetsExt, SequencesExt

CONSTANTS
  Labels,         \* records of anchors and words, both sets
  MergeThreshold, \* of an average similarity
  MaxAbilities    \* bound

VARIABLE abilities  \* the labels in the order of their scores

\* Similarities are in units of 1 / Unit.
Unit == 10000

Jaccard(a, b) ==
  IF a \cup b = {} THEN 0 ELSE (Unit * Cardinality(a \cap b)) \div Cardinality(a \cup b)

\* Squares of the weights: a word 1 + 0.35 ^ 2, an anchor 2.4 ^ 2, in hundredths.
Dot(l, m) ==
  112 * Cardinality(l.words \cap m.words) + 576 * Cardinality(l.anchors \cap m.anchors)

\* The integer square root, digit by digit.
Root(n) ==
  FoldLeft(LAMBDA r, digit : IF (r + digit) * (r + digit) <= n THEN r + digit ELSE r,
           0, <<1024, 512, 256, 128, 64, 32, 16, 8, 4, 2, 1>>)

Cosine(l, m) == (Unit * Dot(l, m)) \div Root(Dot(l, l) * Dot(m, m))

\* Plausible bug: two labels without anchors are as alike as two of the same.
EmptyIsSame(a, b) == IF a = b THEN Unit ELSE Jaccard(a, b)

AnchorScore(a, b) ==
  CASE a = {} /\ b = {} -> 0
    [] (a = {}) # (b = {}) -> (15 * Unit) \div 100
    [] OTHER -> Jaccard(a, b)

Similarity(l, m) ==
  LET score == (55 * AnchorScore(l.anchors, m.anchors)
                + 20 * Jaccard(l.words, m.words) + 25 * Cosine(l, m)) \div 100
      apart == l.anchors # {} /\ m.anchors # {} /\ l.anchors \cap m.anchors = {}
  IN  IF apart THEN Min({score, (28 * Unit) \div 100}) ELSE score

SimilarityOf == [l, m \in Labels |-> Similarity(l, m)]

Alike(of, i, j) == SimilarityOf[of[i], of[j]]

\* Plausible bug: the most similar two members speak for their clusters.
SingleLinkage(of, n, m) == Max({Alike(of, p[1], p[2]) : p \in n \X m})

AverageLinkage(of, n, m) ==
  MapThenSumSet(LAMBDA p : Alike(of, p[1], p[2]), n \X m) \div (Cardinality(n) * Cardinality(m))

\* The first of the most similar pairs.
BestCandidate(of, nodes) ==
  LET places == 1 .. Len(nodes)
      all == {[left |-> p[1], right |-> p[2],
               similarity |-> AverageLinkage(of, nodes[p[1]], nodes[p[2]])] :
                p \in {q \in places \X places : q[1] < q[2]}}
      best == {c \in all : \A d \in all : d.similarity <= c.similarity}
  IN  CHOOSE c \in best :
        \A d \in best : c.left < d.left \/ (c.left = d.left /\ c.right <= d.right)

Merged(of, nodes) ==
  IF Len(nodes) < 2 THEN nodes
  ELSE LET c == BestCandidate(of, nodes)
       IN  IF c.similarity < MergeThreshold THEN nodes
           ELSE Append(RemoveAt(RemoveAt(nodes, c.right), c.left), nodes[c.left] \cup nodes[c.right])

\* A cluster is a set of places in the list.
ClustersOf(of) ==
  LET places == [i \in 1 .. Len(of) |-> i]
  IN  ToSet(FoldLeft(LAMBDA nodes, i : Merged(of, nodes), [i \in DOMAIN places |-> {i}], places))

SharedAnchors(of, node) == UNION {of[i].anchors : i \in node}

InternalSimilarity(of, node) ==
  LET pairs == {p \in node \X node : p[1] < p[2]}
  IN  IF pairs = {} THEN Unit
      ELSE MapThenSumSet(LAMBDA p : Alike(of, p[1], p[2]), pairs) \div Cardinality(pairs)

-----------------------------------------------------------------------------
ClustersInit == abilities = <<>>

Exchanged(of, i) == [of EXCEPT ![i] = of[i + 1], ![i + 1] = of[i]]

\* Scores come and change: an ability is new, or changes places with the next.
Rescored ==
  \/ /\ Len(abilities) < MaxAbilities
     /\ \E l \in Labels : abilities' = Append(abilities, l)
  \/ \E i \in 1 .. Len(abilities) - 1 : abilities' = Exchanged(abilities, i)
-----------------------------------------------------------------------------
\* The variable has its type.
ClustersTypeOK == abilities \in Seq(Labels) /\ Len(abilities) <= MaxAbilities

\* The anchors of its members lead from each of them to every other.
Linked(of, node) ==
  \A part \in (SUBSET node) \ {{}, node} :
    SharedAnchors(of, part) \cap SharedAnchors(of, node \ part) # {}

\* An ability without an anchor stays alone, and so no cluster becomes a new one;
\* abilities of the same anchors are together; others are only where anchors lead
\* from one to the other and the whole cluster is as alike as is asked of two.
MapIsSound ==
  LET clusters == ClustersOf(abilities)
      of == abilities
  IN  /\ \A node \in clusters :
           /\ SharedAnchors(of, node) = {} => Cardinality(node) = 1
           /\ Linked(of, node)
           /\ InternalSimilarity(of, node) >= MergeThreshold
      /\ \A i, j \in DOMAIN of :
           of[i].anchors = of[j].anchors /\ of[i].anchors # {} =>
             \E node \in clusters : {i, j} \subseteq node
=============================================================================
