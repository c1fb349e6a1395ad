------------------- MODULE AcyclicHoleFreeTimeExpandedRouter -------------------
(***************************************************************************)
(* AcyclicHoleFreeTimeExpandedRouter<size>                                 *)
(* (acyclic_hole_free_time_expanded_router.hh, with hole_set.hh): as the   *)
(* acyclic router, but a label whose every way on is also open to one of   *)
(* the cheaper labels of its vertex is not extended.                       *)
(*                                                                         *)
(* The next `size` vertices of a path are its extension.  A set form says  *)
(* of some positions which vertex is there; here it is a set of pairs of a *)
(* position and a vertex.  A hole set is a set of forms: the extensions of *)
(* one of them.                                                            *)
(***************************************************************************)
EXTENDS AcyclicTimeExpandedRouter, FiniteSetsExt

\* SetForm::operator<=: what form f describes, g describes too.
LessForm(f, g) == g \subseteq f

\* operator<= of a form and a hole set
Covered(f, set) == \E g \in set : LessForm(f, g)

\* a faulty variant of fromPrefix: the bound on the positions is off by one
fromPrefixShort(prefix) ==
  UNION {{{<<j, prefix[i]>>} : j \in 0 .. Size - Len(prefix) + i - 2} : i \in 1 .. Len(prefix)}

\* HoleSet::fromPrefix: the extensions a prefix does not allow.  Its i-th vertex
\* from the left may not come within the next positions up to i; a path shorter
\* than the prefix is aligned to the right.
fromPrefix(prefix) ==
  UNION {{{<<j, prefix[i]>>} : j \in 0 .. Size - Len(prefix) + i - 1} : i \in 1 .. Len(prefix)}

\* SetForm::intersect has no result for two vertices at a position, or a vertex
\* at two.
Consistent(f) == \A x, y \in f : x[1] = y[1] <=> x[2] = y[2]

\* HoleSet::intersect: the forms of one below a form of the other, the
\* consistent unions of the rest, and of those the greatest.
intersect(forms, others) ==
  LET below   == {f \in forms : Covered(f, others)} \cup {g \in others : Covered(g, forms)}
      unions  == {f \cup g : f \in forms \ below, g \in others \ below}
      results == below \cup {f \in unions : Consistent(f)}
  IN  {f \in results : ~ \E g \in results : f # g /\ LessForm(f, g)}

\* The labels that may dominate l.
Rivals(l) == {m \in labels[at] : m # l /\ m.cost <= l.cost}

\* Whether no extension is left that all rivals forbid and l allows.  In which
\* order the rivals are asked makes no difference.
isDominated(l) ==
  LET current == fromPrefix(l.prefix)
      Reduced(forms) == {f \in forms : ~ Covered(f, current)}
      Step(m, running) == Reduced(intersect(running, fromPrefix(m.prefix)))
  IN  Rivals(l) # {} /\ FoldSet(Step, {{}}, Rivals(l)) = {}

\* The path is offered with its bound before dominance is looked at.
ExpandUndominated(l) ==
  /\ ~ IsEnd(at)
  /\ Take(l)
  /\ ~ Hopeless(l)
  /\ OfferExtended(l)
  /\ labels' = IF isDominated(l) THEN labels ELSE Relaxed(l)

\* A request is to this router or to the acyclic one (holeFree).
HoleFreeSearch ==
  /\ \/ LowerBounds
     \/ \E v \in TimedVertices : Arrive(v)
     \/ \E l \in open : Close(l) \/ Discard(l)
     \/ request.holeFree /\ \E l \in open : ExpandUndominated(l)
     \/ ~ request.holeFree /\ \E l \in open : Expand(l)
     \/ Finish
  /\ UNCHANGED <<arguments, rivalVars>>

-----------------------------------------------------------------------------
\* No two labels of a timed vertex cost the same.
NoTies ==
  \A v \in TimedVertices : \A l, m \in labels[v] : l.cost = m.cost => l = m

\* Nobody beats the best path of the acyclic router, and that of this one when no
\* labels tie: what is dominated need not be extended.
RivalBeatenUnlessTied == (request.holeFree => NoTies) => RivalBeaten

\* The meaning of isDominated: every extension by vertices that l allows is
\* allowed by a rival of l.
DominanceIsSound ==
  \A l \in open :
    LET allowed(m) == {x \in [1 .. Size -> {v.vertex : v \in TimedVertices}] :
                         \A i \in 1 .. Size :
                           ~ contains(LastOf(m.prefix \o SubSeq(x, 1, i - 1), Size), x[i])}
    IN  isDominated(l) => allowed(l) \subseteq UNION {allowed(m) : m \in Rivals(l)}
=============================================================================
