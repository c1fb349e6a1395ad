----------------------------- MODULE TimedPathSet -----------------------------
(***************************************************************************)
(* TimedPathSet (timed/router/timed_path_set.hh, .cc): the paths a router  *)
(* collects while it searches.  They are kept in an array that is a binary *)
(* heap with the cheapest path in front; an array that has grown past the  *)
(* maximum is cut at its end.  "cutoffValue" is the value of the last      *)
(* element of the array, which is some leaf of the heap.                   *)
(***************************************************************************)
EXTENDS Integers, Sequences

CONSTANT Inf     (* the value of inf, also that of an optional without one  *)

VARIABLES
  allPaths,      (* every path that was ever offered                        *)
  valuedPaths    (* the array: records of a path and its value              *)

pathSetVars == <<allPaths, valuedPaths>>

PathSetInit == allPaths = {} /\ valuedPaths = <<>>

cutoffValue == IF valuedPaths = <<>> THEN Inf ELSE valuedPaths[Len(valuedPaths)].value

bestValue == IF valuedPaths = <<>> THEN Inf ELSE valuedPaths[1].value

HeapOrdered(s) == \A i \in 2 .. Len(s) : s[i \div 2].value <= s[i].value

\* The arrays push_heap may leave: s and x, rearranged into a heap.
Pushed(s, x) ==
  LET t  == Append(s, x)
      at == 1 .. Len(t)
  IN  {r \in {[i \in at |-> t[p[i]]] : p \in {q \in [at -> at] : \A i, j \in at : q[i] = q[j] => i = j}} :
         HeapOrdered(r)}

\* a faulty variant of Insert: the path is appended, the heap is not restored
InsertUnordered(path, value, maxSize) ==
  \/ path \in allPaths /\ UNCHANGED pathSetVars
  \/ /\ path \notin allPaths
     /\ allPaths' = allPaths \cup {path}
     /\ valuedPaths' = SubSeq(Append(valuedPaths, [path |-> path, value |-> value]), 1,
                              IF Len(valuedPaths) < maxSize THEN Len(valuedPaths) + 1 ELSE maxSize)

\* insert(): nothing of a path seen before, nor of one that is not cheaper than
\* the last element; else push and cut.
Insert(path, value, maxSize) ==
  \/ path \in allPaths /\ UNCHANGED pathSetVars
  \/ /\ path \notin allPaths
     /\ allPaths' = allPaths \cup {path}
     /\ \/ value >= cutoffValue /\ UNCHANGED valuedPaths
        \/ /\ value < cutoffValue
           /\ \E r \in Pushed(valuedPaths, [path |-> path, value |-> value]) :
                valuedPaths' = SubSeq(r, 1, IF Len(r) < maxSize THEN Len(r) ELSE maxSize)

\* insertLabel of the routers: a value that cannot be kept builds no path.
Offer(path, value, maxSize) ==
  \/ value < cutoffValue /\ Insert(path, value, maxSize)
  \/ value >= cutoffValue /\ UNCHANGED pathSetVars
=============================================================================
