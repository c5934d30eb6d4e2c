------------------------------ MODULE EmitSkip ------------------------------
(***************************************************************************)
(* The skip list of emitted components, ordered by origin: which spans     *)
(* [origin, end) contain a window?  Spans may overlap, so ends are not in  *)
(* order; every node keeps, per level, the largest end of the nodes up to  *)
(* its next one on that level, and a query skips whole segments by it.     *)
(* Node 1 is the head, level 1 the full list; 0 stands for "no node".      *)
(***************************************************************************)
EXTENDS Naturals, Sequences, SequencesExt, FiniteSetsExt

NoSkip == [nodes |-> <<>>, top |-> 1]

Head0 == [ci |-> 0, origin |-> 0, end |-> 0, fwd |-> <<0>>, maxEnd |-> <<0>>]

Pad(seq, n) == [i \in 1 .. n |-> IF i <= Len(seq) THEN seq[i] ELSE 0]

(* The head gets as many levels as the tallest node.                       *)
Raised(s, lvl) ==
  LET n == IF s.nodes = <<>> THEN <<Head0>> ELSE s.nodes
  IN  IF lvl <= s.top THEN [s EXCEPT !.nodes = n]
      ELSE [top |-> lvl,
            nodes |-> [n EXCEPT ![1].fwd = Pad(@, lvl), ![1].maxEnd = Pad(@, lvl)]]

(* From node x along level l: the last node before one that starts behind  *)
(* o, and the nodes up to, without, `stop`.                                *)
RECURSIVE Along(_, _, _, _), Segment(_, _, _, _)
Along(n, x, l, o) ==
  LET nx == n[x].fwd[l]
  IN  IF nx = 0 \/ n[nx].origin > o THEN x ELSE Along(n, nx, l, o)
Segment(n, x, l, stop) ==
  IF x \in {0, stop} THEN {} ELSE {x} \cup Segment(n, n[x].fwd[l], l, stop)

(* The nodes a new one follows, per level.                                 *)
RECURSIVE Before(_, _, _)
Before(s, l, o) ==
  Along(s.nodes, IF l = s.top THEN 1 ELSE Before(s, l + 1, o), l, o)

MaxEnd(n, x, l, stop) ==
  IF l = 1 THEN n[x].end
  ELSE Max({n[y].maxEnd[l - 1] : y \in Segment(n, x, l - 1, stop)})

LinkKeptEnd(n, idx, prev, l) ==
  LET old == n[prev].fwd[l]
      n1  == [n EXCEPT ![idx].fwd[l] = old, ![prev].fwd[l] = idx]
  IN  [n1 EXCEPT ![idx].maxEnd[l] = n[idx].end]

(* Node idx takes its place behind prev on level l; the segment of prev is *)
(* cut in two.                                                             *)
Link(n, idx, prev, l) ==
  LET old == n[prev].fwd[l]
      n1  == [n EXCEPT ![idx].fwd[l] = old, ![prev].fwd[l] = idx]
      n2  == [n1 EXCEPT ![idx].maxEnd[l] = MaxEnd(n1, idx, l, old)]
  IN  [n2 EXCEPT ![prev].maxEnd[l] = MaxEnd(n2, prev, l, idx)]

insert(s, ci, origin, end, lvl) ==
  LET r    == Raised(s, lvl)
      idx  == Len(r.nodes) + 1
      prev == [l \in 1 .. r.top |-> Before(r, l, origin)]
      new  == [ci |-> ci, origin |-> origin, end |-> end,
               fwd |-> Pad(<<>>, lvl), maxEnd |-> Pad(<<>>, lvl)]
      n1   == FoldLeft(LAMBDA n, l : Link(n, idx, prev[l], l),
                       Append(r.nodes, new), [l \in 1 .. lvl |-> l])
      n2   == FoldLeft(LAMBDA n, l :
                         [n EXCEPT ![prev[l]].maxEnd[l] = Max({@, end})],
                       n1, [l \in 1 .. r.top - lvl |-> lvl + l])
  IN  [r EXCEPT !.nodes = n2]

(* The nodes of the segment of x on level l that end at send or behind it. *)
RECURSIVE segReport(_, _, _, _)
segReport(n, x, l, send) ==
  IF l = 1 THEN IF n[x].end >= send THEN {n[x].ci} ELSE {}
  ELSE IF n[x].maxEnd[l] < send THEN {}
  ELSE UNION {segReport(n, y, l - 1, send) : y \in Segment(n, x, l - 1, n[x].fwd[l])}

(* The highest level on which the whole segment of x starts at p or before *)
(* it, level 1 if there is none.                                           *)
Jump(n, x, p) ==
  Max({1} \cup {l \in 2 .. Len(n[x].fwd) :
                  n[x].fwd[l] # 0 /\ n[n[x].fwd[l]].origin <= p})

RECURSIVE Report(_, _, _, _)
Report(n, x, p, send) ==
  LET l == Jump(n, x, p)
      nx == n[x].fwd[l]
  IN  segReport(n, x, l, send) \cup
      (IF nx = 0 \/ n[nx].origin > p THEN {} ELSE Report(n, nx, p, send))

(* The emitted components with a span around the window [p, send).         *)
emitQuery(s, p, send) ==
  IF Len(s.nodes) <= 1 THEN {}
  ELSE LET x == s.nodes[1].fwd[1]
       IN  IF s.nodes[x].origin > p THEN {} ELSE Report(s.nodes, x, p, send)
=============================================================================
