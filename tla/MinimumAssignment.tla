------------------------- MODULE MinimumAssignment -------------------------
(***************************************************************************)
(* The rectangular Hungarian assignment with which the trackpad driver     *)
(* follows fingers from one frame to the next                              *)
(* (apple-input/protocol/src/apple_trackpad_frame.c), and what it is meant *)
(* to compute.  Rows are never more than columns.  Column 0 is the         *)
(* algorithm's own: p[0] is the row being placed, and a column j with      *)
(* p[j] = 0 is free.                                                       *)
(***************************************************************************)
EXTENDS Integers, FiniteSets, FiniteSetsExt

\* AI_TRACKPAD_COST_MAX: above every cost of the instances.
CostMax == 1000

\* The column the scan settles on: of those not used yet the first with the
\* least reduced cost.
Cheapest(minv, columns) ==
    Min({j \in columns : \A k \in columns : minv[j] <= minv[k]})

\* One round of the search for an augmenting path: use column j0, relax the
\* others through its row, shift the potentials, move to the cheapest column.
Relax(s, cost, columns) ==
    LET used == s.used \cup {s.j0}
        free == columns \ used
        row == s.p[s.j0]
        reduced(j) == cost[row][j] - s.u[row] - s.v[j]
        nearer == {j \in free : reduced(j) < s.minv[j]}
        minv == [j \in DOMAIN s.minv |-> IF j \in nearer THEN reduced(j) ELSE s.minv[j]]
        j1 == Cheapest(minv, free)
        delta == minv[j1]
        rows == {s.p[j] : j \in used}
    IN  [s EXCEPT !.used = used, !.j0 = j1,
                  !.way = [j \in DOMAIN @ |-> IF j \in nearer THEN s.j0 ELSE @[j]],
                  !.u = [i \in DOMAIN @ |-> IF i \in rows THEN @[i] + delta ELSE @[i]],
                  !.v = [j \in DOMAIN @ |-> IF j \in used THEN @[j] - delta ELSE @[j]],
                  !.minv = [j \in DOMAIN @ |-> IF j \in used THEN minv[j]
                                                              ELSE minv[j] - delta]]

\* Rounds until the path ends in a free column.
RECURSIVE Search(_, _, _)
Search(s, cost, columns) ==
    LET next == Relax(s, cost, columns)
    IN  IF next.p[next.j0] = 0 THEN next ELSE Search(next, cost, columns)

\* Shift the rows along the path back to column 0.
RECURSIVE Flip(_)
Flip(s) ==
    IF s.j0 = 0 THEN s
    ELSE Flip([s EXCEPT !.p[s.j0] = s.p[s.way[s.j0]], !.j0 = s.way[s.j0]])

\* Place row i.
Place(s, i, cost, columns) ==
    Flip(Search([s EXCEPT !.p[0] = i, !.j0 = 0, !.used = {},
                          !.minv = [j \in DOMAIN @ |-> CostMax]], cost, columns))

\* Place rows i .. rows.
RECURSIVE PlaceFrom(_, _, _, _, _)
PlaceFrom(s, i, rows, cost, columns) ==
    IF i > rows THEN s
    ELSE PlaceFrom(Place(s, i, cost, columns), i + 1, rows, cost, columns)

\* The row of each column (0 for none) for a cost matrix of rows x columns.
minimum_assignment(cost, rows, columns) ==
    LET cols == 0 .. columns
        start == [u |-> [i \in 0 .. rows |-> 0], v |-> [j \in cols |-> 0],
                  p |-> [j \in cols |-> 0], way |-> [j \in cols |-> 0],
                  minv |-> [j \in cols |-> CostMax], used |-> {}, j0 |-> 0]
    IN  [j \in 1 .. columns |-> PlaceFrom(start, 1, rows, cost, 1 .. columns).p[j]]

-----------------------------------------------------------------------------
\* What it is for: every way to give each row a column of its own.
Injections(rows, columns) ==
    {f \in [1 .. rows -> 1 .. columns] :
        \A i, k \in 1 .. rows : i # k => f[i] # f[k]}

\* The cost of one of them.
TotalCost(f, cost) == MapThenSumSet(LAMBDA i : cost[i][f[i]], DOMAIN f)

\* The assignment gives each row exactly one column, as cheaply as possible.
IsMinimum(p, cost, rows, columns) ==
    /\ \A i \in 1 .. rows : Cardinality({j \in 1 .. columns : p[j] = i}) = 1
    /\ LET chosen == [i \in 1 .. rows |-> CHOOSE j \in 1 .. columns : p[j] = i]
       IN  \A f \in Injections(rows, columns) :
             TotalCost(chosen, cost) <= TotalCost(f, cost)
=============================================================================
