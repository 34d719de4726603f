--------------------------- MODULE LpAlternatives ---------------------------
(***************************************************************************)
(* The linear program behind an optimization, and the alternatives it is   *)
(* answered with: HiGHS finds an optimum, and the corners of the feasible  *)
(* region are enumerated by solving every pair of constraints as           *)
(* equations, up to a number of pairs; the best ones are ranked after the  *)
(* optimum.  HiGHS itself is external: it may return any optimal corner.   *)
(*                                                                         *)
(* Programs have two variables, lower bounds of zero and small integer     *)
(* coefficients.  Floating point is exact rational arithmetic here: the    *)
(* tolerances of the code separate the corners of such programs.           *)
(***************************************************************************)
EXTENDS Integers, Sequences, FiniteSets, FiniteSetsExt

CONSTANTS
    Programs,           \* set of [c, A, b, upper, sense]; upper is <<>> for none
    TopK,               \* values of options.top_k_alternatives
    MaxCombinations     \* MAX_TOP_K_VERTEX_COMBINATIONS

VARIABLE solve          \* the last solve: [lp, k, status, x, alternatives]

NoSolve == [lp |-> <<>>, k |-> 0, status |-> "none", x |-> <<>>, alternatives |-> <<>>]

(***************************************************************************)
(* Points with rational coordinates <<n1/d, n2/d>>, in lowest terms.       *)
(***************************************************************************)
Point(n1, n2, d) ==
    LET sign == IF d < 0 THEN -1 ELSE 1
        common == Max({g \in 1..(sign * d) : n1 % g = 0 /\ n2 % g = 0 /\ d % g = 0})
        Part(n) == sign * (IF n < 0 THEN -((-n) \div common) ELSE n \div common)
    IN  [n |-> <<Part(n1), Part(n2)>>, d |-> (sign * d) \div common]

Dot(a, v) == a[1] * v[1] + a[2] * v[2]

_objective_value(lp, x) == Dot(lp.c, x.n)       \* over x.d

is_feasible_candidate(lp, x) ==
    /\ \A i \in 1..2 : x.n[i] >= 0 /\ (lp.upper # <<>> => x.n[i] <= lp.upper[i] * x.d)
    /\ \A r \in DOMAIN lp.A : Dot(lp.A[r], x.n) <= lp.b[r] * x.d

(* How much better y is than x, times both denominators. *)
Gain(lp, x, y) ==
    (IF lp.sense = "maximize" THEN 1 ELSE -1)
        * (_objective_value(lp, y) * x.d - _objective_value(lp, x) * y.d)

(* Better ones first, and equal ones by their coordinates. *)
sort_candidate_tuple(lp, x, y) ==
    \/ Gain(lp, y, x) > 0
    \/ /\ Gain(lp, y, x) = 0
       /\ \/ x.n[1] * y.d < y.n[1] * x.d
          \/ x.n[1] * y.d = y.n[1] * x.d /\ x.n[2] * y.d < y.n[2] * x.d

(***************************************************************************)
(* The enumeration.                                                        *)
(***************************************************************************)
Unit == <<<<1, 0>>, <<0, 1>>>>

(* Constraints, lower bounds and finite upper bounds, as equations. *)
active_rows(lp) ==
    [r \in DOMAIN lp.A |-> [a |-> lp.A[r], b |-> lp.b[r]]]
        \o [i \in 1..2 |-> [a |-> Unit[i], b |-> 0]]
        \o [i \in DOMAIN lp.upper |-> [a |-> Unit[i], b |-> lp.upper[i]]]

(* The pairs of 1..n that are tried: the first ones, in order. *)
Combinations(n) ==
    LET pairs == {p \in (1..n) \X (1..n) : p[1] < p[2]}
        Position(p) == Cardinality({q \in pairs : q[1] < p[1] \/ (q[1] = p[1] /\ q[2] <= p[2])})
    IN  {p \in pairs : Position(p) <= MaxCombinations}

(* Cramer's rule; parallel rows have no solution. *)
Intersections(rows, pairs) ==
    LET Det(r, s) == r.a[1] * s.a[2] - r.a[2] * s.a[1]
    IN  {Point(rows[p[1]].b * rows[p[2]].a[2] - rows[p[2]].b * rows[p[1]].a[2],
               rows[p[1]].a[1] * rows[p[2]].b - rows[p[2]].a[1] * rows[p[1]].b,
               Det(rows[p[1]], rows[p[2]])) :
           p \in {q \in pairs : Det(rows[q[1]], rows[q[2]]) # 0}}

EnumeratedCorners(lp) ==
    {x \in Intersections(active_rows(lp), Combinations(Len(active_rows(lp)))) :
        is_feasible_candidate(lp, x)}

(* 1/(1 + gap/max(|best|, 1)) as a fraction. *)
score_objective(lp, best, x) ==
    LET value == _objective_value(lp, best)
        scale == Max({value, -value, best.d}) * x.d
    IN  [n |-> scale, d |-> scale + Max({0, Gain(lp, x, best)})]

_lp_top_k_alternatives(lp, primary, k) ==
    LET others == EnumeratedCorners(lp) \ {primary}
        Earlier(x) == {y \in others : sort_candidate_tuple(lp, y, x)}
        ranked == <<primary>> \o [i \in 1..Cardinality(others) |->
                                    CHOOSE x \in others : Cardinality(Earlier(x)) = i - 1]
    IN  [i \in 1..Min({k, Len(ranked)}) |->
           [x |-> ranked[i], score |-> score_objective(lp, primary, ranked[i])]]

(***************************************************************************)
(* The solve.                                                              *)
(***************************************************************************)
LpInit == solve = NoSolve

(* An empty matrix, a row of another width or a missing right-hand side. *)
ShapeError(lp) ==
    \/ lp.A = <<>> \/ Len(lp.b) # Len(lp.A)
    \/ \E r \in DOMAIN lp.A : Len(lp.A[r]) # 2

Outcome(lp, k, status, x, alternatives) ==
    solve' = [lp |-> lp, k |-> k, status |-> status, x |-> x, alternatives |-> alternatives]

(* The corners of a feasible region, from its definition: a corner is not   *)
(* the middle of two feasible points.  Corners of the programs checked lie  *)
(* on a grid of halves, and slack ones leave room for a quarter step.       *)
Corners(lp) ==
    LET Step(x, d, s) == [n |-> <<4 * x.n[1] + s * d[1] * x.d, 4 * x.n[2] + s * d[2] * x.d>>,
                          d |-> 4 * x.d]
    IN  {x \in {Point(i, j, 2) : i, j \in 0..8} :
           /\ is_feasible_candidate(lp, x)
           /\ \A d \in {<<1, 0>>, <<0, 1>>, <<1, 1>>, <<1, -1>>} :
                ~( /\ is_feasible_candidate(lp, Step(x, d, 1))
                   /\ is_feasible_candidate(lp, Step(x, d, -1)))}

(* What HiGHS finds: the best corners, unless some direction that never     *)
(* leaves the region improves the objective for ever.                       *)
Unbounded(lp) ==
    \E d \in {<<1, 0>>, <<0, 1>>, <<1, 1>>} :
        /\ \A r \in DOMAIN lp.A : Dot(lp.A[r], d) <= 0
        /\ lp.upper = <<>>
        /\ (IF lp.sense = "maximize" THEN 1 ELSE -1) * Dot(lp.c, d) > 0

Optima(lp) ==
    LET corners == Corners(lp)
    IN  {x \in corners : \A y \in corners : Gain(lp, x, y) <= 0}

(* HiGHS may also run into its time limit, with or without a point, or fail. *)
solve_lp(lp, k) ==
    IF ShapeError(lp) THEN Outcome(lp, k, "error", <<>>, <<>>)
    ELSE LET optima == Optima(lp)
         IN  \/ optima = {} /\ Outcome(lp, k, "infeasible", <<>>, <<>>)
             \/ optima # {} /\ Unbounded(lp) /\ Outcome(lp, k, "unbounded", <<>>, <<>>)
             \/ /\ ~Unbounded(lp)
                /\ \E x \in optima :
                     Outcome(lp, k, "optimal", x,
                             IF k > 1 THEN _lp_top_k_alternatives(lp, x, k) ELSE <<>>)
             \/ \E status \in {"timeout", "error"} : Outcome(lp, k, status, <<>>, <<>>)

solve_from_request ==
    /\ solve = NoSolve
    /\ \E lp \in Programs, k \in TopK : solve_lp(lp, k)

LpNext == solve_from_request

(***************************************************************************)
(* Property.                                                               *)
(***************************************************************************)
(* What is offered beside the optimum can be trusted: the optimum leads,    *)
(* every alternative is a different corner of the feasible region, none is  *)
(* scored above one before it, and unless the enumeration was cut short, no *)
(* corner that is left out is better than one that is listed.               *)
AlternativesAreBest ==
    LET lp == solve.lp
        list == solve.alternatives
        listed == {list[i].x : i \in DOMAIN list}
    IN  list # <<>> =>
          /\ list[1] = [x |-> solve.x, score |-> [n |-> list[1].score.d, d |-> list[1].score.d]]
          /\ Cardinality(listed) = Len(list)
          /\ listed \subseteq Corners(lp)
          /\ \A i \in 2..Len(list) :
               list[i].score.n * list[i - 1].score.d <= list[i - 1].score.n * list[i].score.d
          /\ Cardinality(Combinations(Len(active_rows(lp)))) < MaxCombinations =>
               \A x \in Corners(lp) \ listed :
                  Len(list) = solve.k /\ \A y \in listed : Gain(lp, y, x) <= 0
=============================================================================
