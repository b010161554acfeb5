# A TLA+ model of markov-cero

markov-cero reads an MPS file, and answers it with a linear, quadratic or
mixed-integer solver.  This directory holds TLA+ modules that model its control
state, TLC configurations that check them on small instances, and TLAPS proofs of
the results that matter most for every value of the constants.  Paths below are
relative to the repository (`src/milp/...`, `include/markov_cero/...`).

To check a run: `tlc -config MCBranchAndCut.cfg MCBranchAndCut.tla`.
To check the proofs of a module: `tlapm BranchAndCut_proofs.tla`.

## 1. Inventory

### The parts and how they interact

```
            markov-cero-solve (apps/)            routing, certification, exit code
             |          |            |
        parse_mps   presolve/scale   verifiers (src/verify)
             |          |
           model   canonical forms (src/transform)
                        |
      primal simplex   dual simplex   PDLP   ADMM QP
           \             |                    /
            dense LU / sparse basis (src/linalg)
                        |
         node_lp: one relaxation of one node
                        |
      milp::solve (serial tree search)     milp::solve_parallel (threads)
        root phase, heuristics, cuts         the same root phase, then
        strong branching, one queue          worker_loop x N over
                                             ThreadSafeNodeQueue, IncumbentManager,
                                             worker_bounds[]
```

| Component | State it keeps | Operations | What is hard |
|---|---|---|---|
| Serial branch-and-cut (`milp_solver.cpp`) | priority queue of nodes, incumbent, global bound, flags `unresolved_lp` and `search_incomplete`, counters | root stages, then pop / prune / solve / branch / assemble | every early exit, reduction and prune must keep the optimum or be reflected in the status; limits can strike at any loop head |
| Node queue (`work_queue.cpp`) | heap, `active_workers_`, `stopped_` | `push_children`, `push_branch_children`, `pop_node`, `prune`, `deactivate_worker`, `request_stop` | detecting the end of a search in which every worker may still create work; an unsigned count |
| Parallel search (`parallel_tree_search.cpp`) | the above, shared by threads; `worker_bounds`, counters, each worker's node | `worker_loop`, `solve_parallel` | interleavings of the queue, the atomics and the recorded incumbent; work dropped after a stop |
| Incumbent (`shared_incumbent.cpp`) | atomic objective, point under a mutex | `update_if_better`, `compute_tree_lower_bound` | the two are written at different times |
| Branching (`branch_selector.cpp`, `strong_branching.cpp`, `work_queue.cpp`) | pseudo-costs; bounds of nodes | children, lookahead, domain reduction | bounds that are infinite or not integral; reductions of several candidates applied together |
| Node relaxation (`node_lp.cpp`) | none | one LP or QP solve | its failures are neither infeasible nor optimal |
| Heuristics (`heuristics.cpp`) | cycle history of the pump | rounding, feasibility pump | what they return must be feasible |
| Cuts (`gomory.cpp`, `mir.cpp`, `cut_pool.cpp`) | pool; the strengthened root model | generate, filter, append rows, solve again | a row of the tableau is about canonical columns, a cut about the variables they came from; a cut added at the root holds in the whole tree |
| Presolve (`presolve.cpp`, `presolve_stack.hpp`) | active rows and columns, rhs, LIFO stack | passes of reductions, postsolve | undoing reductions in an order that restores primal and dual |
| Simplex (`revised_simplex.cpp`, `dual_simplex.cpp`) | basis, factorisation, iteration counts | phases, pivots, recovery, warm start | degeneracy, recovery after a failed pivot, fallback |
| Sparse basis (`sparse_basis.cpp`) | factors, eta chain | factor, update, ftran, btran | a failing update, the limits of the chain |
| MPS reader (`mps.cpp`) | current section, integer block, chosen vectors, tables of rows, columns, entries and quadratic terms | one line at a time; build the model at the end | sections and markers in unexpected orders, records about rows and columns that are not there yet, what a later record resets |
| Driver (`markov_cero_solve.cpp`) | status, verification flags | route, verify, report | what may be reported as verified |
| Canonical form (`sparse_canonicalize.cpp`) | none | shift, mirror, split, add slacks; reconstruct | the way back must be the inverse for every mix of bounds |
| Ruiz scaling (`ruiz_scaling.cpp`) | row and column factors | equilibrate, unscale | matrix, right-hand side, costs and answers must see the same factors |
| Verifiers (`src/verify`) | none | check a point, a certificate | what they do not look at is trusted |
| Quadratic programming (`qp/model.cpp`, `qp/admm_solver.cpp`, `qp/verifier.cpp`) | iterates `x`, `z`, `y`, penalty `rho`, whether the KKT system is factorised | convexity test, iteration, certificates, change of penalty, verification | a failed refactorisation in the middle of the loop; what the verifier takes on trust |
| PDLP, KKT, dense LU | vectors of doubles | numerical iterations | convergence over the reals |

### What makes each part correct

- **Both tree searches**: "optimal" and "infeasible" are justified; the bound is one;
  the incumbent and its objective agree; every integer point worth finding is in an
  open node, or was given up for a reason the status shows; every run ends.
- **Node queue**: the number of busy workers is exact, the end of the search is declared
  exactly when nothing is open and nobody may push, and nobody waits for nothing.
- **Branching**: children and domain reductions lose no integer vector, put none in two
  nodes, and exclude the point branched on.
- **Sparse basis**: FTRAN and BTRAN are exact after any history of updates; a call
  that throws changes no answer; the chain of updates stays in its limit.
- **Simplex**: bases stay nonsingular and primal (or dual) feasible, Bland's rule ends
  every phase, and the witness of each answer passes the verifier.
- **Presolve**: what is left is equivalent to what was given, and postsolve restores
  a primal and a dual answer.
- **MPS reader**: the model built is the one the lines declare, wherever the sections stand; a file
  that breaks the format is rejected; every entry kept refers to a row and a column that exist.
- **Cuts**: no cut excludes an integer point of the model, and the bound after the second solve is one.
- **Quadratic programming**: multipliers fit the rows they belong to, "optimal" is a minimum, a model that is
  not convex is refused.
- **Driver**: what is reported as verified is true, and no right answer is turned into
  a failure on the way back.

## 2. The modules

| Module | Models | State and actions in the code's terms |
|---|---|---|
| `SearchSpace` | what a tree search knows of its model | constants only: nodes are elements of `Sub`, `Verdicts` the answers `solve_node` may give, `Branchings` the sets of children branching may produce, `Tightenings` the bounds domain reduction may produce. Its assumptions are the contract of those parts. |
| `AnytimeSearch` | abstract specification of both searches | an incumbent that only improves, and one justified answer |
| `RootPhase` | the root stages both searches share | `phase` is the point `solve` has reached; one action per stage and outcome |
| `BestBound` | `NodeCompareBestBound` | the order of the heap |
| `BranchAndCut` | `milp::solve` | composes `RootPhase` with the tree loop; one action per path through the loop body |
| `NodeQueue` | `ThreadSafeNodeQueue` | one action per critical section; `client` is what the caller passes as `was_active` |
| `ParallelSearch` | `milp::solve_parallel`, `worker_loop`, `IncumbentManager` | composes `RootPhase` and `NodeQueue`; `pc` is a worker's place, one action per access to shared state |
| `Branching`, `NodeTree` | children, fractional variables, domain reductions; the bounds of all open nodes | `open`, `branched` |
| `GridProblems` | instances of `SearchSpace` | five small integer programs |
| `SparseLu`, `SparseBasis` | `SparseLu`, `SparseBasisFactorization` | `base` is the factorisation, `updates` the chain, `thrown` the exception of the last call |
| `CanonicalModel` | the canonical form and what the verifier accepts as a witness | operators |
| `Elimination` | exact solutions of square systems | operators; stands for the factorisations, whose exactness `SparseBasis` checks |
| `PrimalSimplex` | `lp::reference::solve` | `stage` is the phase, `basis` and `left` are `Work::basis` and the rows left, `answer` the result |
| `DualSimplex` | `lp::dual::solve` | extends the primal method, its fallback, by a saved basis and the dual iteration |
| `Presolve` | `presolve`, `postsolve` | `rowActive`, `colActive`, `rhs`, `offset`, `stack` as in the code; `scan` and `at` are the loop; a step is a reduction |
| `Canonicalize` | `sparse_canonicalize`, `reconstruct_*`, `verify_primal` | operators |
| `Scaling` | `equilibrate`, `unscale_solution` | operators |
| `CuttingPlanes` | the cut round of `milp::solve`: `gomory.cpp`, `mir.cpp`, `cut_pool.cpp` | composes `DualSimplex` and `Canonicalize`; `relaxed` is `root_model`, `candidates` and `cuts` the pool before and after the filter, `phase` the stage of the round |
| `MpsFile` | what a file declares, read as a whole | operators: each section is a set of records |
| `MpsReader` | `parse_mps` | one action per kind of header and record; `section`, `inBlock`, `vectors`, `rows`, `columns`, `entries` are the locals of the function |
| `QuadraticModel` | `make_quadratic_model`, `check_convexity`, `verify_qp_solution` | operators |
| `AdmmSolver` | `AdmmQpSolver::solve` | `qx`, `qz`, `qy` are the iterates, `rho` the penalty, `factorized` the state of the KKT solver |
| `Pipeline` | `main` of `markov_cero_solve` | composes `Canonicalize`, `Presolve`, `Scaling`, both simplex methods and `AdmmSolver`; `phase` is the stage, `report` what is printed |
| `MC*` | instances for TLC | |
| `RootPhase_proofs` | lemmas about the root stages | shared by the proofs of both searches |
| `BranchAndCut_proofs`, `MpsReader_proofs`, `CuttingPlanes_proofs` | theorems about the module named | |
| `TreeAndBasis_proofs` | theorems about `NodeTree` and `SparseBasis`, which no other module builds on | |
| `ParallelSearch_proofs` | theorems about `NodeQueue` and `ParallelSearch` | |
| `Models_proofs` | sums; the witnesses of `CanonicalModel`, the way into and out of `Canonicalize`; determinants and `Solution`; what a basis proves; the invariant of `PrimalSimplex` and `DualSimplex` | |
| `Pipeline_proofs` | theorems about `Presolve`, `Scaling`, `QuadraticModel`, `AdmmSolver` and `Pipeline`, on top of `Models_proofs` | |

Definitions with names such as `DominatedEarly`, `NodeForgotten` or `RhsUnshifted`, which
stand directly before a definition and are used nowhere, are faulty variants of it. With
the variant in place of the definition, the run named in `PROJECT.json` finds its
property violated, which shows that the property depends on that line of the code.

### Abstractions

- *Relaxations* of the tree searches are sets of possible answers. A failure of any kind
  (iterations, numbers, resources) is one answer, "failed". Cuts are a second answer
  for the same node (that they are valid is proved of `CuttingPlanes`), heuristics return any feasible point or nothing, and the branching
  variable is any fractional one: the scores that rank them do not affect correctness.
- *Atomics* of the parallel search are sequentially consistent, although most accesses in the
  code are relaxed: what a property here says of races, it says of interleavings, and stale
  reads beyond those are not covered. `pop_node` waits with a time limit, so wake-ups need no model.
- *Numbers*. The tree searches and branching use integers in units of a grid fine enough
  for the tolerances to matter (`AbsGap`, `Scale`, `Grid`). The simplex methods,
  presolve and the driver use exact integers and answers over a common denominator,
  on instances whose quotients are exact, so tolerances are below every value that
  occurs; that arithmetic may fail at any step is one action, `Breakdown`. The factorisation
  uses a finite field, where all matrices can be enumerated.
- *Names*. Rows and columns left by presolve keep their numbers, so the two index maps
  of the stack are the identity. Positions of a basis are named by the rows left.
- *Pricing* of the dual method (largest infeasibility, steepest edge, Devex) chooses among
  the infeasible rows and is open. In the ratio test only the least ratio is fixed.
- *Scale factors* are any of a set given; the iteration that finds them is not modelled.
- *Cuts* have rational coefficients; a cut is multiplied by `D (D - F)`, where `D` is the determinant
  of the basis and `F / D` the fraction of its row, which makes it integral and keeps its direction. Cuts are
  compared with the integer points of a box, in which continuous variables take multiples of `1 / Halves`.
- *Files* are sequences of tokenised lines. How a line is cut into tokens and a token parsed into a number is
  left out; numbers are a few tokens with values.
- *Quadratic iterates.* What the linear system returns, over-relaxation and rounding included, is any point and any
  argument of the projection from a small set. The projection, the multipliers, the certificates, the
  order of the tests and the failures of the linear system are those of the code; residuals are zero or not.

## 3. The runs

| Run | Shows | Instance |
|---|---|---|
| `serial` | types; `OptimalIsOptimal`, `InfeasibleIsProven`, `BoundIsValid`; the inductive invariant `SearchInv`, of which coverage is a part; `Implements` (refines `AnytimeSearch`); `Terminates` | problems 1-3 in boxes 0..2, 2 also in 0..1 where it is infeasible; 6 nodes; rounding every 2 nodes; any relaxation may fail, the clock may expire at any moment |
| `parallel` | the same claims as `serial` unless a node was lost (`...UnlessLost`), and that nodes are only lost to a failed relaxation or to a push after a stop (`DropsAreExcused`); `IncumbentAgrees`; `NodeLimitKept`; the queue's `ActiveCount`, `DrainedIsIdle` and `WaitHasReason`, as the threads use it; `Implements`; `Terminates` | 2 threads, problems 2, 4 and 5, 4 nodes, a gap of 2 (the cut may solve problem 4 at its root, and then no thread is started) |
| `node_tree` | `Partition`, `NeverAgain` | a variable without upper bound, one with bounds 0.5 and 2.5; 8 relaxation points |
| `basis` | `SolvesExactly`, `ChainBounded`, `Transactional` | all 2 x 2 matrices over 3 elements; two sets of limits, one for long chains, one for dense etas and for fill |
| `simplex` | `KeepsPrimalFeasible`, `KeepsDualFeasible`, `NeverCycles`, `WitnessAccepted`; for the cut round `CutsAreGlobal`, `RootBoundIsValid` | 2 to 3 rows, 3 to 9 columns; every pair of columns as a saved basis; a model that cycles under most-negative pricing; integer programs of two variables with a lower bound, some shifted, fixed or continuous, and at most 2 cuts |
| `pipeline` | `StatusIsRight`, `UnboundedIsRight`, `NoFalseAlarm`, `Equivalent`; for quadratic programs `ComplementarySlackness`, `QuadraticAnswerIsRight` and the quadratic part of `UnboundedIsRight` | two variables with all kinds of bounds, one or two rows of all kinds, both senses; with and without presolve and scaling; limit of 3 iterations, so that it is met too. Quadratic programs with convex, flat and indefinite matrices; 3 iterations, certificates every 2, a change of penalty after each; iterates 0 and 1, arguments of the projection -2, 0 and 2 |
| `reader` | `ReadsDeclared`, `RejectsTheFlawed`, `IndicesResolve` | sound files with all kinds of rows, ranges, bounds, integer blocks and quadratic terms, the sections in several orders, repeated or left out; about two dozen files with one flaw each; files that name columns in BOUNDS first; limits of 3 rows, 2 columns and 4 entries, all of which are met |
| `maximise`, `failure_is_no_prune`, `threads_agree`, `mirrored_cuts`, `clamped_scaling` | one disagreement each, see below | |

**Why the bounds are enough.** The small problems were chosen for what they make happen, and the
faulty variants confirm it. The trees have several levels and depend on the order of
discovery; problem 2 has fractional relaxations and becomes infeasible late. Two workers suffice
for every race between a pop, a gap test and a push, as these involve two roles, and the theorems of section 4
hold for any number. In dimension
two every pattern of zeros, every row exchange and every eta arises. Two-variable
programs meet every case of the variable map and every record of the presolve stack, two of them
in sequence, which is where their order matters; with two variables a cut meets a basic and a nonbasic
column of each kind. What a record of an MPS file means depends on the section, the block and whether its row and
column are known, and the files combine these. Three iterations of the quadratic method reach a
certificate test, a change of penalty and the failure after it.

**Fairness.** The serial search is one thread that never blocks: weak fairness of its own
step. The parallel search has weak fairness of the main thread and of each worker, which is what an
operating system gives to threads, none of which holds a lock for more than one action. The
clock has no fairness: no property relies on a time-out. Simplex, cuts, basis, reader and driver are checked for
safety only; that phases end is expressed as the safety property `NeverCycles`
(the iteration limit of 10,000 is never reached where there are fewer bases than that).

## 4. What is proved

All theorems hold for every value of the constants that satisfies the named assumptions.

- **Serial search** (`BranchAndCut_proofs`). `SearchInv` is inductive: the incumbent is a point of
  the model with the objective held, nodes carry valid bounds and only points of the model, every
  point worth finding lies in an open node unless a relaxation was left
  unresolved, and the global bound is one. None of the properties is inductive alone: `Covered`
  needs the nodes' bounds for pruning; the bound needs `Covered`. `TypeCorrect`,
  `Invariance`, the four properties and the refinement `SerialImplements` follow. Assumptions:
  `SpaceTypes`, `ToleranceTypes`, `FiniteValues` (a top node of the queue exists),
  `RelaxationContract` (a relaxation's objective bounds its points, "infeasible" means none),
  `BranchingContract` (children cover, reductions keep), and **`Sense = 1`**: the theorems are about
  minimisation, and the run `maximise` shows why.
- **Root phase** (`RootPhase_proofs`). Lemmas about the stages both searches start with: the incumbent stays a point of
  the model with its objective and only improves (`RootIncumbent`), domain and bound of the root stay right
  (`RootStep`), and a stage that answers is right to (`RootAnswers`). Both searches' proofs rest on them.
- **Parallel search** (`ParallelSearch_proofs`), for any finite set of threads and every interleaving. Three layers:
  - `ThreadInv`: types, the queue's invariant, and what a thread at each place of `worker_loop` knows of the node and the
    relaxation it holds. Every step of a thread is a call the protocol of `NodeQueue` permits (`WorkerCalls`), so the
    queue's lemmas apply: `ParallelTypeCorrect`, `ParallelActiveCount`, `ParallelDrainedIsIdle`, `ParallelWaitHasReason`.
    `DropsExcused` adds that a queue stopped before it drained was stopped by a limit or the gap test; `NodeLimit` counts
    the threads that have passed the test of the limit and not yet counted their node.
  - `AgreeInv`: between its compare-and-swap and its record a thread holds the objective the shared value has run
    ahead to; whoever records last leaves the best one (`IncumbentAgreement`).
  - `SafeInv`, for `Sense = 1`: nodes in the heap and in hand carry valid bounds, a cutoff read earlier is no
    lower than the incumbent's of now, and, as long as `lost` is empty, every integer point worth finding lies
    in an open node or in one a thread holds (`ParallelCovered`). From it `ParallelOptimal`, `ParallelInfeasible`,
    `ParallelBound` and the refinement `ParallelImplements`. `Covered` is not inductive alone: a prune with a
    stale cutoff needs the cutoffs and the nodes' bounds, the end of an integral node the order of the swap and the record.
  Assumptions: those of the serial search and `ParallelConstants`; sequential consistency is part of the model.
- **Node queue** (in `ParallelSearch_proofs`). The invariant adds to `ActiveCount` and `DrainedIsIdle`
  that once drained the queue is stopped and empty. Any finite set of
  workers, any nodes and cutoffs; `CallsInv` and `CallsWait` state it for any calls, for the parallel search to use.
- **Branching** (`TreeAndBasis_proofs`). Children cover a node and exclude the point, for any bounds,
  finite or not; reductions of several candidates, applied together, keep every feasible vector; from these
  `Partition` and `NeverAgain` for any number of variables. This is what `BranchingContract` assumes.
- **Sparse basis** (`TreeAndBasis_proofs`). The chain stays within its limit: the invariant ties
  `limitReached` to the length of the chain, which holds at the start of every call.

- **MPS reader** (`MpsReader_proofs`). `IndicesResolve` for every file and all limits: names are unique, the limits are kept,
  every entry and quadratic term lies in a row and column of the tables (`ReaderConstants`: the limits are numbers).
  `ReadsDeclared`, also for every file: the loop over the lines gives the model that `MpsFile` reads off each section as a
  set, whatever the order of the sections. The inductive invariant `Known` restricts each part of the claim to the lines
  seen so far (`Seen`): the objective is the one named last or the first row of type N, a row has a right-hand side or a range
  exactly if one cell gives it, the bounds of a column are those of its markers and its last records, entries add up to the
  cells that give them. Two parts were found only in the attempt. A block of integers is open exactly if one
  marker more has opened than closed (`BlockInv`), without which a column's type is not what its place in the file says. And the
  objective adds up only if its row is one of type N (`CostKept`), since OBJNAME may name a row before, or
  without, declaring it; at the end the property's hypothesis `Orderly` supplies that. `Orderly` is needed for the order of
  columns and what is said of them, and for nothing else. Assumptions: `FilesAreText` (a line is a sequence of tokens, none of them
  `NoName`, and a header has one) and `NumbersAreWhole`.
- **Witnesses** (`Models_proofs`). What `verify_reference_result` accepts decides the question, for models of any size:
  `WeakDuality` and with it `AcceptedOptimumIsLeast`, `FarkasMeansInfeasible`, `RayMeansUnbounded`. No property of the
  simplex methods is used: however they found the witness, it is enough.
- **Canonical form** (`Models_proofs`). `CanonicalPointFeasible`: every point of a model, whatever the kinds of its bounds
  and rows, has a canonical point that satisfies the canonical model and comes back to it; `CheaperMapsBack`: an answer that
  undercuts all canonical points comes back as one no point of the model beats, in the model's own sense, with the
  objective the code reports. Assumption: `WellFormed`, which is what `Model::validate` demands.
- **Scaling** (`Pipeline_proofs`). `OptimumUnscales`, `FarkasUnscales`: multiplying back takes an accepted witness of the scaled
  model to one of the model scaled, provided no factor was clamped (`InRange`).
- **Presolve and postsolve** (`Pipeline_proofs`). `PresolveIsEquivalent`: each reduction keeps exactly the points of
  the model and their costs. The invariant `AccountsInv` says that the rows removed hold at the values the stack records,
  and that `rhs` and `offset` are what is left of `b` and of the cost once these values are moved to the right.
  The hypothesis `[]ExactQuotients` says that a singleton row divides; the code has doubles
  there, the model integers, and a quotient that is rounded leaves a point that is only nearly one.
- **Driver, linear programs** (`Pipeline_proofs`). `AnswersAreRight` is `StatusIsRight` for every model, command and grid
  of points. The chain: an accepted witness is least, or excludes every point, in the scaled model; it unscales;
  each step of postsolve keeps that a point is no dearer than any point of the model so far restored; the check against the
  canonical model makes it a point; `CheaperMapsBack` carries it to the model given, and the check against that model makes
  it a point of it. `DriverInv` holds one statement of this kind for each `phase`. Postsolved multipliers are never needed:
  if they were wrong the canonical check would reject the answer, which is `NoFalseAlarm`'s concern. The hypothesis
  `[]Unclamped` cannot be dropped: the run `clamped_scaling` violates the property without it. It holds throughout for the
  factors of the run `pipeline`, as does `ExactQuotients`.
- **Square systems** (`Models_proofs`). `Elimination` defines solutions by cofactors along the first row. Two facts about
  minors carry everything else: a matrix with two equal rows has none but zero, and a minor expands along any column as well.
  From them the transposed matrix has the same determinant, and `SolutionSolves` (Cramer's rule), `OnlySolution`, and the rule
  by which a pivot changes every other solution.
- **Simplex** (`Models_proofs`, `Pipeline_proofs`). First about a basis as data, without a state: what its solution, its prices
  and its tableau prove. `OptimalAccepted`, `RayAccepted`, `DualFarkasAccepted`: an ending of a method makes a
  witness the verifier accepts. `DualPivot` and its counterpart for the primal ratio test; `DropImplied`: the clean-up after
  phase one drops a row only if those left imply it. Then the states: `SimplexInv` says for each `stage` what the basis is,
  `SolverInv` carries it through the driver, and `PrimalStaysFeasible`, `DualStaysFeasible`, `WitnessesAreAccepted` follow for every
  model, command, saved basis and pivot rule. None of the three is inductive alone: a witness is accepted because the
  basis is feasible and the rows dropped are implied; the clean-up may end singular (see 5), so `InClean` promises
  a feasible solution only of a nonsingular basis. Assumptions: `WellFormed` models and `ScalesAreWhole`, by which the scaled
  model has integers again. With `AnswersAreRight` this makes both halves of an answer: the methods find what they claim,
  and what they claim is checked.
- **Cuts at the root** (`CuttingPlanes_proofs`), for `CutSpec`: a cut round from any model of `Programs`. `RootCutsAreGlobal` is
  `CutsAreGlobal` and `RootBoundHolds` is `RootBoundIsValid`, for all sets of models, limits and grids of points.
  - One cut. On a point of the model, over `Halves`, the canonical point satisfies the rows, so the row of the tableau holds
    on it for every basis whatever. `RoundedRow` is the argument of the cut: the integer columns leave a remainder that is either at
    least the fraction or at most the fraction less one unit, and the weights bound it from both sides; MIR's weights
    are Gomory's (`SameWeights`). Solving slacks for their rows, going back to the variables, taking out a divisor,
    sorting and filtering each keep what `GlobalCuts` says.
  - The round. `CutInv` adds to the invariant of the simplex methods that an optimum reported is the vertex of
    the basis left behind (`Concluded`), as the generators read both; that the relaxation cut from is the model given; and
    that the model with the cuts has all its points. The bound is then weak duality in a model whose rows are cuts, whatever basis the
    second solve started from. `RoundMethodsSound`: both solves keep to the rules of the simplex methods.
  - Hypotheses. `Suited`: integer variables have a lower bound and no variable is free; for the models it leaves out the
    run `mirrored_cuts` finds cuts that are wrong, so the theorem says where the code's cuts can be trusted. A continuous variable may be
    mirrored. Some variable is not fixed, so that the canonical model has a column. `Minimised`, for the bound only, as in the tree
    searches. `CutConstants` and `ProgramsGiven` say that models are as `Model::validate` leaves them.
- **Quadratic programming** (`Pipeline_proofs`).
  - `ConvexityIsExact`: `check_convexity` accepts a model if and only if its energy is negative at no integer point. Each pivot completes
    a square, carried through the fold over the variables; backwards, each of the three ways to
    stop (a negative pivot, a zero pivot with an entry in its row, the same after eliminations) gives a point of negative energy.
  - `ComplementarySlackness`: a multiplier that is not zero has the sign of the bound its row sits at, for
    every penalty and iterate. It rests on the sign of `v - Projected(v)` and on the penalty staying positive. Assumption: `AdmmConstants`.
  - `StationaryIsLeast`: with such multipliers a stationary point of a model that passed the test is a least one;
    `CertificateMeansInfeasible` and `CertificateMeansUnbounded` are the two certificates.
  - `QuadraticAnswersAreRight` and `QuadraticVerdictsAreRight` put these together along the states of the driver,
    without a hypothesis on the run: a verified optimum is one although the verifier sees neither signs nor products of
    the multipliers; "infeasible" and "unbounded" are true; "invalid_model" is given exactly for models that are not convex.
    `QuadraticVerdictsAreRight` is stronger than the quadratic part of `UnboundedIsRight`, which looks for
    its directions on a finite grid.

Sums over index sets are folds. Statements about them for every set are proved from the fold's defining equation, with a
smallest counterexample in place of an induction rule, and cited as lemmas (`Models_proofs` begins with them).

Only model-checked, and why:

- `Terminates` of both searches: liveness is beyond the prover.
- `NeverCycles`: Bland's rule ends every phase because a basis never comes back, which is an argument about a whole
  sequence of pivots.
- `SolvesExactly`: the factors are loops over the columns of a matrix over a finite field, a different arithmetic from
  that of `Elimination`.
- `NoFalseAlarm`: the multipliers postsolve restores pass the canonical check. The primal half follows from the
  theorems above, the dual half needs the order in which multipliers of removed rows depend on each other.
- `UnboundedIsRight` for linear programs: a ray of the canonical model comes back as a direction of the model, which
  need not lie on the grid of directions the property uses.
- `Transactional`: follows the code line by line and is checked over all matrices of the instance.
- `RejectsTheFlawed`: which files are flawed is a list the instance gives, not a formula.

## 5. Where code and documents disagree

1. `maximise`: the searches prune as if minimising, but relaxations report maximised objectives in the
   user's sense. A maximisation may end "optimal" with a worse point.
2. `failure_is_no_prune`: a parallel worker drops a node whose relaxation failed, and the answer does not show it.
3. `threads_agree`: a gap test between a pop and the publication of the popped node's bound stops the
   search; the objective reported as optimal depends on the schedule.
4. `mirrored_cuts`: the cut generators take the fraction of a cut from the variable of the model, although the
   row of the tableau is that of its canonical column. For a variable with only an upper bound, which is
   mirrored, the fraction is the wrong one (`gomory.cpp:94`, `mir.cpp:103`); for a free variable, which is split,
   both halves contribute their weight and it counts twice (`gomory.cpp:185`, `mir.cpp:193`). Both give cuts that exclude
   integer points, against `docs/contracts.md:54`.
5. `clamped_scaling`: factors are clamped after they were applied to the matrix. Models with very small or
   large coefficients are reported infeasible, as verified, although they are feasible; the driver does not check
   infeasibility certificates.

Further observations, which no run is about:

- *Simplex.* After a first phase that moved artificial columns between rows, a redundant row is removed with the basic
  column of the wrong row (`revised_simplex.cpp:349`): the feasible model with rows `x - y = 0`, `-x = -1`,
  `-x - y = -2`, `-2x + 2y = 0` ends as a numerical failure, where
  `tests/primal_simplex_property_test.cpp:89` expects redundant rows to be handled. `WitnessAccepted` allows failures.
- *Presolve* reports an empty column of negative cost as "unbounded" before a later singleton row shows the model
  infeasible, and the driver marks it verified (`VerifiedUnboundedIsTrue` in `Pipeline` is violated;
  `StatusIsRight` excludes the case).
- *Canonical form.* The constant of a maximised objective is added to the canonical offset unsigned
  (`sparse_canonicalize.cpp:246`), while the way back multiplies by the sense, so the constant changes its sign; the
  dense form has `sense * offset` (`canonicalize.cpp:163`). The MPS reader sets no constant and
  `tests/sparse_canonicalize_test.cpp:41` only has zero, so nothing observes it; `CheaperMapsBack` compares points, for
  which a constant is the same on both sides. A model without rows that is not presolved fails
  its check and is reported a numerical failure (`NoFalseAlarm` excludes it).
- *Searches.* Pseudo-costs are updated with a degradation of zero (`milp_solver.cpp:330`). `docs/contracts.md:31`
  gives 50 updates as the default of the chain, the code has 64.
- *Reader.* OBJNAME after COLUMNS adds the coefficients of two N rows into one objective; an OBJNAME that names another kind
  of row passes (`mps.cpp:383`); BOUNDS before COLUMNS in an integer block lose an upper bound, which is reset to 1; a
  BOUNDS or QUADOBJ record about an unknown column adds it silently; quadratic entries are not counted
  against `maximum_nonzeros`. The sound files of the run `reader` avoid the first three.
- *Quadratics.* `make_quadratic_model` adds the two entries of a full symmetric matrix and mirrors the sum, so products count
  twice (`qp/model.cpp:240`; `QuadraticAnswerIsRight` compares objectives for diagonal matrices). `verify_qp_solution`
  computes complementarity and tests neither it nor the signs of the multipliers (`docs/contracts.md:42`); that they hold is
  `ComplementarySlackness`. A point of a mixed-integer quadratic program is verified with the linear
  objective only (`primal_verifier.cpp:87-98`), and an LP engine asked for by name ignores the quadratic
  part. The result of `update_numeric` is ignored: if it fails, the next solve throws out of the
  loop (`kkt.cpp:274`). "dual_infeasible" is reported "unbounded", verified without a feasible point.

## 6. Not modelled, and what comes next

Not modelled: PDLP and the KKT factorisation, rounding error in every numerical method (their correctness is
convergence over the reals), the loop of the feasibility pump, the scores that choose a branching variable, the
factors Ruiz scaling arrives at, tokenising and the parsing of numbers, option parsing, formatting, build information.
The quadratic branch of `milp::solve` has the same shape as the linear one and is covered by the same contract.
The older dense canonical form (`canonicalize.cpp`) is not used by the driver.

Order of the plan; steps 1 to 10 are done.

1. Root phase and serial search, with the abstract specification and the proofs.
2. Queue, then the parallel search composed from queue and root phase; branching and the node tree.
3. Sparse basis; primal and dual simplex on exact arithmetic.
4. Canonical form, presolve, scaling; the driver composed from them.
5. The parallel search proved for any number of threads, with the lemmas of the root phase shared and the queue's protocol shown
   to be kept.
6. The MPS reader, with its tables proved consistent.
7. The cut round; quadratic programming and its branch of the driver.
8. Presolve, canonical form, scaling and the driver proved for every model; the convexity test and the certificates of
   the quadratic branch.
9. Square systems and both simplex methods proved for every model.
10. The reader proved to return what a file declares; the cuts and the bound of the root proved valid.
11. Rays of the canonical model mapped back, so that `UnboundedIsRight` can be stated for every model; the multipliers of
   postsolve.
12. Branching selection: pseudo-costs and reliability as state, the feasibility pump's
   cycle detection, and that the pump ends.
13. Node relaxation with the basis inherited by a child, composed from `DualSimplex`.
14. The KKT factorisation over a finite field, as `SparseLu` is.
