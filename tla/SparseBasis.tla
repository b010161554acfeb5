---------------------------- MODULE SparseBasis ----------------------------
(***************************************************************************)
(* SparseBasisFactorization: the basis of a simplex method, factorised     *)
(* once and then kept up to date by a chain of eta updates, one for each   *)
(* column replaced, until the chain is too long or an eta too dense and    *)
(* the basis is factorised again.  An operation that throws must leave the *)
(* object as it was.                                                       *)
(***************************************************************************)
EXTENDS SparseLu

CONSTANT Options          \* sets of limits an object may be created with
ASSUME OptionTypes == \A o \in Options :
         o \in [maxUpdates : Nat \ {0}, denseAbove : Nat, maxFill : Nat, maxNonzeros : Nat]

VARIABLES options, basis, base, updates, limitReached, dense, thrown
vars == <<options, basis, base, updates, limitReached, dense, thrown>>

\* SparseBasisFactorization::factorize
Init ==
  /\ options \in Options
  /\ \E a \in Matrices : basis = a /\ Nonzeros(a) <= options.maxNonzeros
  /\ base = Factorize(basis, options.maxFill)
  /\ base.fault = "none"
  /\ updates = <<>> /\ limitReached = FALSE /\ dense = FALSE
  /\ thrown = "none"

-----------------------------------------------------------------------------
\* SparseBasisFactorization::solve and solve_transpose through a chain of etas
EtaSolve(x, eta) ==
  LET xp == Divide(x[eta.pivot], eta.value)
  IN  [i \in Index |-> IF i = eta.pivot THEN xp ELSE Reduce(x[i] - eta.entries[i] * xp)]
EtaSolveTransposed(eta, y) ==
  [y EXCEPT ![eta.pivot] =
     Divide(Reduce(@ - SumOf(LAMBDA i : eta.entries[i] * y[i], Index \ {eta.pivot})), eta.value)]

Through(lu, etas, b) == FoldLeft(EtaSolve, LuSolve(lu, b), etas)
ThroughTransposed(lu, etas, c) == LuSolveTransposed(lu, FoldRight(EtaSolveTransposed, etas, c))

-----------------------------------------------------------------------------
NeedsRefactorization == limitReached \/ dense

Throw(why) == thrown' = why /\ UNCHANGED options

\* SparseBasisFactorization::refactorize on the basis the object holds
Refactored == Factorize(basis, options.maxFill)
RebuiltKeepingChain ==
  base' = Refactored /\ UNCHANGED updates /\ limitReached' = FALSE /\ dense' = FALSE
Rebuilt == base' = Refactored /\ updates' = <<>> /\ limitReached' = FALSE /\ dense' = FALSE
Untouched == UNCHANGED <<base, updates, limitReached, dense>>

Refactorize ==
  /\ IF Refactored.fault = "none" THEN Rebuilt /\ Throw("none")
                                  ELSE Untouched /\ Throw(Refactored.fault)
  /\ UNCHANGED basis

(***************************************************************************)
(* replace_column refactorises first when it must, and then validates,     *)
(* solves and tests the pivot before it changes anything else.             *)
(***************************************************************************)
Replaced(p, column) == [i \in Index |-> [basis[i] EXCEPT ![p] = column[i]]]
FreshLu == IF NeedsRefactorization THEN Refactored ELSE base
FreshChain == IF NeedsRefactorization THEN <<>> ELSE updates
Direction(column) == Through(FreshLu, FreshChain, column)

RefactorizationThrows ==
  /\ NeedsRefactorization /\ Refactored.fault # "none"
  /\ Untouched /\ UNCHANGED basis
  /\ Throw(Refactored.fault)

ReplacementThrows(p, column, d) ==
  /\ FreshLu.fault = "none"
  /\ \/ Nonzeros(Replaced(p, column)) > options.maxNonzeros /\ Throw("nonzeros")
     \/ /\ Nonzeros(Replaced(p, column)) <= options.maxNonzeros
        /\ d[p] = 0
        /\ Throw("unstable")
  /\ UNCHANGED basis
  /\ IF NeedsRefactorization THEN Rebuilt ELSE Untouched

Eta(p, d) == [pivot |-> p, value |-> d[p], entries |-> d]
Weight(d) == Cardinality({i \in Index : d[i] # 0})
PastLimit(chain) == Len(chain) > options.maxUpdates
AtLimit(chain) == Len(chain) >= options.maxUpdates

Commit(p, column, d) ==
  LET chain == Append(FreshChain, Eta(p, d))
  IN  /\ basis' = Replaced(p, column)
      /\ base' = FreshLu
      /\ updates' = chain
      /\ limitReached' = AtLimit(chain)
      /\ dense' = (Weight(d) > options.denseAbove)

ReplaceColumn(p, column, d) ==
  /\ FreshLu.fault = "none"
  /\ Nonzeros(Replaced(p, column)) <= options.maxNonzeros
  /\ d[p] # 0
  /\ Commit(p, column, d)
  /\ Throw("none")

Next ==
  \/ Refactorize
  \/ RefactorizationThrows
  \/ \E column \in Vectors : \E d \in {Direction(column)}, p \in Index :
       ReplaceColumn(p, column, d) \/ ReplacementThrows(p, column, d)

Spec == Init /\ [][Next]_vars

-----------------------------------------------------------------------------
(***************************************************************************)
(* FTRAN and BTRAN are exact at any time: whatever columns were replaced   *)
(* and whenever the basis was factorised again, solve answers B x = b and  *)
(* solve_transpose B^T y = c for the basis now held.                       *)
(***************************************************************************)
SolvesExactly ==
  \A v \in Vectors : /\ Times(basis, Through(base, updates, v)) = v
                     /\ TimesTransposed(basis, ThroughTransposed(base, updates, v)) = v

(***************************************************************************)
(* The chain never grows past maximum_updates, and the object asks to be   *)
(* factorised again as soon as the chain is at the limit.                  *)
(***************************************************************************)
ChainBounded ==
  /\ Len(updates) <= options.maxUpdates
  /\ Len(updates) = options.maxUpdates => NeedsRefactorization

(***************************************************************************)
(* Updates are transactional: a call that throws leaves the basis and the  *)
(* answers of both solves as they were, even if it had already factorised  *)
(* the basis again.                                                        *)
(***************************************************************************)
Answers(lu, etas) == [v \in Vectors |-> <<Through(lu, etas, v), ThroughTransposed(lu, etas, v)>>]
Transactional ==
  [][thrown' # "none" =>
       /\ basis' = basis
       /\ <<base, updates>>' # <<base, updates>> => Answers(base', updates') = Answers(base, updates)]_vars
=============================================================================
