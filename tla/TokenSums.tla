------------------------------ MODULE TokenSums ------------------------------
(***************************************************************************)
(* Sums of natural numbers over a finite set of indices.  The sum is the   *)
(* number of tokens one gets by giving index i the tokens <<i, 1>> ..      *)
(* <<i, f[i]>>: a sum by counting needs no recursion, so that the facts    *)
(* about it follow from those about the cardinality of finite sets.        *)
(***************************************************************************)
EXTENDS Integers, FiniteSets

\* The tokens that the indices of S hold when index i holds f[i] of them.
Tokens(S, f) == UNION {{i} \X (1 .. f[i]) : i \in S}

\* The sum of f over S.
Total(S, f) == Cardinality(Tokens(S, f))
==============================================================================
