------------------------------- MODULE Totals -------------------------------
(***************************************************************************)
(* Sums of money.  An amount is a natural number of cents (every money     *)
(* column is Decimal(18, 2)), and the total of a family of amounts is the  *)
(* number of cents in their disjoint union.  Defined this way a total      *)
(* needs no recursion: what a posting does to it follows from facts about  *)
(* the cardinality of finite sets (TotalsTheorems).                        *)
(***************************************************************************)
EXTENDS Integers, FiniteSets

\* The cents of the amounts f[x], x \in S, each tagged with its owner.
Cents(f, S) == UNION {{x} \X (1 .. f[x]) : x \in S}

\* The sum of the amounts f[x], x \in S.
Total(f, S) == Cardinality(Cents(f, S))
=============================================================================
