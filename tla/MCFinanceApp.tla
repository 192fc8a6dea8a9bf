---------------------------- MODULE MCFinanceApp ----------------------------
(* Instances of FinanceApp for TLC: amounts, and how many identifiers each  *)
(* factory hands out.                                                       *)
EXTENDS FinanceApp

MCAmounts == {-1, 1, 2}

MCMaxIds == [f \in Factories |-> IF f \in {"accounts", "operations"} THEN 2 ELSE 1]
=============================================================================
