------------------------------ MODULE MCSchema ------------------------------
(* The whole chain of 41 revisions, three engines, rows in the two tables  *)
(* whose columns are tightened besides the rates, one table opened by hand. *)
EXTENDS Schema
MCByHand  == {"payroll_item"}
MCWritten == {"wage_rate_profiles", "payroll_item"}
=============================================================================
