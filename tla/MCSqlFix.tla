------------------------------- MODULE MCSqlFix -------------------------------
(* Instances of SqlFix for TLC. *)
EXTENDS SqlFix, TLC

CONSTANTS f1, r1, r2

AnyRun == Permutations(Run)
TwoTexts == [f \in File |-> {"a", "b"}]

Sql(e, d)  == [eligible |-> e, dangerous |-> d]
Swap(e, t) == [eligible |-> e, path |-> f1, search |-> t, replace |-> "new"]

\* A dev run that applies everything, and what differs from it.
Dev == [environment |-> "dev", fix_mode |-> "apply", allow_dangerous |-> FALSE,
        executor |-> TRUE, commands |-> TRUE, sections |-> "whole",
        actions |-> <<Sql(TRUE, FALSE), Sql(TRUE, FALSE)>>,
        fixes |-> <<Swap(TRUE, "a"), Swap(TRUE, "b")>>]

Inputs ==
  {Dev,
   [Dev EXCEPT !.environment = "prod", !.allow_dangerous = TRUE,
               !.actions = <<Sql(TRUE, TRUE)>>, !.fixes = <<Swap(TRUE, "a")>>],
   [Dev EXCEPT !.executor = FALSE, !.commands = FALSE, !.actions = <<Sql(TRUE, FALSE)>>,
               !.fixes = <<Swap(FALSE, "a")>>],
   [Dev EXCEPT !.environment = "stage", !.actions = <<Sql(FALSE, FALSE), Sql(TRUE, TRUE)>>],
   [Dev EXCEPT !.sections = "truncated"]}

Plain == {Dev}
=============================================================================
