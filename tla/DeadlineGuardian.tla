---------------------------- MODULE DeadlineGuardian ----------------------------
(***************************************************************************)
(* delivery/devops/project_deadline_guardian.py: a scheduled job that      *)
(* moves the overdue cards of a GitHub project to "Expired", comments on   *)
(* their issues and assigns a user.  It reads the cards page by page, and  *)
(* people move, order and reschedule them meanwhile.  A call may fail, and *)
(* may have done its work although it failed; the first failure ends the   *)
(* run.  A comment on a locked issue always fails.                         *)
(***************************************************************************)
EXTENDS Naturals, Sequences, SequencesExt

CONSTANTS
  Card,
  Issue,       \* cards that are issues
  Locked,      \* issues that the job may not comment on
  PageSize,
  MaxNow,      \* bound on the clock
  MaxMoves,    \* bound on what people do
  MaxFails,    \* bound on the calls that fail
  MaxComments  \* comments are counted up to this bound

None == MaxNow + 1   \* no deadline, or one that parse_deadline refuses

VARIABLES
  now,
  expired,   \* cards in the status "Expired"
  due,       \* due[i]: the deadline
  order,     \* the cards as the project lists them
  comments,  \* comments[i]: comments of the job
  assigned,  \* issues that have the assignee
  run,       \* the run of the job
  moves,     \* what people did so far
  fails,     \* calls that failed so far
  returned   \* history: returned[i]: times the card was taken out of "Expired"

cards == <<expired, due, order, comments, assigned>>
vars  == <<now, cards, run, moves, fails, returned>>

Idle == [pc |-> "idle", now |-> 0, page |-> <<>>, cursor |-> 0, more |-> FALSE, user |-> FALSE]

Init ==
  /\ now = 0
  /\ expired = {}
  /\ due \in [Card -> {0, None}]
  /\ order = SetToSeq(Card)
  /\ comments = [i \in Card |-> 0]
  /\ assigned = {}
  /\ run = Idle
  /\ moves = 0
  /\ fails = 0
  /\ returned = [i \in Card |-> 0]

Goto(pc) == run' = [run EXCEPT !.pc = pc]

-----------------------------------------------------------------------------
(* People, and time *)

Tick ==
  /\ now < MaxNow
  /\ now' = now + 1
  /\ UNCHANGED <<cards, run, moves, fails, returned>>

\* The cards, with the nth of them first.
ToFront(n) == [k \in DOMAIN order |-> IF k = 1 THEN order[n] ELSE IF k <= n THEN order[k - 1] ELSE order[k]]

Person(i) ==
  /\ moves < MaxMoves
  /\ moves' = moves + 1
  /\ \/ i \in expired /\ expired' = expired \ {i}
        /\ returned' = [returned EXCEPT ![i] = @ + 1]
        /\ UNCHANGED <<due, order>>
     \/ i \notin expired /\ expired' = expired \cup {i} /\ UNCHANGED <<due, order, returned>>
     \/ due' = [due EXCEPT ![i] = IF @ = None THEN now ELSE None]
        /\ UNCHANGED <<expired, order, returned>>
     \/ /\ \E n \in DOMAIN order : order[n] = i /\ order' = ToFront(n)
        /\ UNCHANGED <<expired, due, returned>>
  /\ UNCHANGED <<now, comments, assigned, run, fails>>

-----------------------------------------------------------------------------
(* main *)

\* The assignee is looked up (the job goes on without one) and so is the project.
Start ==
  /\ run.pc = "idle"
  /\ \E user \in BOOLEAN : run' = [Idle EXCEPT !.pc = "list", !.now = now, !.user = user]
  /\ UNCHANGED <<now, cards, moves, fails, returned>>

\* A page of list_project_items: the cards that follow the last one read.
After(i) ==
  IF i = 0 THEN order ELSE SubSeq(order, 1 + CHOOSE n \in DOMAIN order : order[n] = i, Len(order))

Listed(i) == {n \in DOMAIN After(i) : n <= PageSize}

ReadPage ==
  /\ run.pc = "list"
  /\ LET rest == After(run.cursor)
         page == [n \in Listed(run.cursor) |->
                    [card |-> rest[n], due |-> due[rest[n]], expired |-> rest[n] \in expired]]
     IN  run' = [run EXCEPT !.page = page, !.more = Len(rest) > PageSize, !.pc = "card",
                            !.cursor = IF page = <<>> THEN @ ELSE Last(page).card]
  /\ UNCHANGED <<now, cards, moves, fails, returned>>

\* Mutant: only the first page is read.
PageDone_First ==
  /\ run.pc = "card" /\ run.page = <<>>
  /\ run' = Idle
  /\ UNCHANGED <<now, cards, moves, fails, returned>>

PageDone ==
  /\ run.pc = "card" /\ run.page = <<>>
  /\ IF run.more THEN Goto("list") ELSE run' = Idle
  /\ UNCHANGED <<now, cards, moves, fails, returned>>

\* The card as it was when its page was read.
Item == Head(run.page)

\* Mutant: the status is not looked at.
Late_Again == Item.due < run.now

Late == Item.due < run.now /\ ~Item.expired

\* The job goes on with the next card.
Done == run' = [run EXCEPT !.page = Tail(@), !.pc = "card"]

Examine ==
  /\ run.pc = "card" /\ run.page # <<>>
  /\ \/ ~Late /\ Done
     \/ Late /\ Goto("status")
  /\ UNCHANGED <<now, cards, moves, fails, returned>>

\* set_status_overdue
SetStatus ==
  /\ run.pc = "status"
  /\ expired' = expired \cup {Item.card}
  /\ IF Item.card \in Issue THEN Goto("comment") ELSE Done
  /\ UNCHANGED <<now, due, order, comments, assigned, moves, fails, returned>>

Commented(i) == [comments EXCEPT ![i] = IF @ < MaxComments THEN @ + 1 ELSE @]

\* add_overdue_comment
Comment ==
  /\ run.pc = "comment"
  /\ Item.card \notin Locked
  /\ comments' = Commented(Item.card)
  /\ IF run.user THEN Goto("assign") ELSE Done
  /\ UNCHANGED <<now, expired, due, order, assigned, moves, fails, returned>>

\* assign_issue_owner
Assign ==
  /\ run.pc = "assign"
  /\ assigned' = assigned \cup {Item.card}
  /\ Done
  /\ UNCHANGED <<now, expired, due, order, comments, moves, fails, returned>>

\* The comment is refused.
Refuse ==
  /\ run.pc = "comment"
  /\ Item.card \in Locked
  /\ run' = Idle
  /\ UNCHANGED <<now, cards, moves, fails, returned>>

\* graphql raises: an error is the answer, or the answer is lost.
CallFails ==
  /\ run.pc \in {"list", "status", "comment", "assign"}
  /\ fails < MaxFails
  /\ fails' = fails + 1
  /\ run' = Idle
  /\ \/ UNCHANGED <<expired, comments, assigned>>
     \/ /\ run.pc = "status"
        /\ expired' = expired \cup {Item.card}
        /\ UNCHANGED <<comments, assigned>>
     \/ /\ run.pc = "comment" /\ Item.card \notin Locked
        /\ comments' = Commented(Item.card)
        /\ UNCHANGED <<expired, assigned>>
     \/ /\ run.pc = "assign"
        /\ assigned' = assigned \cup {Item.card}
        /\ UNCHANGED <<expired, comments>>
  /\ UNCHANGED <<now, due, order, moves, returned>>

Work ==
  \/ ReadPage \/ PageDone \/ Examine
  \/ SetStatus \/ Comment \/ Assign \/ Refuse

Next ==
  \/ Tick \/ \E i \in Card : Person(i)
  \/ Start \/ Work \/ CallFails

Spec == Init /\ [][Next]_vars

\* The job is scheduled again and again, and goes on.
Fairness == WF_vars(Tick) /\ WF_vars(Start) /\ WF_vars(Work)

FairSpec == Spec /\ Fairness

-----------------------------------------------------------------------------
\* An issue is commented on once for each time that its card has to be moved:
\* failures, lost answers and stale pages repeat no comment, only a person who
\* takes the card out of "Expired" does.
CommentsExplained == \A i \in Card : comments[i] <= 1 + returned[i]

Overdue(i) == due[i] < MaxNow

\* Every card that stays overdue ends in "Expired", also behind cards whose
\* issues refuse the comment: a run that broke off there goes on next time.
OverdueExpire == \A i \in Card : <>[]Overdue(i) => <>[](i \in expired)
=============================================================================
