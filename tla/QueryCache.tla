----------------------------- MODULE QueryCache -----------------------------
(***************************************************************************)
(* What the console uses of its query library (@tanstack/react-query), a   *)
(* dependency outside the repository: a query keeps the data of its last   *)
(* answer and runs at most one fetch.  The set-up is that of               *)
(* web/components/providers/app-providers.tsx.                             *)
(*                                                                         *)
(* A value that may be missing is a sequence of at most one element.  The  *)
(* retry of a failed fetch is part of the phase "sent": Failed is the      *)
(* failure of both attempts.                                               *)
(***************************************************************************)
EXTENDS Integers, Sequences

Phases == {"idle", "sent", "read"}

IsQueryOf(q, D) ==
  /\ q \in [data : Seq(D), phase : Phases, answer : Seq(D), failed : BOOLEAN]
  /\ Len(q.data) <= 1 /\ Len(q.answer) <= 1

\* A page that mounts asks at once; a query that is not enabled yet does not.
Fresh == [data |-> <<>>, phase |-> "sent", answer |-> <<>>, failed |-> FALSE]
Unasked == [Fresh EXCEPT !.phase = "idle"]

Fetching(q) == q.phase # "idle"
Loading(q) == q.data = <<>> /\ Fetching(q)

\* A timer, a remount or a reset: a fetch under way is shared, not repeated.
Fetch(q) == IF Fetching(q) THEN q ELSE [q EXCEPT !.phase = "sent"]

\* invalidateQueries: the fetch under way is dropped and its answer ignored, unless
\* there is no data yet, when it is shared.
Invalidated(q) ==
  IF Loading(q) THEN q ELSE [q EXCEPT !.phase = "sent", !.answer = <<>>]

\* The server reads d for the answer; the answer arrives; both attempts failed.
Read(q, d) == [q EXCEPT !.phase = "read", !.answer = <<d>>]
Answered(q) == [data |-> q.answer, phase |-> "idle", answer |-> <<>>, failed |-> FALSE]
Failed(q) == [q EXCEPT !.phase = "idle", !.answer = <<>>, !.failed = TRUE]
=============================================================================
