------------------------------- MODULE MCServer -------------------------------
(* One old token, one setting with two administrators, two models of which   *)
(* the second comes with LiteLLM's second list, two overlapping refreshes.   *)
EXTENDS Server, SequencesExt

TwoLists == <<{"m1"}, {"m1", "m2"}>>

\* What AfterFirst says of a database is what the statements make of the oldest one,
\* run one after another, each error left aside.
Attempt(d, s) == IF Error(s, d) = "none" THEN Effect(s, d) ELSE d
RunFirst(w, start, type) ==
  FoldLeft(LAMBDA d, m : FoldLeft(Attempt, d, Statements(m, type)), start, SubSeq(Migrations, 1, w))

ASSUME AfterFirstIsRun ==
  \A w \in 0..Len(Migrations), tokenTable, pinned \in BOOLEAN, type \in {"sqlite", "postgres"} :
    AfterFirst(w, tokenTable, pinned, type)
      = RunFirst(w, [Oldest EXCEPT !.tokenTable = tokenTable, !.pinned = pinned], type)
=============================================================================
