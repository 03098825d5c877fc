---------------------------- MODULE MCTokenAuth -----------------------------
\* A small instance of TokenAuth: rows that are good, that run out, and one whose
\* team member has reached its budget.
EXTENDS TokenAuth

Plain == [MasterRow EXCEPT !.master = FALSE]
RunsOut == [Plain EXCEPT !.left = 1]
MemberAtLimit == [Plain EXCEPT !.team = TRUE,
  !.spend = [Plain.spend EXCEPT !["teamMember"] = 1, !["user"] = 2],
  !.max = [Plain.max EXCEPT !["teamMember"] = 1, !["user"] = 1]]

MCRows == {NoRow, Plain, RunsOut, MemberAtLimit}
=============================================================================
