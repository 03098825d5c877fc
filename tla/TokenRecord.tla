---------------------------- MODULE TokenRecord -----------------------------
(***************************************************************************)
(* What a client's key may do, by its row in the database (models.go) and  *)
(* by its metadata (proxy/scope.go).                                       *)
(***************************************************************************)
EXTENDS Integers

CONSTANTS
  Unset,    \* a column that is NULL
  Forever   \* the time left to a key without an expiry

\* The budgets in the order of Validate: of the key, its team, the member of
\* the team, the organization, the user and the member of the organization.
Levels == {"key", "team", "teamMember", "org", "user", "orgMember"}
Embedded == {"key", "team", "user"}

\* The row of a client's key, as the joined query reads it.
Amount == Int \cup {Unset}
ClientRow == [master : {FALSE}, blocked : BOOLEAN, left : Nat \cup {Forever}, team : BOOLEAN,
              spend : [Levels -> Amount], max : [Levels -> Amount]]

\* A budget in the row of the key, its team or its user may be used up; one in
\* the budget table may not even be reached.  A personal key only has its
\* user's, and an organization's budget of nothing is none.
Exceeded(info, level) ==
  LET spend == info.spend[level]
      max == info.max[level]
  IN  /\ spend # Unset /\ max # Unset
      /\ level = "user" => ~info.team
      /\ level = "org" => max > 0
      /\ IF level \in Embedded THEN spend > max ELSE spend >= max

\* TokenInfo.Validate without a model, as it is always called.
Validate(info) ==
  IF info.blocked THEN "blocked"
  ELSE IF info.left = 0 THEN "expired"
  ELSE IF \E level \in Levels : Exceeded(info, level) THEN "budget"
  ELSE "ok"
=============================================================================
