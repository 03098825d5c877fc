---------------------------- MODULE SpendLedger ----------------------------
(***************************************************************************)
(* What the spend logger promises about money, without saying how.         *)
(*                                                                         *)
(* A completed API call hands one entry (its request_id) to the logger.    *)
(* An entry is accepted or refused, once.  An accepted entry may become a  *)
(* row of LiteLLM_SpendLogs; in the transaction that writes the row its    *)
(* amount may be added to the spend of its key, user and team; and each    *)
(* daily table may count the row.  Nothing is ever counted twice, nothing  *)
(* is counted that has no row, and a refused entry never gets a row.       *)
(***************************************************************************)
EXTENDS Naturals

CONSTANTS Entries,      \* request_ids
          Aggregators   \* the daily tables

VARIABLES accepted,  \* entries Log() returned nil for
          refused,   \* entries Log() returned ErrQueueFull for
          rows,      \* rows of LiteLLM_SpendLogs
          spent,     \* how often an entry's amount was added to the counters
          daily      \* how often a daily table counted an entry

ledgerVars == <<accepted, refused, rows, spent, daily>>

LedgerInit ==
    /\ accepted = {}
    /\ refused = {}
    /\ rows = {}
    /\ spent = [e \in Entries |-> 0]
    /\ daily = [a \in Aggregators |-> [e \in Entries |-> 0]]

\* One more for every member of S.
Bump(f, S) == [e \in Entries |-> IF e \in S THEN f[e] + 1 ELSE f[e]]

\* Entries are accepted, one or several in a step: a receive from the full
\* queue also admits a blocked caller.
Accept(e) ==
    /\ e \notin accepted \cup refused
    /\ accepted' = accepted \cup {e}
    /\ UNCHANGED <<refused, rows, spent, daily>>

Refuse(e) ==
    /\ e \notin accepted \cup refused
    /\ refused' = refused \cup {e}
    /\ UNCHANGED <<accepted, rows, spent, daily>>

\* A committed transaction: new rows S, of which C are charged.
Record(S, C) ==
    /\ S \subseteq accepted \ rows
    /\ C \subseteq S
    /\ rows' = rows \cup S
    /\ spent' = Bump(spent, C)
    /\ UNCHANGED <<accepted, refused, daily>>

\* One aggregation job: table a counts the rows D[a], none of which any table
\* has counted before.
Post(D) ==
    /\ \A a \in Aggregators : D[a] \subseteq rows
    /\ \A a \in Aggregators : \A e \in D[a] : daily[a][e] = 0
    /\ daily' = [a \in Aggregators |-> Bump(daily[a], D[a])]
    /\ UNCHANGED <<accepted, refused, rows, spent>>

LedgerNext ==
    \/ \E e \in Entries : Accept(e) \/ Refuse(e)
    \/ \E S \in SUBSET Entries : \E C \in SUBSET S : Record(S, C)
    \/ \E D \in [Aggregators -> SUBSET Entries] : Post(D)

LedgerSpec == LedgerInit /\ [][LedgerNext]_ledgerVars
=============================================================================
