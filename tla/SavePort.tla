------------------------------ MODULE SavePort ------------------------------
(***************************************************************************)
(* What PeriscopeStore.save promises the recorder: each call is answered   *)
(* once, and the rows of a call reach the store together or not at all.    *)
(*                                                                         *)
(* An honest driver (sqlite-local) resolves exactly the calls whose rows   *)
(* it committed and rejects the others, which the recorder requeues.  The  *)
(* database driver answers every call with success: rows may land before   *)
(* the answer, or never.                                                   *)
(***************************************************************************)
EXTENDS Naturals

CONSTANTS Saves,    \* identities of the save calls
          Rows,     \* identities of the rows
          Honest    \* whether a resolved call is a committed one

VARIABLES answer,   \* what each call was told
          rows,     \* the rows each call carries
          file      \* the rows the store holds

vars == <<answer, rows, file>>

Init ==
    /\ answer = [s \in Saves |-> "unsent"]
    /\ rows = [s \in Saves |-> {}]
    /\ file = {}

Waiting == {s \in Saves : answer[s] = "waiting"}
RowsOf(S) == UNION {rows[s] : s \in S}
Told(S, what) == [s \in Saves |-> IF s \in S THEN what ELSE answer[s]]
Refusal == IF Honest THEN "rejected" ELSE "resolved"

\* A call arrives; a full backlog may push an older one out.
Submit(s, batch, evicted) ==
    /\ answer[s] = "unsent"
    /\ answer' = [Told(evicted, Refusal) EXCEPT ![s] = "waiting"]
    /\ rows' = [rows EXCEPT ![s] = batch]
    /\ UNCHANGED file

\* Calls are committed and told so.
Commit(S) ==
    /\ file' = file \cup RowsOf(S)
    /\ answer' = Told(S, "resolved")
    /\ UNCHANGED rows

\* Rows land although the call is not answered yet.
Land(S) ==
    /\ ~Honest
    /\ file' = file \cup RowsOf(S)
    /\ UNCHANGED <<answer, rows>>

\* Calls are given up.
GiveUp(S) ==
    /\ answer' = Told(S, Refusal)
    /\ UNCHANGED <<rows, file>>

\* The process that made the calls is gone.
Vanish(S) ==
    /\ answer' = Told(S, "gone")
    /\ UNCHANGED <<rows, file>>

\* prune, trim and clear only ever remove rows.
Delete ==
    /\ file' \in SUBSET file
    /\ UNCHANGED <<answer, rows>>

Next ==
    \/ \E s \in Saves, batch \in SUBSET Rows, evicted \in SUBSET Waiting :
          Submit(s, batch, evicted)
    \/ \E S \in SUBSET Waiting : Commit(S) \/ Land(S) \/ GiveUp(S) \/ Vanish(S)
    \/ Delete

Spec == Init /\ [][Next]_vars
=============================================================================
