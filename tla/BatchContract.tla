---------------------------- MODULE BatchContract ----------------------------
(***************************************************************************)
(* What every owner of a batch promises the recorder, whatever bounds the  *)
(* unit of work: fragments may stream out while the work runs, but only of *)
(* a batch that is kept; the end of the work is described once; and only   *)
(* then one final decision is taken, which may keep a batch that sampling  *)
(* left out.                                                               *)
(***************************************************************************)
EXTENDS Naturals

CONSTANTS Batches

VARIABLES described,  \* the owner reported the end of the work
          decided,    \* final decisions taken
          kept,       \* the batch may be stored
          published   \* the store holds rows of it

vars == <<described, decided, kept, published>>

Init ==
    /\ described = [b \in Batches |-> FALSE]
    /\ decided = [b \in Batches |-> 0]
    /\ kept \in [Batches -> BOOLEAN]
    /\ published = [b \in Batches |-> FALSE]

Describe(b) ==
    /\ ~described[b]
    /\ decided[b] = 0
    /\ described' = [described EXCEPT ![b] = TRUE]
    /\ UNCHANGED <<decided, kept, published>>

Decide(b) ==
    /\ described[b]
    /\ decided[b] = 0
    /\ decided' = [decided EXCEPT ![b] = 1]
    /\ kept' \in {[kept EXCEPT ![b] = @ \/ more] : more \in BOOLEAN}
    /\ UNCHANGED <<described, published>>

Publish(b) ==
    /\ kept[b]
    /\ published' = [published EXCEPT ![b] = TRUE]
    /\ UNCHANGED <<described, decided, kept>>

Next == \E b \in Batches : Describe(b) \/ Decide(b) \/ Publish(b)

Spec == Init /\ [][Next]_vars

=============================================================================
