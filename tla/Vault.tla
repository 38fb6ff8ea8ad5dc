------------------------------- MODULE Vault -------------------------------
(***************************************************************************)
(* What the archive promises: a shelf of snapshots.  A snapshot appears    *)
(* whole, newer than every other on the shelf, it is never altered while   *)
(* it stands there, and it leaves the shelf only as a whole.               *)
(***************************************************************************)
EXTENDS Naturals

CONSTANTS Ids,        \* snapshot ids, in the order of their time stamps
          Entries     \* a file of a provider and its content

VARIABLE shelf        \* what a restore would write, of each id on the shelf

TypeOK ==
    /\ DOMAIN shelf \subseteq Ids
    /\ shelf \in [DOMAIN shelf -> SUBSET Entries]

Init == shelf = [i \in {} |-> {}]

Publish(i) ==
    /\ \A j \in DOMAIN shelf : j < i
    /\ \E entries \in SUBSET Entries :
          shelf' = [j \in DOMAIN shelf \cup {i} |-> IF j = i THEN entries ELSE shelf[j]]

Discard(i) ==
    /\ i \in DOMAIN shelf
    /\ shelf' = [j \in DOMAIN shelf \ {i} |-> shelf[j]]

Next == \E i \in Ids : Publish(i) \/ Discard(i)

Spec == Init /\ [][Next]_shelf

=============================================================================
