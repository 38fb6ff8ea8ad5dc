--------------------------- MODULE MCLiveProviders ---------------------------
(* Requests with a background task each. *)
EXTENDS LiveProviders, TLC

CONSTANTS r1, r2, r3, b1, b2, b3

Spawns == r1 :> b1 @@ r2 :> b2 @@ r3 :> b3

Read(scope) == [force |-> FALSE, scope |-> scope]
Refresh(scope) == [force |-> TRUE, scope |-> scope]

\* A read of both providers or of the usage windows, a read or a refresh of one
\* provider, and a refresh of both.
Asks == r1 :> {Read("all"), Read("usage")}
        @@ r2 :> {Read("codex"), Refresh("codex")}
        @@ r3 :> {Refresh("all")}
MCKinds == [q \in Requests |-> Asks[q]]
MCTaskOf == [q \in Requests |-> Spawns[q]]

=============================================================================
