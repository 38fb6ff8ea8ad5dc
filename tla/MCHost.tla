-------------------------------- MODULE MCHost --------------------------------
(* Small values for Host: two conversations in three cache files, one of which  *)
(* cannot be parsed and one not decrypted; three exports, one of no known       *)
(* vendor and one its parser cannot read; and what /usage may print.            *)
EXTENDS Host, TLC

CONSTANTS c1, c2, f1, f2, f3, z1, z2, z3, d1, d2

MCCached == f1 :> {c1, c2} @@ f2 :> {"garbage"} @@ f3 :> {"sealed"}
MCVendor == z1 :> "openai" @@ z2 :> "unknown" @@ z3 :> "openai"
MCHolds == z1 :> {d1, d2} @@ z2 :> {} @@ z3 :> {d1}

\* What /usage may print: no factor, two of which one has advice, one alone.
Printed(kind, says) == [kind |-> kind, says |-> says]
MCOutputs ==
    {<<Printed("text", "x")>>,
     <<Printed("factor", "a"), Printed("blank", "-"), Printed("text", "x"),
       Printed("blank", "-"), Printed("text", "y"), Printed("factor", "b")>>,
     <<Printed("factor", "c")>>}

=============================================================================
