------------------------------- MODULE MCScan -------------------------------
(* Small transcripts for Scan. *)
EXTENDS Scan, TLC

CONSTANTS s1, s2, m1, m2, m3, u1, u2, scanner1, scanner2, opener

Asst(s, ts, m, cost, tools) ==
    [kind |-> "assistant", session |-> s, ts |-> ts, msg |-> m, cost |-> cost,
     tools |-> tools]
User(s, ts) == [kind |-> "user", session |-> s, ts |-> ts, msg |-> NoId, cost |-> 0,
                tools |-> <<>>]
Title(s)    == [User(s, 0) EXCEPT !.kind = "title"]

\* A message streamed in two records, the second with a further tool.
Chunk1 == Asst(s1, 2, m1, 4, <<u1>>)
Chunk2 == Asst(s1, 3, m1, 7, <<u1, u2>>)
Legacy == Asst(s1, 4, NoId, 1, <<>>)
Other  == Asst(s2, 5, m2, 3, <<>>)

\* Each session in a file of its own.
OwnSessions == (1 :> { <<User(s1, 1), Chunk1>>,
                       <<User(s1, 1), Chunk1, Chunk2, Legacy>>,
                       <<Legacy, Title(s1)>> })
            @@ (2 :> { <<Other>>, <<User(s2, 5)>> })

\* The second file is a forked session: it has the message of the first.
Fork1 == [Chunk1 EXCEPT !.session = s2]
ForkedFiles == (1 :> {<<Chunk1>>}) @@ (2 :> {<<Fork1>>})

\* The same as they grow, every record with an id of its own.
GrowingFiles == (1 :> { <<User(s1, 1), Chunk1>>,
                        <<User(s1, 1), Chunk1, Asst(s1, 4, m2, 2, <<u2>>)>> })
             @@ (2 :> { <<Fork1>>, <<Fork1, Asst(s2, 5, m3, 3, <<>>), Title(s2)>> })

\* Two scanners are alike.
Symm == Permutations(Scanners)

=============================================================================
