-------------------------------- MODULE MCRows --------------------------------
(* Small values for Rows: four turns of three sessions, a page of each kind, a   *)
(* table of three prices, blocks of up to four turns, logs of up to three records. *)
EXTENDS Rows, Sequences, TLC

CONSTANTS s1, s2, s3, m1, m2, agent1, bash, fetch, srv

\* Four turns of three sessions and two providers, in two files.
MCFiles == <<{{1, 3}, {1, 2, 3}, {2}}, {{}, {4}}>>
MCRow ==
    1 :> [session |-> s1, ts |-> 27, model |-> m1, tokens |-> 3, confidence |-> "high",
           billing |-> "api", version |-> "1", agent |-> None, tier |-> "std",
           tools |-> {bash, fetch}, failed |-> {bash}]
 @@ 2 :> [session |-> s1, ts |-> 28, model |-> m2, tokens |-> 2, confidence |-> "low",
           billing |-> "estimated_local", version |-> None, agent |-> agent1, tier |-> None,
           tools |-> {}, failed |-> {}]
 @@ 3 :> [session |-> s2, ts |-> -1, model |-> m1, tokens |-> 1,
           confidence |-> "medium", billing |-> "api", version |-> "1", agent |-> None,
           tier |-> None, tools |-> {bash}, failed |-> {}]
 @@ 4 :> [session |-> s3, ts |-> 30, model |-> m2, tokens |-> 4, confidence |-> "high",
           billing |-> "api", version |-> "1", agent |-> None, tier |-> None,
           tools |-> {fetch}, failed |-> {fetch}]
MCHome ==
    s1 :> [provider |-> "claude", project |-> "a", branch |-> "main", entry |-> "cli"]
 @@ s2 :> [provider |-> "claude", project |-> "b", branch |-> None, entry |-> "sdk"]
 @@ s3 :> [provider |-> "codex", project |-> "a", branch |-> "main", entry |-> "cli"]
MCServer == bash :> None @@ fetch :> srv
MCRate == [k \in {m1, m2} \X {1, 2} |->
    [low |-> 2 * k[2], high |-> 1, threshold |-> IF k[1] = m1 THEN 2 ELSE 0]]

\* In UTC and two hours west; the history of a provider is read there alone.
MCQueries ==
    {[provider |-> "claude", offset |-> 0, local |-> 1, since |-> 6, today |-> 7,
      sow |-> 7, period |-> "all"],
     [provider |-> "claude", offset |-> -2, local |-> -2, since |-> 6, today |-> 6,
      sow |-> 0, period |-> "today"]}

\* Logs: what tells the rules of a provider apart, one line or entry at a time.
Line(what, id, to, tokens) == [what |-> what, id |-> id, to |-> to, tokens |-> tokens]
MCLines ==
    [codex |-> {Line("context", 1, 1, 0), Line("started", 0, 0, 0),
                Line("count", 0, 0, 3), Line("count", 0, 0, 0)},
     pi |-> {Line("response", 1, 0, 2), Line("response", 1, 0, 3),
             Line("response", 1, 0, 0), Line("response", 0, 0, 2)},
     amp |-> {Line("event", 1, 5, 2), Line("event", 1, 0, 3), Line("event", 2, 5, 0),
              Line("message", 5, 0, 4), Line("event", 0, 0, 2)},
     opencode |-> {Line("row", 1, 3, 2), Line("row", 1, 3, 0), Line("row", 1, 4, 2),
                   Line("row", 0, 3, 2)},
     cursor |-> {Line("ai", 1, 0, 2), Line("ai", 0, 0, 3), Line("user", 0, 0, 2),
                 Line("ai", 2, 0, 0)},
     copilot |-> {Line("record", 1, 0, 2), Line("record", 0, 0, 3), Line("record", 2, 0, 0)}]

\* Prices: two entries of the table, one the prefix of the other, and a family whose
\* newest model only a page has.
Rates(in, out, limit, above) == [in |-> in, out |-> out, limit |-> limit, above |-> above]
MCBuiltIn == (<<"gpt">> :> Rates(2, 4, 3, 2)) @@ (<<"gpt", "mini">> :> Rates(1, 2, 0, 0))
                @@ (<<"claude", "opus", "6">> :> Rates(3, 6, 0, 0))
MCFamilies == <<"opus">>
MCStandard == [opus |-> <<"claude", "opus", "6">>]
MCNewest == [opus |-> <<<<"claude", "opus", "7">>, <<"claude", "opus", "6">>>>]
MCSlugs == <<"marketing", "docs">>
Priced(name, price) == [name |-> name, price |-> price]
MCOffers ==
    [marketing |-> {<<Priced(<<"claude", "opus", "6">>, Rates(3, 6, 0, 0))>>,
                    <<Priced(<<"claude", "opus", "6">>, Rates(4, 6, 0, 0))>>},
     docs |-> {<<Priced(<<"claude", "opus", "7">>, Rates(5, 6, 0, 0)),
                 Priced(<<"gpt">>, Rates(3, 4, 0, 0))>>}]
MCOverrides == {<<>>, <<"opus">> :> Rates(7, 7, 0, 0)}
MCListings == {<<"other">> :> Rates(9, 9, 0, 0)}
MCModels == {<<"gpt", "mini", "new">>, <<"opus">>, <<"other">>}
MCAmounts == {[in |-> 3, out |-> 2]}

\* Official pages: one source of each kind; those whose answers matter to the
\* counts may be down, unreadable or short.
Source(slug, kind, provider) == [slug |-> slug, kind |-> kind, provider |-> provider]
MCOfficialSources ==
    <<Source("openai_api_docs", "pricing", "openai"),
      Source("anthropic_api_docs", "pricing", "anthropic"),
      Source("openai_models", "catalog", "openai"),
      Source("release_notes", "notes", "anthropic"),
      Source("openai_status", "status_summary", "openai"),
      Source("anthropic_status", "status_summary", "anthropic"),
      Source("frankfurter", "rates", "frankfurter"),
      Source("openai_usage_api", "usage_reconciliation", "openai")>>

Up(body) == [up |-> TRUE, body |-> body]
Off == [up |-> FALSE, body |-> <<>>]
Listed(model, numbers) == [model |-> model, numbers |-> numbers]
Note(said, splits) == [date |-> "may", title |-> "t", said |-> said, splits |-> splits,
                       words |-> {"pricing", "launch"}, gpts |-> <<"gpt">>,
                       claudes |-> <<"opus", "opus">>]
Incident(name, resolved) == [name |-> name, resolved |-> resolved]
Status(parsed, incidents) == [parsed |-> parsed, indicator |-> "odd", parts |-> {"code", "web"},
                              incidents |-> incidents]
Usage(key, broken, pages) == [key |-> key, broken |-> broken, pages |-> pages]
Usages(model, more, next) == [model |-> model, tokens |-> 2, more |-> more, next |-> next]

MCPages == [
    openai_api_docs |->
        {Up([lines |-> <<Listed("mini", <<1, 1, 4>>), Listed("gpt", <<2, 1, 8, 4, 2, 16>>)>>,
             marks |-> {<<"batch", "gpt">>}, tools |-> {"web"}])},
    anthropic_api_docs |->
        {Off, Up([lines |-> <<Listed("opus", <<3, 4, 5, 1, 9>>)>>,
                  marks |-> {<<"deprecated", "opus">>, <<"batch", "all">>}, tools |-> {}]),
         Up([lines |-> <<Listed("opus", <<3>>)>>, marks |-> {}, tools |-> {"bash"}])},
    openai_models |-> {Up([named |-> <<"gpt", "mini", "gpt">>])},
    release_notes |->
        {Off, Up([sections |-> <<Note(FALSE, TRUE), Note(TRUE, FALSE), Note(TRUE, TRUE)>>]),
         Up([sections |-> <<Note(TRUE, TRUE)>>])},
    openai_status |->
        {Off, Up(Status(TRUE, <<Incident("a", FALSE), Incident("b", TRUE)>>)),
         Up(Status(FALSE, <<>>))},
    anthropic_status |-> {Up(Status(TRUE, <<Incident("c", FALSE)>>))},
    frankfurter |-> {Up([timed |-> FALSE, rates |-> <<"eur">>])},
    openai_usage_api |->
        {Up(Usage(FALSE, FALSE, <<>>)), Up(Usage(TRUE, TRUE, <<>>)),
         Up(Usage(TRUE, FALSE, <<Usages("codex", TRUE, TRUE), Usages("codex", TRUE, FALSE),
                                 Usages("codex", FALSE, FALSE)>>))}]

MCListedGpt == <<[model |-> "gpt", long |-> TRUE], [model |-> "mini", long |-> FALSE],
                 [model |-> "nano", long |-> FALSE]>>
MCListedTools == [openai |-> <<"web", "file">>, anthropic |-> <<"bash">>]

\* Waste: a file read, or changed, a command in two spellings, a server.
Call(tool, arg) == [tool |-> tool, arg |-> arg]
MCCalls == {Call("Read", "f"), Call("Edit", "f"), Call("Bash", "ls -l"), Call("Bash", "ls"),
            Call("db", "")}
MCTrivial == "ls" :> "ls" @@ "ls -l" :> "ls"

=============================================================================
