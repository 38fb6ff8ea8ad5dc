------------------------------- MODULE Codex -------------------------------
(***************************************************************************)
(* One poll of the Codex limits.  It reads auth.json, asks an app-server   *)
(* it starts, then the usage service with the login it read, refreshing    *)
(* that once, then the terminal client.  The app-server refreshes the same  *)
(* login, and one that stops answering is left running.  Tokens are        *)
(* numbers as in Tokens; here a refresh token works once.                  *)
(***************************************************************************)
EXTENDS Naturals, Sequences

CONSTANTS MaxToken,   \* bound: tokens ever issued
          MaxServers, \* bound: app-servers running at once
          MaxPolls,   \* bound: polls
          None

Tokens == 1..MaxToken
NoFile == [kind |-> "absent", access |-> None, refresh |-> None, others |-> FALSE]
ShortFile == [NoFile EXCEPT !.kind = "torn"]
ApiKeyFile == [NoFile EXCEPT !.kind = "api-key", !.others = TRUE]
LoginFile(access, refresh) == [kind |-> "chatgpt", access |-> access,
                               refresh |-> refresh, others |-> TRUE]
LoginFiles == {LoginFile(a, r) : a \in Tokens, r \in Tokens \cup {None}}
Files == {NoFile, ShortFile, ApiKeyFile} \cup LoginFiles

\* resolve_credential_store, for each cli_auth_credentials_store.
Modes == {"file", "keyring", "auto"}
Store(mode, file) ==
    IF mode # "auto" THEN mode
    ELSE IF file.kind # "absent" THEN "auto-file" ELSE "auto-keyring"
PersistsToFile(store) == store \in {"file", "auto-file"}

Sources == {"cli-rpc", "oauth", "oauth-auth", "cli-pty"}
Errors == {"load", "rpc", "says-expired", "refused", "network", "cli"}

\* What an instance must satisfy.
CodexAssumption ==
    /\ MaxToken \in Nat \ {0} /\ MaxServers \in Nat \ {0} /\ MaxPolls \in Nat
    /\ None \notin Nat \cup Errors

VARIABLES mode, forced, \* the settings of Codex
          file,         \* auth.json
          issued, grants, expired,   \* the service
          servers,      \* app-servers running
          held,         \* a login granted to one of them and not yet stored
          pc, poll,     \* the poll's step and its locals
          answer,       \* what the last poll came to
          polls, lost

service == <<issued, grants, expired>>
vars == <<mode, forced, file, service, servers, held, pc, poll, answer, polls, lost>>

NoPoll == [auth |-> NoFile, store |-> "file", loadError |-> None,
           available |-> FALSE, used |-> "unavailable", last |-> None,
           attempts |-> <<>>, error |-> None, granted |-> None, read |-> NoFile]

Poll == [auth : Files, store : {"file", "keyring", "auto-file", "auto-keyring"},
         loadError : {None, "load"}, available : BOOLEAN,
         used : Sources \cup {"unavailable"}, last : Sources \cup {None},
         attempts : UNION {[1..n -> Sources \X BOOLEAN] : n \in 0..4}, error : Errors \cup {None},
         granted : Tokens \cup {None}, read : Files]

TypeOK ==
    /\ mode \in Modes /\ forced \in {None, "chatgpt", "api"}
    /\ file \in Files
    /\ issued \in Tokens /\ grants \in SUBSET Tokens /\ expired \in 0..MaxToken
    /\ servers \in 0..MaxServers /\ held \in Tokens \cup {None}
    /\ pc \in {"idle", "rpc", "oauth", "refresh", "save", "fill", "again", "cli"}
    /\ poll \in Poll /\ answer \in Poll \cup {None}
    /\ polls \in 0..MaxPolls /\ lost \in BOOLEAN

Init ==
    /\ mode \in Modes /\ forced \in {None, "chatgpt", "api"}
    /\ file \in {NoFile, ApiKeyFile, LoginFile(1, 1)}
    /\ issued = 1 /\ grants = {1} /\ expired = 0
    /\ servers = 0 /\ held = None
    /\ pc = "idle" /\ poll = NoPoll /\ answer = None /\ polls = 0 /\ lost = FALSE

-----------------------------------------------------------------------------
(* The sources' outcomes in the poll's locals *)

Tried(p, source, ok) ==
    [p EXCEPT !.attempts = Append(@, <<source, ok>>), !.last = source]

Reached(p, source) ==
    [Tried(p, source, TRUE) EXCEPT !.available = TRUE, !.used = source,
                                   !.error = None]

\* The first error stays, except that the usage service's replaces it.
Missed(p, source, error) ==
    [Tried(p, source, FALSE) EXCEPT
        !.error = IF @ = None \/ source = "oauth" THEN error ELSE @]

\* The login that could not be read is noted as an attempt; the source named
\* last is still the app-server.
NoteLoad(p) ==
    IF p.loadError = None THEN p
    ELSE [p EXCEPT !.attempts = Append(@, <<"oauth-auth", FALSE>>)]

\* build_auth_health, without an API key in the environment.
Health(p) ==
    LET authenticated == p.auth.kind \in {"chatgpt", "api-key"} \/ p.available
        method        == IF p.auth.kind = "api-key" THEN "api" ELSE "chatgpt"
        managed       == forced # None /\ forced # method
    IN  [authenticated |-> authenticated,
         compatible |-> method = "chatgpt" /\ ~managed,
         relogin |-> ~authenticated \/ p.error = "says-expired",
         diagnostic |->
            IF managed THEN "managed-policy"
            ELSE IF ~authenticated THEN "missing-credentials"
            ELSE IF method # "chatgpt" THEN "authenticated-incompatible-source"
            ELSE IF p.error # "says-expired" THEN "authenticated-compatible"
            ELSE IF p.auth.refresh # None THEN "expired-refreshable"
            ELSE "requires-relogin"]

Goto(step, p) == pc' = step /\ poll' = p
Finish(p) == pc' = "idle" /\ poll' = NoPoll /\ answer' = p
Working(step) == pc = step /\ UNCHANGED <<mode, forced, polls>>

-----------------------------------------------------------------------------
(* build_codex_snapshot *)

\* resolve_bootstrap_auth, then the app-server is started.
Begin ==
    /\ pc = "idle" /\ polls < MaxPolls /\ servers < MaxServers
    /\ polls' = polls + 1
    /\ LET store == Store(mode, file)
           readable == file.kind \in {"chatgpt", "api-key"}
           load == IF PersistsToFile(store) /\ ~readable THEN "load" ELSE None
       IN  Goto("rpc", [NoPoll EXCEPT
               !.auth = IF PersistsToFile(store) /\ readable THEN file ELSE NoFile,
               !.store = store, !.loadError = load, !.error = load])
    /\ servers' = servers + 1
    /\ UNCHANGED <<mode, forced, file, service, held, answer, lost>>

\* The app-server is killed after the last answer, in the middle of a refresh
\* when it was slow to give the account.
Kill == /\ servers' = servers - 1
        /\ IF servers = 1 THEN held' = None /\ lost' = (lost \/ held # None)
           ELSE UNCHANGED <<held, lost>>

RpcAnswers ==
    /\ Working("rpc")
    /\ Finish(Reached(poll, "cli-rpc")) /\ Kill
    /\ UNCHANGED <<file, service>>

\* It is not installed, cannot be decoded (after the kill), answers with an
\* error or falls silent; in the last two cases nobody stops it.
RpcFails ==
    /\ Working("rpc")
    /\ \E error \in {"rpc", "says-expired"} :
        LET missed == Missed(poll, "cli-rpc", error)
        IN  IF poll.auth # NoFile THEN Goto("oauth", [missed EXCEPT !.last = "oauth"])
            ELSE Goto("cli", NoteLoad(missed))
    /\ Kill \/ UNCHANGED <<servers, held, lost>>
    /\ UNCHANGED <<file, service, answer>>

Accepted(access) == access # None /\ access > expired

FetchOk ==
    /\ Working("oauth") /\ Accepted(poll.auth.access)
    /\ Finish(Reached(poll, "oauth"))
    /\ UNCHANGED <<file, service, servers, held, lost>>

\* looks_like_oauth_auth_error, and there is a refresh token.
FetchRefused ==
    /\ Working("oauth") /\ ~Accepted(poll.auth.access)
    /\ IF poll.auth.refresh # None THEN Goto("refresh", poll)
       ELSE Goto("cli", Missed(poll, "oauth", "refused"))
    /\ UNCHANGED <<file, service, servers, held, answer, lost>>

FetchFails ==
    /\ Working("oauth")
    /\ Goto("cli", Missed(poll, "oauth", "network"))
    /\ UNCHANGED <<file, service, servers, held, answer, lost>>

Granted(token) ==
    /\ token \in grants /\ issued < MaxToken
    /\ issued' = issued + 1 /\ grants' = (grants \ {token}) \cup {issued'}
    /\ UNCHANGED expired

\* refresh_oauth_token; then the storage is looked up again.
RefreshOk ==
    /\ Working("refresh") /\ Granted(poll.auth.refresh)
    /\ Goto(IF PersistsToFile(Store(mode, file)) THEN "save" ELSE "again",
            [poll EXCEPT !.granted = issued'])
    /\ lost' = (lost \/ ~PersistsToFile(Store(mode, file)))
    /\ UNCHANGED <<file, servers, held, answer>>

\* The first error is the one that counts.
RefreshRefused ==
    /\ Working("refresh")
    /\ poll.auth.refresh \notin grants
    /\ Goto("cli", Missed(poll, "oauth", "refused"))
    /\ UNCHANGED <<file, service, servers, held, answer, lost>>

RefreshFails ==
    /\ Working("refresh")
    /\ \/ Granted(poll.auth.refresh) /\ lost' = TRUE
       \/ UNCHANGED <<service, lost>>
    /\ Goto("cli", Missed(poll, "oauth", "refused"))
    /\ UNCHANGED <<file, servers, held, answer>>

\* persist_refreshed_tokens_to_disk: what is there is read again; if that
\* fails the grant is used and forgotten.
SaveReads ==
    /\ Working("save")
    /\ IF file.kind \in {"chatgpt", "api-key"}
       THEN /\ Goto("fill", [poll EXCEPT !.read = file])
            /\ file' = ShortFile /\ UNCHANGED lost
       ELSE Goto("again", poll) /\ lost' = TRUE /\ UNCHANGED file
    /\ UNCHANGED <<service, servers, held, answer>>

SaveFills ==
    /\ Working("fill")
    /\ file' = [poll.read EXCEPT !.access = poll.granted, !.refresh = poll.granted]
    /\ Goto("again", poll)
    /\ UNCHANGED <<service, servers, held, answer, lost>>

FetchAgain ==
    /\ Working("again")
    /\ \/ Accepted(poll.granted) /\ Finish(Reached(poll, "oauth"))
       \/ Goto("cli", Missed(poll, "oauth", "network")) /\ UNCHANGED answer
    /\ UNCHANGED <<file, service, servers, held, lost>>

\* fetch_cli_status.
AskTerminal ==
    /\ Working("cli")
    /\ \/ Finish(Reached(poll, "cli-pty"))
       \/ Finish(Missed(poll, "cli-pty", "cli"))
    /\ UNCHANGED <<file, service, servers, held, lost>>

Crash ==
    /\ pc # "idle" /\ Goto("idle", NoPoll)
    /\ lost' = (lost \/ pc \in {"refresh", "save", "fill", "again"})
    /\ UNCHANGED <<mode, forced, file, service, servers, held, answer, polls>>

-----------------------------------------------------------------------------
(* Codex itself *)

\* An app-server refreshes the stored login, asked by account/read.
ServerAsks ==
    /\ servers > 0 /\ held = None /\ file.kind = "chatgpt" /\ file.refresh # None
    /\ Granted(file.refresh) /\ held' = issued'
    /\ UNCHANGED <<mode, forced, file, servers, pc, poll, answer, polls, lost>>

ServerStores ==
    /\ held # None /\ held' = None
    /\ file' = LoginFile(held, held)
    /\ UNCHANGED <<mode, forced, service, servers, pc, poll, answer, polls, lost>>

ServerEnds ==
    /\ servers > 0 /\ held = None /\ pc # "rpc" /\ servers' = servers - 1
    /\ UNCHANGED <<mode, forced, file, service, held, pc, poll, answer, polls, lost>>

Login ==
    /\ issued < MaxToken
    /\ issued' = issued + 1 /\ grants' = grants \cup {issued'}
    /\ file' = LoginFile(issued', issued')
    /\ UNCHANGED <<mode, forced, expired, servers, held, pc, poll, answer, polls, lost>>

Expire ==
    /\ expired < issued /\ expired' = expired + 1
    /\ UNCHANGED <<mode, forced, file, issued, grants, servers, held, pc, poll,
                   answer, polls, lost>>

Fetch == FetchOk \/ FetchRefused \/ FetchFails \/ FetchAgain
Refresh == RefreshOk \/ RefreshRefused \/ RefreshFails \/ SaveReads \/ SaveFills

Next ==
    \/ Begin \/ RpcAnswers \/ RpcFails \/ Fetch \/ Refresh \/ AskTerminal \/ Crash
    \/ ServerAsks \/ ServerStores \/ ServerEnds \/ Login \/ Expire

Spec == Init /\ [][Next]_vars

-----------------------------------------------------------------------------
(* Properties *)

\* The answer agrees with its own trace: it names the source whose attempt came
\* last and succeeded, carries an error exactly when none did, and the health
\* shown beside it never asks for a login the sources did not need
\* (resolve_codex_live_data_with, build_auth_health).
AnswerWhole ==
    answer # None =>
        LET tried == answer.attempts[Len(answer.attempts)]
        IN  /\ answer.available = tried[2] /\ answer.available = (answer.error = None)
            /\ answer.last = tried[1]
            /\ answer.used = IF answer.available THEN tried[1] ELSE "unavailable"
            /\ answer.available =>
                Health(answer).authenticated /\ ~Health(answer).relogin

\* However the poll and an app-server it left behind take turns with a login
\* that works once, auth.json ends with one the service still takes, unless a
\* write was cut off (persist_refreshed_tokens_to_disk).
CodexGrantKept ==
    ~lost /\ file.kind = "chatgpt" /\ held = None /\ pc \notin {"save", "fill"} =>
        file.refresh \in grants

-----------------------------------------------------------------------------
(* An invariant of the steps, for the proofs of the two properties *)

\* The trace so far: no source has answered.
Underway ==
    /\ ~poll.available /\ poll.used = "unavailable"
    /\ pc \in {"idle", "rpc"} => Len(poll.attempts) = 0
    /\ pc \in {"oauth", "refresh", "save", "fill", "again"} => Len(poll.attempts) = 1
    /\ pc = "cli" => Len(poll.attempts) \in 1..2
ServerUp == pc = "rpc" => servers > 0

\* A login that was read is still one, unless it was cut short.
LoginRead ==
    /\ poll.auth.kind = "chatgpt" => file.kind \in {"chatgpt", "torn"}
    /\ pc \in {"refresh", "save"} => poll.auth.kind = "chatgpt"
    /\ pc = "refresh" => poll.auth.refresh \in Tokens
    /\ pc = "fill" => poll.read.kind = "chatgpt"

\* No refresh token is known that was not issued.
Issued ==
    /\ grants \subseteq 1..issued
    /\ \A token \in {file.refresh, poll.auth.refresh} : token # None => token <= issued

\* A token granted to the poll or to an app-server is taken, and known to no one
\* else until it is stored.
GrantOwn ==
    /\ held # None => held \in grants /\ held \notin {file.refresh, poll.auth.refresh}
    /\ pc \in {"save", "fill"} =>
         poll.granted \in grants /\ poll.granted \notin {file.refresh, held}

Inv == /\ TypeOK /\ Underway /\ ServerUp /\ LoginRead /\ Issued /\ GrantOwn
       /\ AnswerWhole /\ CodexGrantKept

=============================================================================
