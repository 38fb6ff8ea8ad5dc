------------------------------- MODULE Tokens -------------------------------
(***************************************************************************)
(* Polls of the Claude usage windows and the stored login they use.  Claude *)
(* Code writes a login to the macOS keychain or to a file; processes of    *)
(* this program read it there, refresh it when its access token has        *)
(* expired, and write what the service grants back to where it came from.  *)
(* A refresh token is a number; the service may take it once only.  Access *)
(* tokens expire in the order they were issued.                            *)
(***************************************************************************)
EXTENDS Naturals, FiniteSets

CONSTANTS Procs,      \* processes that poll
          MaxToken,   \* bound: tokens ever issued
          MaxLocks,   \* bound: changes to the keychain's lock
          Rotates,    \* the service replaces a refresh token that is used
          None

Stores == {"keychain", "file"}
Tokens == 1..MaxToken
\* What a store holds: the login, in the claudeAiOauth section or at the top
\* level, and whether the other sections are still there.
Login == [access : Tokens, refresh : Tokens \cup {None}, wrapped : BOOLEAN,
          others : BOOLEAN]
\* A file cut short.
Torn == [access |-> 0, refresh |-> None, wrapped |-> FALSE, others |-> FALSE]

\* What an instance must satisfy.
TokensAssumption ==
    /\ MaxToken \in Nat \ {0} /\ MaxLocks \in Nat /\ Rotates \in BOOLEAN
    /\ None \notin Nat \cup Login \cup {Torn}

\* The settings that take precedence over a stored login, in this order.
Overrides == <<"cloud-provider", "auth-token", "api-key", "api-key-helper",
               "oauth-token">>

VARIABLES stored,     \* each store's content, None when there is none
          locked,     \* the keychain refuses to be read
          locks,      \* how often that changed
          overrides,  \* the indices of the overrides in force
          issued,     \* the newest token
          grants,     \* the refresh tokens the service still takes
          expired,    \* the newest expired access token
          pc, job,    \* each process: its step and its locals
          answer,     \* each process: what its last poll came to
          lost        \* an answer or a write was cut off

service == <<issued, grants, expired>>
setup == <<locked, locks, overrides>>
vars == <<stored, setup, service, pc, job, answer, lost>>

NoJob == [login |-> None, from |-> "file", access |-> None, refresh |-> None,
          contents |-> None]
Job == [login : Login \cup {None}, from : Stores, access : Tokens \cup {None},
        refresh : Tokens \cup {None}, contents : Login \cup {None, Torn}]
Answers == {"none", "windows", "keychain-locked", "missing-credentials", "relogin"}
           \cup {Overrides[i] : i \in DOMAIN Overrides}

TypeOK ==
    /\ stored \in [Stores -> Login \cup {None, Torn}]
    /\ locked \in BOOLEAN /\ locks \in 0..MaxLocks
    /\ overrides \in SUBSET DOMAIN Overrides
    /\ issued \in Tokens /\ grants \in SUBSET Tokens /\ expired \in 0..MaxToken
    /\ pc \in [Procs -> {"idle", "ask", "save", "write", "fill"}]
    /\ job \in [Procs -> Job]
    /\ answer \in [Procs -> Answers]
    /\ lost \in BOOLEAN

FirstLogin == [access |-> 1, refresh |-> 1, wrapped |-> TRUE, others |-> TRUE]

Init ==
    /\ \E s \in Stores : stored = [x \in Stores |-> IF x = s THEN FirstLogin ELSE None]
    /\ locked = FALSE /\ locks = 0
    /\ overrides \in {{}} \cup {{i} : i \in DOMAIN Overrides}
    /\ issued = 1 /\ grants = {1} /\ expired = 0
    /\ pc = [p \in Procs |-> "idle"] /\ job = [p \in Procs |-> NoJob]
    /\ answer = [p \in Procs |-> "none"]
    /\ lost = FALSE

Goto(p, step) == pc' = [pc EXCEPT ![p] = step]
Reply(p, a) ==
    /\ answer' = [answer EXCEPT ![p] = a]
    /\ Goto(p, "idle")
    /\ job' = [job EXCEPT ![p] = NoJob]

-----------------------------------------------------------------------------
(* resolve_auth *)

\* A keychain secret may be the section itself; a file must have the section.
FromKeychain == IF locked THEN None ELSE stored["keychain"]
FromFile == IF stored["file"] \in Login /\ stored["file"].wrapped
            THEN stored["file"] ELSE None

\* The first override in force masks the stored logins and those after it.
Override == overrides # {}
Masking == Overrides[CHOOSE i \in overrides : \A j \in overrides : i <= j]
Missing == IF locked THEN "keychain-locked" ELSE "missing-credentials"

\* The keychain goes before the file.
Resolved == IF FromKeychain # None
            THEN [login |-> FromKeychain, from |-> "keychain"]
            ELSE [login |-> FromFile, from |-> "file"]

\* is_token_valid.
Valid(login) == login.access > expired

\* oauth_health: requires_relogin.
RequiresRelogin(login) == ~Valid(login) /\ login.refresh = None

-----------------------------------------------------------------------------
(* poll_usage *)

PollOverridden(p) ==
    /\ pc[p] = "idle" /\ Override
    /\ Reply(p, Masking)
    /\ UNCHANGED <<stored, setup, service, lost>>

PollMissing(p) ==
    /\ pc[p] = "idle" /\ ~Override /\ Resolved.login = None
    /\ Reply(p, Missing)
    /\ UNCHANGED <<stored, setup, service, lost>>

\* The access token is good: fetch_usage.
PollValid(p) ==
    /\ pc[p] = "idle" /\ ~Override
    /\ Resolved.login # None /\ Valid(Resolved.login)
    /\ Reply(p, "windows")
    /\ UNCHANGED <<stored, setup, service, lost>>

PollRelogin(p) ==
    /\ pc[p] = "idle" /\ ~Override
    /\ Resolved.login # None /\ RequiresRelogin(Resolved.login)
    /\ Reply(p, "relogin")
    /\ UNCHANGED <<stored, setup, service, lost>>

PollExpired(p) ==
    /\ pc[p] = "idle" /\ ~Override
    /\ Resolved.login # None /\ ~Valid(Resolved.login)
    /\ Resolved.login.refresh # None
    /\ job' = [job EXCEPT ![p] = [NoJob EXCEPT !.login = Resolved.login,
                                               !.from = Resolved.from]]
    /\ Goto(p, "ask")
    /\ UNCHANGED <<stored, setup, service, answer, lost>>

-----------------------------------------------------------------------------
(* refresh_token_with_store *)

\* The service takes a refresh token that is still live and grants a new pair,
\* or a new access token only.
Granted(token) ==
    /\ token \in grants /\ issued < MaxToken
    /\ issued' = issued + 1
    /\ grants' = IF Rotates THEN (grants \ {token}) \cup {issued'} ELSE grants
    /\ UNCHANGED expired

Grant(p) ==
    /\ pc[p] = "ask" /\ Granted(job[p].login.refresh)
    /\ job' = [job EXCEPT ![p].access = issued',
                          ![p].refresh = IF Rotates THEN issued' ELSE None]
    /\ Goto(p, "save")
    /\ UNCHANGED <<stored, setup, answer, lost>>

\* The grant is made and its answer never arrives.
AnswerLost(p) ==
    /\ pc[p] = "ask" /\ Granted(job[p].login.refresh)
    /\ lost' = TRUE
    /\ Reply(p, "relogin")
    /\ UNCHANGED <<stored, setup>>

\* Mutated form: a refused token is taken out of the store.
RefusedForget(p) ==
    /\ pc[p] = "ask" /\ job[p].login.refresh \notin grants
    /\ stored' = [stored EXCEPT ![job[p].from] = None]
    /\ Reply(p, "relogin")
    /\ UNCHANGED <<setup, service, lost>>

\* invalid_grant: someone else has used the token.  Nothing is written.
Refused(p) ==
    /\ pc[p] = "ask" /\ job[p].login.refresh \notin grants
    /\ Reply(p, "relogin")
    /\ UNCHANGED <<stored, setup, service, lost>>

-----------------------------------------------------------------------------
(* persist_refreshed_credentials *)

\* The content is read again; the keychain must give it and keep its entry.
ReadStore(p) ==
    /\ pc[p] = "save"
    /\ job[p].from = "keychain" => ~locked /\ stored["keychain"] # None
    /\ job' = [job EXCEPT ![p].contents = stored[job[p].from]]
    /\ Goto(p, "write")
    /\ UNCHANGED <<stored, setup, service, answer, lost>>

\* build_refreshed_credentials_json: the new tokens over the content read; what
\* could not be read counts as an empty object.
Built(contents, access, refresh) ==
    IF contents \in Login
    THEN [contents EXCEPT !.access = access,
                          !.refresh = IF refresh = None THEN @ ELSE refresh]
    ELSE [access |-> access, refresh |-> refresh, wrapped |-> FALSE, others |-> FALSE]

\* A file is cut to nothing and then filled; the keychain changes at once.
Truncate(p) ==
    /\ pc[p] = "write" /\ job[p].from = "file"
    /\ stored' = [stored EXCEPT !["file"] = Torn]
    /\ Goto(p, "fill")
    /\ UNCHANGED <<setup, service, job, answer, lost>>

WriteStore(p) ==
    /\ \/ pc[p] = "fill"
       \/ pc[p] = "write" /\ job[p].from = "keychain" /\ ~locked
    /\ stored' = [stored EXCEPT ![job[p].from] =
                     Built(job[p].contents, job[p].access, job[p].refresh)]
    /\ Reply(p, "windows")
    /\ UNCHANGED <<setup, service, lost>>

\* The write fails: the token is used all the same and the grant is forgotten.
WriteFails(p) ==
    /\ pc[p] \in {"save", "write", "fill"}
    /\ lost' = TRUE
    /\ Reply(p, "windows")
    /\ UNCHANGED <<stored, setup, service>>

Crash(p) ==
    /\ pc[p] # "idle"
    /\ lost' = (lost \/ pc[p] # "ask")
    /\ Goto(p, "idle")
    /\ job' = [job EXCEPT ![p] = NoJob]
    /\ UNCHANGED <<stored, setup, service, answer>>

-----------------------------------------------------------------------------
(* Claude Code, the keychain and the clock *)

\* Claude Code refreshes the stored login itself, or the user logs in again.
ClaudeRefresh(s) ==
    /\ stored[s] \in Login /\ stored[s].refresh # None
    /\ Granted(stored[s].refresh)
    /\ stored' = [stored EXCEPT ![s].access = issued',
                                ![s].refresh = IF Rotates THEN issued' ELSE @]
    /\ UNCHANGED <<setup, pc, job, answer, lost>>

ClaudeLogin(s) ==
    /\ issued < MaxToken
    /\ issued' = issued + 1 /\ grants' = grants \cup {issued'}
    /\ stored' = [stored EXCEPT ![s] = [access |-> issued', refresh |-> issued',
                                        wrapped |-> TRUE, others |-> TRUE]]
    /\ UNCHANGED <<expired, setup, pc, job, answer, lost>>

Expire ==
    /\ expired < issued /\ expired' = expired + 1
    /\ UNCHANGED <<stored, setup, issued, grants, pc, job, answer, lost>>

LockKeychain ==
    /\ locks < MaxLocks /\ locks' = locks + 1
    /\ locked' = ~locked
    /\ UNCHANGED <<stored, overrides, service, pc, job, answer, lost>>

Poll(p) ==
    \/ PollOverridden(p) \/ PollMissing(p) \/ PollValid(p) \/ PollRelogin(p)
    \/ PollExpired(p)

Refresh(p) ==
    \/ Grant(p) \/ AnswerLost(p) \/ Refused(p)
    \/ ReadStore(p) \/ Truncate(p) \/ WriteStore(p) \/ WriteFails(p)

Next ==
    \/ \E p \in Procs : Poll(p) \/ Refresh(p) \/ Crash(p)
    \/ \E s \in Stores : ClaudeRefresh(s) \/ ClaudeLogin(s)
    \/ Expire \/ LockKeychain

Spec == Init /\ [][Next]_vars

-----------------------------------------------------------------------------
(* Properties *)

\* Unless an answer or a write was cut off, some store holds a login the service
\* still takes as soon as no process is between the service's answer and its
\* own write: of processes that refresh one login only the one that was granted
\* it writes (refresh_token_with_store).
GrantKept ==
    ~lost /\ (\A p \in Procs : pc[p] \in {"idle", "ask"}) =>
        \E s \in Stores : stored[s] \in Login /\ stored[s].refresh \in grants

\* The other sections of the credentials survive every write
\* (write_refreshed_credentials: "Preserves any other top-level keys").
OthersKept == \A s \in Stores : stored[s] \in Login => stored[s].others

-----------------------------------------------------------------------------
(* An invariant of the steps, for the proof of GrantKept *)

Saving == {"save", "write", "fill"}

\* What a process has in hand at each step.
InHand ==
    \A p \in Procs :
        /\ pc[p] = "ask" => job[p].login \in Login /\ job[p].login.refresh \in Tokens
        /\ pc[p] \in Saving => job[p].access \in Tokens /\ job[p].refresh \in grants
OneOverride == \A i, j \in overrides : i = j

\* No refresh token is known that was not issued.
Issued ==
    /\ grants \subseteq 1..issued
    /\ \A s \in Stores : stored[s] \in Login =>
          stored[s].refresh \in 1..issued \cup {None}
    /\ \A p \in Procs : pc[p] = "ask" => job[p].login.refresh <= issued

\* A token granted to a process is known to no one else until it is written.
GrantOwn ==
    \A p \in Procs : pc[p] \in Saving =>
        /\ \A s \in Stores : stored[s] \in Login => stored[s].refresh # job[p].refresh
        /\ \A q \in Procs :
              /\ pc[q] = "ask" => job[q].login.refresh # job[p].refresh
              /\ q # p /\ pc[q] \in Saving => job[q].refresh # job[p].refresh

\* A login that is taken is stored or about to be.
LiveSomewhere ==
    ~lost => \/ \E s \in Stores : stored[s] \in Login /\ stored[s].refresh \in grants
             \/ \E p \in Procs : pc[p] \in Saving

Inv == TypeOK /\ InHand /\ OneOverride /\ Issued /\ GrantOwn /\ LiveSomewhere

=============================================================================
