---------------------------- MODULE MarketSession ----------------------------
(***************************************************************************)
(* The marketplace session: one file with an access and a refresh token,    *)
(* and the commands that send authenticated requests with it, several at a  *)
(* time.  The server issues the two tokens as a pair, numbered here; an     *)
(* access token expires, a refresh token is good for one trade.             *)
(*                                                                          *)
(* A command is what it may send: a number of authenticated requests, each  *)
(* made only when the answer to the one before suited it.  A command that   *)
(* stops before its first request changes nothing and is no step here.      *)
(* Saving the session is one step: what its shared temporary name can do    *)
(* is the subject of FixedTmpFile.                                          *)
(***************************************************************************)
EXTENDS Naturals

CONSTANTS
    Procs,        \* commands that may run at the same time
    None,         \* no session file, no token
    MaxPairs,     \* bound on the token pairs the server issues
    MaxPurchases  \* bound on the purchases a sweep finds to claim

ASSUME SessionAssumption ==
    /\ MaxPairs \in Nat \ {0} /\ MaxPurchases \in Nat
    /\ None \notin Nat

Pairs == 1 .. MaxPairs

\* The bearer of RAILCALL_MARKETPLACE_TOKEN and that of RAILCALL_API_KEY.
EnvToken == 0
ApiKey == MaxPairs + 1

Bearers == 0 .. MaxPairs + 1

Credentials == {"session", "env", "key"}

VARIABLES
    session,      \* the pair in marketplace_session.json
    live,         \* pairs whose refresh token the server takes
    fresh,        \* bearers the server accepts
    issued,       \* pairs issued so far
    pc,           \* where each command is
    cred,         \* what each command authenticates with
    left,         \* its requests still to make, the present one included
    mode,         \* "chain", or a sweep that is listing or claiming
    loaded,       \* the session a refresh or a logout has read
    answer,       \* to the present request
    effects,      \* how often the server has carried out the present request
    calm          \* no refresh went unanswered, no two commands were at the
                  \* session file together (history)

server == <<live, fresh, issued>>
local == <<cred, left, mode, loaded, answer, effects>>
vars == <<session, server, pc, local, calm>>

Init ==
    /\ session \in {None, 1}
    /\ live = {1}
    /\ fresh \in {{1}, {1, EnvToken, ApiKey}}
    /\ issued = 1
    /\ pc = [p \in Procs |-> "idle"]
    /\ cred = [p \in Procs |-> "session"]
    /\ left = [p \in Procs |-> 0]
    /\ mode = [p \in Procs |-> "chain"]
    /\ loaded = [p \in Procs |-> None]
    /\ answer = [p \in Procs |-> "none"]
    /\ effects = [p \in Procs |-> 0]
    /\ calm = TRUE

----------------------------------------------------------------------------
(* The commands.  `gated' ones ask for a session or an environment token    *)
(* before anything else, whatever RAILCALL_API_KEY holds.                   *)

Chain(gated, keyed, n) ==
    [gated |-> gated, keyed |-> keyed, requests |-> {n}, mode |-> "chain"]

PublisherRegister == Chain(TRUE, TRUE, 1)
PublishSpec == Chain(TRUE, TRUE, 1)
PublishModule == Chain(TRUE, TRUE, 1)
Transfer == Chain(TRUE, TRUE, 1)
SignTransfer == Chain(TRUE, TRUE, 2)
AcceptTransfer == Chain(TRUE, TRUE, 2)
LinkInstall == Chain(TRUE, TRUE, 1)

\* Key management refuses to run under an API key.
ApiKeys == Chain(FALSE, FALSE, 1)

\* The list of purchases, then a claim for each that has no valid license.
AutoClaim ==
    [ gated |-> TRUE, keyed |-> TRUE, requests |-> 1 .. 1 + MaxPurchases, mode |-> "list" ]

Commands ==
    { PublisherRegister, PublishSpec, PublishModule, Transfer, SignTransfer,
      AcceptTransfer, LinkInstall, ApiKeys, AutoClaim }

\* _marketplace_token: the environment wins over the file.
Token(c) == IF c = "env" THEN EnvToken ELSE session

Start(p) ==
    /\ pc[p] = "idle"
    /\ \E c \in Credentials, command \in Commands :
          /\ command.gated => Token(c) # None
          /\ c = "key" => command.keyed
          /\ cred' = [cred EXCEPT ![p] = c]
          /\ mode' = [mode EXCEPT ![p] = command.mode]
          /\ \E n \in command.requests : left' = [left EXCEPT ![p] = n]
    /\ pc' = [pc EXCEPT ![p] = "send"]
    /\ effects' = [effects EXCEPT ![p] = 0]
    /\ answer' = [answer EXCEPT ![p] = "none"]
    /\ UNCHANGED <<session, server, loaded, calm>>

----------------------------------------------------------------------------
(* _marketplace_authed_request.                                             *)

\* What the server makes of a request with this bearer and what comes back.  A
\* network failure, before or after the request was carried out, is handled
\* like a refusal other than 401.
Exchange(p, b) ==
    \/ /\ answer' = [answer EXCEPT ![p] = "failed"]
       /\ UNCHANGED effects
    \/ /\ b \notin fresh
       /\ answer' = [answer EXCEPT ![p] = "401"]
       /\ UNCHANGED effects
    \/ /\ b \in fresh
       /\ \E a \in {"ok", "failed"} : answer' = [answer EXCEPT ![p] = a]
       /\ effects' = [effects EXCEPT ![p] = @ + 1]

Send_RetriesAnyFailure(p) ==
    /\ pc[p] = "send"
    /\ LET b == IF cred[p] = "key" THEN ApiKey ELSE Token(cred[p])
       IN  /\ IF b = None
              THEN /\ answer' = [answer EXCEPT ![p] = "401"]
                   /\ UNCHANGED effects
              ELSE Exchange(p, b)
           /\ pc' = [pc EXCEPT ![p] =
                       IF answer'[p] \in {"401", "failed"} /\ b \notin {ApiKey, None}
                       THEN "refresh" ELSE "answered"]
    /\ UNCHANGED <<session, server, cred, left, mode, loaded, calm>>

\* With an API key, or without a token, this is all; so it is when the answer
\* is not 401.
Send(p) ==
    /\ pc[p] = "send"
    /\ LET b == IF cred[p] = "key" THEN ApiKey ELSE Token(cred[p])
       IN  /\ IF b = None
              THEN /\ answer' = [answer EXCEPT ![p] = "401"]
                   /\ UNCHANGED effects
              ELSE Exchange(p, b)
           /\ pc' = [pc EXCEPT ![p] =
                       IF answer'[p] = "401" /\ b \notin {ApiKey, None}
                       THEN "refresh" ELSE "answered"]
    /\ UNCHANGED <<session, server, cred, left, mode, loaded, calm>>

\* From the read of the session to the last write that depends on it.
AtTheFile(p) ==
    pc[p] \in {"trade", "save", "resend", "clear", "logout_post", "logout_clear"}

Alone(p) == \A q \in Procs \ {p} : ~AtTheFile(q)

\* _marketplace_refresh_once reads the session anew.
RefreshLoad(p) ==
    /\ pc[p] = "refresh"
    /\ loaded' = [loaded EXCEPT ![p] = session]
    /\ pc' = [pc EXCEPT ![p] = IF session = None THEN "clear" ELSE "trade"]
    /\ calm' = (calm /\ Alone(p))
    /\ UNCHANGED <<session, server, cred, left, mode, answer, effects>>

\* The server takes the old pair out of use and issues a new one.
Issue(old) ==
    /\ issued < MaxPairs
    /\ issued' = issued + 1
    /\ live' = (live \ {old}) \cup {issued + 1}
    /\ fresh' = fresh \cup {issued + 1}

\* POST /auth/refresh.  Every exception counts as a refusal.
Trade(p) ==
    /\ pc[p] = "trade"
    /\ \/ /\ loaded[p] \in live
          /\ Issue(loaded[p])
          /\ loaded' = [loaded EXCEPT ![p] = issued + 1]
          /\ pc' = [pc EXCEPT ![p] = "save"]
          /\ UNCHANGED calm
       \/ /\ loaded[p] \notin live \/ issued = MaxPairs
          /\ pc' = [pc EXCEPT ![p] = "clear"]
          /\ calm' = (calm /\ loaded[p] \notin live)
          /\ UNCHANGED <<server, loaded>>
       \/ /\ pc' = [pc EXCEPT ![p] = "clear"]
          /\ \/ loaded[p] \in live /\ Issue(loaded[p])
             \/ UNCHANGED server
          /\ calm' = FALSE
          /\ UNCHANGED loaded
    /\ UNCHANGED <<session, cred, left, mode, answer, effects>>

Save_Forgotten(p) ==
    /\ pc[p] = "save"
    /\ pc' = [pc EXCEPT ![p] = "resend"]
    /\ UNCHANGED <<session, server, local, calm>>

Save(p) ==
    /\ pc[p] = "save"
    /\ session' = loaded[p]
    /\ pc' = [pc EXCEPT ![p] = "resend"]
    /\ UNCHANGED <<server, local, calm>>

\* A write that raises ends the command, a login's too, with the new pair in the
\* file or lost.
SaveRaises(p) ==
    /\ pc[p] \in {"save", "login_save"}
    /\ session' \in {session, loaded[p]}
    /\ calm' = (calm /\ Alone(p))
    /\ pc' = [pc EXCEPT ![p] = "idle"]
    /\ left' = [left EXCEPT ![p] = 0]
    /\ mode' = [mode EXCEPT ![p] = "chain"]
    /\ cred' = [cred EXCEPT ![p] = "session"]
    /\ loaded' = [loaded EXCEPT ![p] = None]
    /\ answer' = [answer EXCEPT ![p] = "none"]
    /\ effects' = [effects EXCEPT ![p] = 0]
    /\ UNCHANGED server

Resend_ClearsOnSecond401(p) ==
    /\ pc[p] = "resend"
    /\ LET b == Token(cred[p])
       IN  /\ IF b = None THEN UNCHANGED <<answer, effects>> ELSE Exchange(p, b)
           /\ pc' = [pc EXCEPT ![p] =
                       IF b = None \/ answer'[p] = "401" THEN "clear" ELSE "answered"]
    /\ UNCHANGED <<session, server, cred, left, mode, loaded, calm>>

\* The retry, with the token that is in force by then; its answer stands.
Resend(p) ==
    /\ pc[p] = "resend"
    /\ LET b == Token(cred[p])
       IN  IF b = None
           THEN /\ pc' = [pc EXCEPT ![p] = "clear"]
                /\ UNCHANGED <<answer, effects>>
           ELSE /\ pc' = [pc EXCEPT ![p] = "answered"]
                /\ Exchange(p, b)
    /\ UNCHANGED <<session, server, cred, left, mode, loaded, calm>>

\* "Session expired": whatever session is on the disk goes, unless it cannot be
\* removed, which nobody minds.
Clear(p) ==
    /\ pc[p] = "clear"
    /\ session' \in {None, session}
    /\ pc' = [pc EXCEPT ![p] = "answered"]
    /\ answer' = [answer EXCEPT ![p] = "401"]
    /\ UNCHANGED <<server, cred, left, mode, loaded, effects, calm>>

\* The command looks at the answer.  One that does not suit it ends a chain;
\* a sweep that has its list goes on with the next purchase.
Suits(p) == answer[p] = "ok"

Conclude(p) ==
    /\ pc[p] = "answered"
    /\ \/ /\ Suits(p) \/ mode[p] = "claims"
          /\ left[p] > 1
          /\ pc' = [pc EXCEPT ![p] = "send"]
          /\ left' = [left EXCEPT ![p] = @ - 1]
          /\ mode' = [mode EXCEPT ![p] = IF @ = "list" THEN "claims" ELSE @]
          /\ UNCHANGED cred
       \/ /\ mode[p] # "claims" \/ left[p] <= 1
          /\ pc' = [pc EXCEPT ![p] = "idle"]
          /\ left' = [left EXCEPT ![p] = 0]
          /\ mode' = [mode EXCEPT ![p] = "chain"]
          /\ cred' = [cred EXCEPT ![p] = "session"]
    /\ effects' = [effects EXCEPT ![p] = 0]
    /\ answer' = [answer EXCEPT ![p] = "none"]
    /\ loaded' = [loaded EXCEPT ![p] = None]
    /\ UNCHANGED <<session, server, calm>>

----------------------------------------------------------------------------
(* Commands of their own shape.                                             *)

\* market login: the password buys a pair; --admin puts it elsewhere.
Login(p) ==
    /\ pc[p] = "idle"
    /\ Issue(None)
    /\ loaded' = [loaded EXCEPT ![p] = issued + 1]
    /\ \E c \in {"session", "env", "key"} : cred' = [cred EXCEPT ![p] = c]
    /\ pc' = [pc EXCEPT ![p] = "login_save"]
    /\ UNCHANGED <<session, left, mode, answer, effects, calm>>

\* Then it links the install, if there is one, and minds no answer.
LoginSave(p) ==
    /\ pc[p] = "login_save"
    /\ session' = loaded[p]
    /\ calm' = (calm /\ Alone(p))
    /\ loaded' = [loaded EXCEPT ![p] = None]
    /\ \/ /\ pc' = [pc EXCEPT ![p] = "send"]
          /\ left' = [left EXCEPT ![p] = 1]
       \/ /\ pc' = [pc EXCEPT ![p] = "idle"]
          /\ UNCHANGED left
    /\ UNCHANGED <<server, cred, mode, answer, effects>>

\* market logout: "clearing local storage is the load-bearing action".
LogoutLoad(p) ==
    /\ pc[p] = "idle"
    /\ session # None
    /\ loaded' = [loaded EXCEPT ![p] = session]
    /\ pc' = [pc EXCEPT ![p] = "logout_post"]
    /\ calm' = (calm /\ Alone(p))
    /\ UNCHANGED <<session, server, cred, left, mode, answer, effects>>

LogoutPost(p) ==
    /\ pc[p] = "logout_post"
    /\ live' \in {live, live \ {loaded[p]}}
    /\ pc' = [pc EXCEPT ![p] = "logout_clear"]
    /\ UNCHANGED <<session, fresh, issued, local, calm>>

LogoutClear(p) ==
    /\ pc[p] = "logout_clear"
    /\ session' \in {None, session}
    /\ loaded' = [loaded EXCEPT ![p] = None]
    /\ pc' = [pc EXCEPT ![p] = "idle"]
    /\ UNCHANGED <<server, cred, left, mode, answer, effects, calm>>

\* market claim: the purchase is the credential, and a bearer is sent along
\* when there is one (_marketplace_optional_post).  No retry, no cleanup.
ClaimByCode(p) ==
    /\ pc[p] = "idle"
    /\ \E n \in {0, 1} : effects' = [effects EXCEPT ![p] = n]
    /\ answer' = [answer EXCEPT ![p] = "failed"]
    /\ pc' = [pc EXCEPT ![p] = "answered"]
    /\ UNCHANGED <<session, server, cred, left, mode, loaded, calm>>

\* An access token is no longer accepted.  One that was just issued outlives
\* the request that follows.  (An environment token or a key that has expired
\* is one that Init leaves out.)
Expire ==
    /\ \E b \in fresh \cap Pairs :
          /\ \A p \in Procs : loaded[p] # b
          /\ fresh' = fresh \ {b}
    /\ UNCHANGED <<session, live, issued, pc, local, calm>>

----------------------------------------------------------------------------

Step(p) ==
    \/ Start(p) \/ Send(p) \/ RefreshLoad(p) \/ Trade(p) \/ Save(p) \/ SaveRaises(p)
    \/ Resend(p) \/ Clear(p) \/ Conclude(p)
    \/ Login(p) \/ LoginSave(p)
    \/ LogoutLoad(p) \/ LogoutPost(p) \/ LogoutClear(p)
    \/ ClaimByCode(p)

Next == (\E p \in Procs : Step(p)) \/ Expire

Spec == Init /\ [][Next]_vars

----------------------------------------------------------------------------
(* Properties.                                                              *)

Places ==
    {"idle", "send", "refresh", "trade", "save", "resend", "clear", "answered",
     "login_save", "logout_post", "logout_clear"}

TypeOK ==
    /\ session \in Pairs \cup {None}
    /\ live \subseteq Pairs /\ fresh \subseteq Bearers /\ issued \in Pairs
    /\ pc \in [Procs -> Places]
    /\ cred \in [Procs -> Credentials]
    /\ left \in [Procs -> 0 .. 2 + MaxPurchases]
    /\ mode \in [Procs -> {"chain", "list", "claims"}]
    /\ loaded \in [Procs -> Pairs \cup {None}]
    /\ answer \in [Procs -> {"none", "ok", "failed", "401"}]
    /\ effects \in [Procs -> 0 .. 2]
    /\ calm \in BOOLEAN

\* The server carries out a request at most once, the retry after a refresh
\* and the network failures included: no listing is published twice, no claim
\* is made twice, by one command.
AtMostOnce == \A p \in Procs : effects[p] <= 1

Moves(p) == pc'[p] # pc[p]

Drops == session # None /\ session' = None
LogsOut == \E p \in Procs : pc[p] = "logout_clear" /\ Moves(p)

\* While no refresh goes unanswered and no two commands meet at the session
\* file, only a logout removes a session the server would still renew.
SessionOutlivesErrors == [][Drops /\ session \in live => LogsOut \/ ~calm]_vars

\* "Still 401 after refresh - session is dead" (_marketplace_authed_request):
\* what is cleared there could not be renewed.
ClearedIsDead == [][Drops /\ session \in live => LogsOut]_vars

\* "Auto-refreshing on 401 exactly once" (_marketplace_authed_request) is
\* enough: the retry carries the renewed token, and is not told to log in.
RetryIsServed ==
    [][\A p \in Procs :
         Moves(p) /\ pc[p] = "resend" /\ cred[p] = "session"
           => answer'[p] # "401" \/ ~calm]_vars

\* "Clearing local storage is the load-bearing action" (_market_logout): after it
\* only a login makes a session.  A refresh that had read the file before the logout
\* saves its pair after it, and one that had read it before a login replaces the
\* session of that login by one of the account before (Save).
LogoutHolds ==
    [][session = None /\ session' # None =>
         \E p \in Procs : pc[p] = "login_save" /\ Moves(p)]_vars
=============================================================================
