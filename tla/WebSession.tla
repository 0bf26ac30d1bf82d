----------------------------- MODULE WebSession -----------------------------
(***************************************************************************)
(* How a browser stays signed in: proxy.ts trades the refresh cookie for a *)
(* new pair in front of any request whose access cookie is stale, the      *)
(* API rotates refresh tokens with a grace for concurrent requests         *)
(* (auth/service.py, refresh).  All requests of a browser share its cookie *)
(* jar, and the last answer to arrive decides what is in it.               *)
(*                                                                         *)
(* Time is two steps: an access cookie goes stale, and a used token's      *)
(* grace passes.  A request is answered well within the grace (30 s), so   *)
(* the grace of a token does not pass while a request carrying it is       *)
(* on its way.  The thirty days a refresh token lives are not modelled:    *)
(* each trade starts them again.                                           *)
(***************************************************************************)
EXTENDS Integers, FiniteSets

CONSTANTS
    Devices,        \* browsers of one account
    Slots,          \* requests a browser may have under way
    MaxTokens,      \* bound on refresh tokens
    MaxLosses       \* bound on trades that fail half way or whose answer is lost

ASSUME SessionAssumption == MaxTokens \in Nat /\ MaxLosses \in Nat

VARIABLES
    token,          \* auth_tokens: each refresh token's row
    jar,            \* the cookies of each browser
    trade,          \* the trade of each request under way
    losses,
    stranded,       \* history: browsers that have spent a token in vain
    revoked         \* history: a replay has revoked the account's tokens

sessionVars == <<token, jar, trade, losses, stranded, revoked>>

Tokens == 1 .. MaxTokens

\* 0: no cookie.
Jar == [access: {"fresh", "stale"}, refresh: 0 .. MaxTokens]

\* "asking": POST /auth/refresh with token "with"; "claimed": used_at is committed;
\* "paired": answered with the pair of token "got"; "dead": answered 400.
Trade == [at: {"idle", "asking", "claimed", "paired", "dead"}, with: 0 .. MaxTokens,
            got: 0 .. MaxTokens]

NoTrade == [at |-> "idle", with |-> 0, got |-> 0]

\* "grace", "old": used not longer, longer ago than the grace.
SessionTypeOK ==
    /\ token \in [Tokens -> {"none", "unused", "grace", "old", "deleted"}]
    /\ jar \in [Devices -> Jar]
    /\ trade \in [Devices \X Slots -> Trade]
    /\ losses \in 0 .. MaxLosses
    /\ stranded \in SUBSET Devices
    /\ revoked \in BOOLEAN

SignedIn(d) == jar[d].refresh # 0

Carried(t) == \E r \in Devices \X Slots : trade[r].at = "asking" /\ trade[r].with = t

IsNext(t) == token[t] = "none" /\ \A s \in Tokens : token[s] = "none" => t <= s

SessionInit ==
    /\ token = [t \in Tokens |-> "none"]
    /\ jar = [d \in Devices |-> [access |-> "stale", refresh |-> 0]]
    /\ trade = [r \in Devices \X Slots |-> NoTrade]
    /\ losses = 0 /\ stranded = {} /\ revoked = FALSE

-----------------------------------------------------------------------------
(* The browser and the proxy.                                              *)

Fill(d, t) == jar' = [jar EXCEPT ![d] = [access |-> "fresh", refresh |-> t]]

Empty(d) == jar' = [jar EXCEPT ![d] = [access |-> "stale", refresh |-> 0]]

\* login, verifyEmail: a pair is issued and put into the jar.
Login(d, t) ==
    /\ ~SignedIn(d) /\ IsNext(t)
    /\ token' = [token EXCEPT ![t] = "unused"]
    /\ Fill(d, t)
    /\ UNCHANGED <<trade, losses, stranded, revoked>>

\* logout only clears the cookies.
Logout(d) ==
    /\ SignedIn(d)
    /\ Empty(d)
    /\ UNCHANGED <<token, trade, losses, stranded, revoked>>

AccessStale(d) ==
    /\ SignedIn(d) /\ jar[d].access = "fresh"
    /\ jar' = [jar EXCEPT ![d].access = "stale"]
    /\ UNCHANGED <<token, trade, losses, stranded, revoked>>

\* A request whose access cookie is stale: the proxy asks for a new pair first.
AskForPair(r) ==
    LET d == r[1] IN
    /\ trade[r] = NoTrade
    /\ jar[d].access = "stale" /\ SignedIn(d)
    /\ trade' = [trade EXCEPT ![r] = [at |-> "asking", with |-> jar[d].refresh, got |-> 0]]
    /\ UNCHANGED <<token, jar, losses, stranded, revoked>>

-----------------------------------------------------------------------------
(* The API's refresh: the token is marked in one commit, its successor is  *)
(* inserted in another.                                                    *)

\* Defect: a token that has been used is a replay, however recently.
UsableOnce(t) == token[t] = "unused"

Usable(t) == token[t] \in {"unused", "grace"}

Claim(r) ==
    LET t == trade[r].with IN
    /\ trade[r].at = "asking" /\ Usable(t)
    /\ token' = [token EXCEPT ![t] = "grace"]
    /\ trade' = [trade EXCEPT ![r].at = "claimed"]
    /\ UNCHANGED <<jar, losses, stranded, revoked>>

\* A replay revokes all; an unknown token is only refused.
Replay(r) ==
    LET t == trade[r].with IN
    /\ trade[r].at = "asking" /\ ~Usable(t)
    /\ IF token[t] = "deleted" THEN UNCHANGED <<token, revoked>>
       ELSE /\ token' = [s \in Tokens |-> IF token[s] = "none" THEN "none" ELSE "deleted"]
            /\ revoked' = TRUE
    /\ trade' = [trade EXCEPT ![r].at = "dead"]
    /\ UNCHANGED <<jar, losses, stranded>>

\* Defect: the account's other tokens make way for the new one.
Superseding(t) ==
    [s \in Tokens |-> IF s = t THEN "unused" ELSE IF token[s] = "unused" THEN "deleted" ELSE token[s]]

Inserted(t) == [token EXCEPT ![t] = "unused"]

Issue(r, t) ==
    /\ trade[r].at = "claimed" /\ IsNext(t)
    /\ token' = Inserted(t)
    /\ trade' = [trade EXCEPT ![r].at = "paired", ![r].got = t]
    /\ UNCHANGED <<jar, losses, stranded, revoked>>

\* The API fails after the first commit, or the answer does not reach the browser.
Lose(r) ==
    /\ trade[r].at \in {"claimed", "paired"}
    /\ losses < MaxLosses /\ losses' = losses + 1
    /\ trade' = [trade EXCEPT ![r] = NoTrade]
    /\ stranded' = stranded \cup {r[1]}
    /\ UNCHANGED <<token, jar, revoked>>

\* The token's grace passes.
GracePasses(t) ==
    /\ token[t] = "grace" /\ ~Carried(t)
    /\ \A r \in Devices \X Slots : trade[r].with = t => trade[r].at = "idle"
    /\ token' = [token EXCEPT ![t] = "old"]
    /\ UNCHANGED <<jar, trade, losses, stranded, revoked>>

-----------------------------------------------------------------------------
(* The answer arrives, and the jar takes what it says.                     *)

\* Whatever the jar holds by now: the token that was traded, that of a
\* concurrent trade, or none after a logout.
Renewed(r) ==
    /\ trade[r].at = "paired"
    /\ Fill(r[1], trade[r].got)
    /\ trade' = [trade EXCEPT ![r] = NoTrade]
    /\ UNCHANGED <<token, losses, stranded, revoked>>

\* 400: "clear both cookies so the user gets a clean login".
Dropped(r) ==
    /\ trade[r].at = "dead"
    /\ Empty(r[1])
    /\ trade' = [trade EXCEPT ![r] = NoTrade]
    /\ UNCHANGED <<token, losses, stranded, revoked>>

SessionNext ==
    \/ \E d \in Devices :
        \/ Logout(d) \/ AccessStale(d)
        \/ \E t \in Tokens : Login(d, t)
    \/ \E r \in Devices \X Slots :
        \/ AskForPair(r) \/ Claim(r) \/ Replay(r) \/ Lose(r) \/ Renewed(r) \/ Dropped(r)
        \/ \E t \in Tokens : Issue(r, t)
    \/ \E t \in Tokens : GracePasses(t)

SessionSpec == SessionInit /\ [][SessionNext]_sessionVars

-----------------------------------------------------------------------------
(* Properties.                                                             *)

\* A signed in browser with no request under way holds a token the API will
\* trade, whatever requests raced for the last one and in whatever order their
\* answers came; unless an answer was lost or a replay has revoked all.
SessionUsable ==
    \A d \in Devices :
        (SignedIn(d) /\ ~revoked /\ d \notin stranded
           /\ \A s \in Slots : trade[<<d, s>>] = NoTrade)
          => token[jar[d].refresh] = "unused"

\* Only a browser that lost an answer makes the API revoke every token: requests that
\* race for a token, and answers that come late, never look like a replay.
NoFalseReplay ==
    [][revoked' /\ ~revoked => stranded # {}]_sessionVars
=============================================================================
