------------------------------- MODULE Accounts -------------------------------
(***************************************************************************)
(* Registration, login and tokens (auth/store.py, server/auth_api.py) with  *)
(* the limiter of login attempts (auth/ratelimit.py).  The first account    *)
(* takes over the data of the single-user days, which lie in two databases. *)
(* The store works in threads: a step is one transaction, and in            *)
(* registration the reads before the INSERT are outside of it.              *)
(***************************************************************************)
EXTENDS Naturals, FiniteSets

CONSTANTS Names,        \* accounts that may be registered
          Unclaimed,    \* the empty user_id
          LoginLimit,   \* auth.login_max_attempts
          MaxRequests   \* bound: login requests at a time

ASSUME AccountsAssumption ==
    /\ Unclaimed \notin Names
    /\ LoginLimit \in Nat \ {0} /\ MaxRequests \in Nat \ {0}

VARIABLES
    acSignUp,   \* how far the registration of an account is
    acFirst,    \* registrations that found the table of users empty
    acRows,     \* the owner of the old conversations and notes
    acSettings, \* the owner of the old provider settings (another database)
    acTries,    \* login attempts in the present window of a name
    acTrying,   \* login requests of a name whose password is being verified
    acTokens    \* accounts with a valid token

accountVars == <<acSignUp, acFirst, acRows, acSettings, acTries, acTrying, acTokens>>
legacyVars == <<acRows, acSettings>>
limiterVars == <<acTries, acTrying>>

AccountsTypeOK ==
    /\ acSignUp \in [Names -> {"none", "checked", "claims", "settings", "done", "dead"}]
    /\ acFirst \subseteq Names
    /\ acRows \in Names \cup {Unclaimed} /\ acSettings \in Names \cup {Unclaimed}
    /\ acTries \in [Names -> 0..LoginLimit]
    /\ acTrying \in [Names -> 0..MaxRequests]
    /\ acTokens \subseteq Names

AccountsInit ==
    /\ acSignUp = [n \in Names |-> "none"] /\ acFirst = {}
    /\ acRows = Unclaimed /\ acSettings = Unclaimed
    /\ acTries = [n \in Names |-> 0] /\ acTrying = [n \in Names |-> 0]
    /\ acTokens = {}

Registered == {n \in Names : acSignUp[n] \notin {"none", "checked"}}

SignUp(n, from, to) ==
    acSignUp[n] = from /\ acSignUp' = [acSignUp EXCEPT ![n] = to]

\* register(): the name is free, and the table is empty or it is not.
CheckName(n) ==
    /\ SignUp(n, "none", "checked")
    /\ acFirst' = IF Registered = {} THEN acFirst \cup {n} ELSE acFirst
    /\ UNCHANGED <<legacyVars, limiterVars, acTokens>>

\* A slip: every registration goes on to claim the old data.
InsertAndClaim(n) ==
    /\ SignUp(n, "checked", "claims")
    /\ UNCHANGED <<acTokens, acFirst, legacyVars, limiterVars>>

\* The INSERT; without old data to claim the token follows.
InsertUser(n) ==
    /\ SignUp(n, "checked", IF n \in acFirst THEN "claims" ELSE "done")
    /\ acTokens' = IF n \in acFirst THEN acTokens ELSE acTokens \cup {n}
    /\ UNCHANGED <<acFirst, legacyVars, limiterVars>>

\* claim_user of the memory store: whatever has no owner yet.
ClaimRows(n) ==
    /\ SignUp(n, "claims", "settings")
    /\ acRows' = IF acRows = Unclaimed THEN n ELSE acRows
    /\ UNCHANGED <<acFirst, acSettings, limiterVars, acTokens>>

\* claim_user of the settings, then the token.
ClaimSettings(n) ==
    /\ SignUp(n, "settings", "done")
    /\ acSettings' = IF acSettings = Unclaimed THEN n ELSE acSettings
    /\ acTokens' = acTokens \cup {n}
    /\ UNCHANGED <<acFirst, acRows, limiterVars>>

\* The server dies: registrations stop where they are, the limiter is in memory.
ServerDies ==
    /\ acSignUp' = [n \in Names |-> CASE acSignUp[n] = "checked" -> "none"
                                     [] acSignUp[n] \in {"claims", "settings"} -> "dead"
                                     [] OTHER -> acSignUp[n]]
    /\ acFirst' = {n \in acFirst : acSignUp[n] # "checked"}
    /\ acTrying' = [m \in Names |-> 0] /\ acTries' = [m \in Names |-> 0]
    /\ UNCHANGED <<legacyVars, acTokens>>

\* login: the window of the client and name counts the attempt, or refuses it.
Attempt(n) ==
    /\ acTries[n] < LoginLimit /\ acTrying[n] < MaxRequests
    /\ acTries' = [acTries EXCEPT ![n] = @ + 1]
    /\ acTrying' = [acTrying EXCEPT ![n] = @ + 1]
    /\ UNCHANGED <<acSignUp, acFirst, legacyVars, acTokens>>

\* The password has been verified in a thread: a token and a new window when it is
\* right; others of the same name may still be waiting for theirs.
Verified(n, right) ==
    /\ acTrying[n] > 0 /\ (right => n \in Registered)
    /\ acTrying' = [acTrying EXCEPT ![n] = @ - 1]
    /\ acTokens' = IF right THEN acTokens \cup {n} ELSE acTokens
    /\ acTries' = IF right THEN [acTries EXCEPT ![n] = 0] ELSE acTries
    /\ UNCHANGED <<acSignUp, acFirst, legacyVars>>

\* The window of a key is over, or its entry was evicted.
WindowOver(n) ==
    /\ acTries[n] > 0
    /\ acTries' = [acTries EXCEPT ![n] = 0]
    /\ UNCHANGED <<acSignUp, acFirst, legacyVars, acTrying, acTokens>>

\* logout, or the token expires.
TokenOver(n) ==
    /\ n \in acTokens
    /\ acTokens' = acTokens \ {n}
    /\ UNCHANGED <<acSignUp, acFirst, legacyVars, limiterVars>>

AccountsNext ==
    \/ ServerDies
    \/ \E n \in Names :
        \/ CheckName(n) \/ InsertUser(n) \/ ClaimRows(n) \/ ClaimSettings(n)
        \/ Attempt(n) \/ WindowOver(n) \/ TokenOver(n)
        \/ \E right \in BOOLEAN : Verified(n, right)

-------------------------------------------------------------------------------
\* The old conversations and the old settings go to the same account, unless
\* several registrations found the table empty (auth/store.py:208).
LegacyStaysTogether ==
    acSettings # Unclaimed => acRows = acSettings \/ Cardinality(acFirst) > 1
===============================================================================
