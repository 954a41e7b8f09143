----------------------------- MODULE OAuthToken -----------------------------
(***************************************************************************)
(* The refresh token of the Web API (session/session.go), which any number *)
(* of requests renew at the same time: nothing keeps a second one from     *)
(* asking while the first waits for its answer.  What an answer brings     *)
(* goes to the session under oauthMu, and from there, by a copy made       *)
(* under oauthMu and assigned under another lock, to the state that the    *)
(* next start of the daemon begins with (daemon/app.go; how that state     *)
(* reaches the disk is StateStore).                                        *)
(*                                                                         *)
(* Tokens are numbered as they are granted.  External: the server.  It may *)
(* rotate the refresh token, and it may revoke the one that was presented  *)
(* when it does.                                                           *)
(***************************************************************************)
EXTENDS Naturals

CONSTANTS
    Callers,      \* goroutines with a request to the Web API
    MaxTokens     \* bound: refresh tokens granted

ASSUME OAuthAssumption == MaxTokens \in Nat \ {0}

VARIABLES
    oauthRefresh,   \* the session's
    stored,         \* app.state.OAuth.RefreshToken
    caller,         \* per goroutine: where it is, and the token it carries
    granted,        \* server: tokens granted
    valid,          \* server: those not revoked
    lost            \* history: an answer was lost, or a restart forgot one

oauthVars == <<oauthRefresh, stored, caller, granted, valid, lost>>

Tokens == 1 .. MaxTokens
Same == 0                     \* an answer without a refresh token

Calls(pc, token) == [pc |-> pc, token |-> token]
CallerAt(c, pc, token) == caller' = [caller EXCEPT ![c] = Calls(pc, token)]

-----------------------------------------------------------------------------
\* oauthTokenFunc finds the access token expired by a clock that may be wrong, or
\* the server did; refreshOAuthToken reads the refresh token.
RefreshOAuthToken(c) ==
    /\ caller[c].pc = "idle"
    /\ CallerAt(c, "ask", oauthRefresh)
    /\ UNCHANGED <<oauthRefresh, stored, granted, valid, lost>>

\* The server grants an access token, and perhaps another refresh token.
Grants(c) ==
    /\ caller[c].pc = "ask" /\ caller[c].token \in valid
    /\ \/ CallerAt(c, "answered", Same) /\ UNCHANGED <<granted, valid>>
       \/ /\ granted < MaxTokens
          /\ granted' = granted + 1
          /\ CallerAt(c, "answered", granted')
          /\ \E revoked \in {{}, {caller[c].token}} : valid' = (valid \ revoked) \cup {granted'}
    /\ UNCHANGED <<oauthRefresh, stored, lost>>

\* The request fails or is refused: the caller goes on with the stale token.
Refused(c) ==
    /\ caller[c].pc = "ask"
    /\ CallerAt(c, "idle", Same)
    /\ UNCHANGED <<oauthRefresh, stored, granted, valid, lost>>

\* The answer does not arrive, or not whole.
AnswerLost(c) ==
    /\ caller[c].pc = "answered"
    /\ CallerAt(c, "idle", Same)
    /\ lost' = TRUE
    /\ UNCHANGED <<oauthRefresh, stored, granted, valid>>

\* Mutant: only the access token of an answer is taken.
KeepAlways(token) == UNCHANGED oauthRefresh

KeepIfSame(token) == oauthRefresh' = IF token = Same THEN oauthRefresh ELSE token

TokenRefreshed(c) ==
    /\ caller[c].pc = "answered"
    /\ KeepIfSame(caller[c].token)
    /\ CallerAt(c, "emit", Same)
    /\ UNCHANGED <<stored, granted, valid, lost>>

\* emitOAuthChanged: the copy, under oauthMu ...
EmitOAuthChanged(c) ==
    /\ caller[c].pc = "emit"
    /\ CallerAt(c, "store", oauthRefresh)
    /\ UNCHANGED <<oauthRefresh, stored, granted, valid, lost>>

\* ... and onOAuthTokenChanged, under the lock of the state.  That it drops the
\* liked-songs playlist of another account is not told apart.
OnOAuthTokenChanged(c) ==
    /\ caller[c].pc = "store"
    /\ stored' = caller[c].token
    /\ CallerAt(c, "idle", Same)
    /\ UNCHANGED <<oauthRefresh, granted, valid, lost>>

\* The daemon is killed and starts with the stored credentials.
Restored ==
    /\ oauthRefresh' = stored
    /\ caller' = [c \in Callers |-> Calls("idle", Same)]
    /\ lost' = (lost \/ stored # oauthRefresh \/ \E c \in Callers : caller[c].pc = "answered")
    /\ UNCHANGED <<stored, granted, valid>>

-----------------------------------------------------------------------------
\* The user has logged in.
OAuthInit ==
    /\ oauthRefresh = 1
    /\ stored = 1
    /\ caller = [c \in Callers |-> Calls("idle", Same)]
    /\ granted = 1
    /\ valid = {1}
    /\ lost = FALSE

OAuthNext ==
    \/ \E c \in Callers :
          \/ RefreshOAuthToken(c)
          \/ Grants(c)
          \/ Refused(c)
          \/ AnswerLost(c)
          \/ TokenRefreshed(c)
          \/ EmitOAuthChanged(c)
          \/ OnOAuthTokenChanged(c)
    \/ Restored

OAuthSpec == OAuthInit /\ [][OAuthNext]_oauthVars

-----------------------------------------------------------------------------
(* Properties.                                                             *)

\* The types of the tokens and the goroutines.
OAuthTypeOK ==
    /\ oauthRefresh \in Tokens /\ stored \in Tokens
    /\ caller \in [Callers -> [pc : {"idle", "ask", "answered", "emit", "store"},
                               token : Tokens \cup {Same}]]
    /\ granted \in Tokens
    /\ valid \subseteq 1 .. granted
    /\ lost \in BOOLEAN

\* However many requests renew the token at once, and in whatever order their
\* answers come, the session does not end up with a revoked one while no answer
\* was lost: its own is valid, or the answer that replaces it is on its way.
TokenUsable ==
    \/ lost
    \/ oauthRefresh \in valid
    \/ \E c \in Callers : caller[c].pc = "answered" /\ caller[c].token \in valid

\* "so the refresh token survives daemon restarts": when nobody is renewing it, the
\* one a restart would begin with is the session's.
StoredSurvives == (\A c \in Callers : caller[c].pc = "idle") => stored = oauthRefresh
=============================================================================
