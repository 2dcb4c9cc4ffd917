------------------------------ MODULE Sessions ------------------------------
(***************************************************************************)
(* Accounts and sessions.                                                  *)
(*                                                                         *)
(*   handler.AuthHandler   Register, Login, Refresh, Logout,               *)
(*                         issueTokenPair          internal/handler/auth.go *)
(*   users, refresh_tokens           internal/db/migrations/001_init.up.sql *)
(*                                                                         *)
(* A session starts with a registration or a login and goes on as long as  *)
(* its refresh token is traded for a new one.  Every statement is a        *)
(* transaction of its own: a refresh reads the token, revokes it and       *)
(* inserts the next in three steps, between which other requests run, calls *)
(* fail and servers die.  A client knows a token once it got the answer.   *)
(* Access tokens are not stored and play no part here.                     *)
(***************************************************************************)
EXTENDS Integers, FiniteSets

CONSTANTS
  Emails,    \* one account each
  Requests,  \* registrations, logins and refreshes; a session is named
             \* after the request that started it
  Tokens,    \* refresh tokens (rows of refresh_tokens); bound
  None       \* no token, no session

ASSUME NoneAssumption == None \notin Tokens \cup Requests

VARIABLES
  users,      \* emails with a row in users
  token,      \* the row of a token: "unused" (no row), "live", "revoked"
  expired,    \* tokens past their expires_at
  known,      \* tokens a client has received
  at,         \* where a request stands
  from,       \* the token a refresh has read
  (* observations *)
  session,    \* the session of a token
  parent,     \* the token it was traded for
  overlaps,   \* refreshes that read a token another refresh was revoking
  broken,     \* sessions in which a call failed or an answer was lost
  left        \* sessions that logged out

rows  == <<users, token, expired>>
ghost == <<session, parent, overlaps, broken, left>>
vars  == <<rows, known, at, from, ghost>>

TypeOK ==
  /\ users \subseteq Emails
  /\ token \in [Tokens -> {"unused", "live", "revoked"}]
  /\ expired \subseteq Tokens
  /\ known \subseteq {t \in Tokens : token[t] # "unused"}
  /\ at \in [Requests -> {"idle", "revoking", "issuing", "answered"}]
  /\ from \in [Requests -> Tokens \cup {None}]
  /\ session \in [Tokens -> Requests \cup {None}]
  /\ parent \in [Tokens -> Tokens \cup {None}]
  /\ overlaps \in [Requests -> Nat]
  /\ broken \subseteq Requests
  /\ left \subseteq Requests

Init ==
  /\ users = {} /\ expired = {} /\ known = {}
  /\ token = [t \in Tokens |-> "unused"]
  /\ at = [q \in Requests |-> "idle"]
  /\ from = [q \in Requests |-> None]
  /\ session = [t \in Tokens |-> None]
  /\ parent = [t \in Tokens |-> None]
  /\ overlaps = [q \in Requests |-> 0]
  /\ broken = {} /\ left = {}

-----------------------------------------------------------------------------
(* Decisions, each after the mutants that change it as a slip might.       *)

(* What Refresh takes: a token that is neither revoked nor expired.        *)
AcceptsRevoked(t) == t \notin expired
Acceptable(t)     == token[t] = "live" /\ t \notin expired

(* The rows a revocation touches: WHERE id = $1; the slip has no WHERE.     *)
EveryRow(t) == {u \in Tokens : token[u] # "unused"}
Touched(t)  == {t}

(* A refresh whose UPDATE failed ends; the slip goes on, as Logout does.   *)
ErrorIgnored == "issuing"
AfterError   == "answered"

(* The pair is answered only if its row was stored.                        *)
AnswersAnyway(stored) == TRUE
MayAnswer(stored)     == stored

Revoked(T) == [t \in Tokens |-> IF t \in T THEN "revoked" ELSE token[t]]

(* The session a request works for: its own, or that of the token it read. *)
SessionOf(q) == IF from[q] = None THEN q ELSE session[from[q]]

-----------------------------------------------------------------------------
(* Register: one INSERT; the UNIQUE constraint answers for a known email.  *)
(* If the call fails the account may exist all the same.                   *)
Register(q, e) ==
  /\ at[q] = "idle"
  /\ \/ /\ e \notin users
        /\ users' = users \cup {e}
        /\ at' = [at EXCEPT ![q] = "issuing"]
     \/ /\ users' \in {users, users \cup {e}}
        /\ at' = [at EXCEPT ![q] = "answered"]
  /\ UNCHANGED <<token, expired, known, from, ghost>>

(* Login: look the account up, compare the password.                       *)
Login(q, e) ==
  /\ at[q] = "idle"
  /\ \/ e \in users /\ at' = [at EXCEPT ![q] = "issuing"]
     \/ at' = [at EXCEPT ![q] = "answered"]
  /\ UNCHANGED <<rows, known, from, ghost>>

-----------------------------------------------------------------------------
(* Refresh, first part: SELECT the token and look at it.                   *)
Overlapping(t) == \E p \in Requests : at[p] = "revoking" /\ from[p] = t

ReadToken(q, t) ==
  /\ at[q] = "idle" /\ t \in known
  /\ \/ /\ Acceptable(t)
        /\ at' = [at EXCEPT ![q] = "revoking"]
        /\ from' = [from EXCEPT ![q] = t]
        /\ overlaps' = [overlaps EXCEPT ![session[t]] =
             IF Overlapping(t) THEN @ + 1 ELSE @]
     \/ /\ at' = [at EXCEPT ![q] = "answered"]
        /\ UNCHANGED <<from, overlaps>>
  /\ UNCHANGED <<rows, known, session, parent, broken, left>>

(* Second part: revoke it, whatever has happened to it since.  A call that *)
(* fails may have revoked it, and ends the request.                        *)
RevokeToken(q) ==
  /\ at[q] = "revoking"
  /\ \/ /\ token' = Revoked(Touched(from[q]))
        /\ at' = [at EXCEPT ![q] = "issuing"]
        /\ UNCHANGED broken
     \/ /\ token' \in {token, Revoked(Touched(from[q]))}
        /\ at' = [at EXCEPT ![q] = AfterError]
        /\ broken' = broken \cup {SessionOf(q)}
  /\ UNCHANGED <<users, expired, known, from, session, parent, overlaps, left>>

(* issueTokenPair: INSERT a token and answer it.  The INSERT may fail, and *)
(* the answer may be lost, the process with it.                            *)
Issue(q, t) ==
  /\ at[q] = "issuing" /\ token[t] = "unused"
  /\ at' = [at EXCEPT ![q] = "answered"]
  /\ \E stored, heard \in BOOLEAN :
       /\ IF stored
          THEN /\ token' = [token EXCEPT ![t] = "live"]
               /\ session' = [session EXCEPT ![t] = SessionOf(q)]
               /\ parent' = [parent EXCEPT ![t] = from[q]]
          ELSE UNCHANGED <<token, session, parent>>
       /\ known' = IF MayAnswer(stored) /\ heard THEN known \cup {t} ELSE known
       /\ broken' = IF stored /\ heard THEN broken ELSE broken \cup {SessionOf(q)}
  /\ UNCHANGED <<users, expired, from, overlaps, left>>

(* Logout: the error of its one UPDATE is ignored.                         *)
Logout(t) ==
  /\ t \in known
  /\ token' \in {token, Revoked(Touched(t))}
  /\ left' = left \cup {session[t]}
  /\ UNCHANGED <<users, expired, known, at, from, session, parent, overlaps, broken>>

Expire(t) ==
  /\ token[t] # "unused" /\ t \notin expired
  /\ expired' = expired \cup {t}
  /\ UNCHANGED <<users, token, known, at, from, ghost>>

-----------------------------------------------------------------------------
Next ==
  \/ \E q \in Requests, e \in Emails : Register(q, e) \/ Login(q, e)
  \/ \E q \in Requests : RevokeToken(q)
  \/ \E q \in Requests, t \in Tokens : ReadToken(q, t) \/ Issue(q, t)
  \/ \E t \in Tokens : Logout(t) \/ Expire(t)

Spec == Init /\ [][Next]_vars

-----------------------------------------------------------------------------
(* Properties.                                                             *)

Of(s)       == {t \in Tokens : session[t] = s}
Live(s)     == {t \in Of(s) : token[t] = "live"}
InFlight(s) == {q \in Requests : at[q] \in {"revoking", "issuing"} /\ SessionOf(q) = s}

(* Rotation on use: whatever fails in between, a token is replaced only    *)
(* after it was revoked, and it stays so (Refresh revokes before it        *)
(* issues, and stops if it cannot).                                        *)
ReplacedIsRevoked ==
  \A t \in Tokens : parent[t] # None => token[parent[t]] = "revoked"

(* A session multiplies only by overlap: it has at most one live token for *)
(* each refresh that read a token while another was revoking it, and one   *)
(* more.  (The read and the UPDATE of Refresh are not one transaction.)    *)
LiveTokensCounted ==
  \A s \in Requests : Cardinality(Live(s)) <= 1 + overlaps[s]

(* A session is over when no token of it can be traded and no request of   *)
(* it is under way; then it never comes back, whichever of its tokens a    *)
(* client still presents (the checks of Refresh).                          *)
Over(s) == at[s] = "answered" /\ Live(s) \subseteq expired /\ InFlight(s) = {}
OverForGood == [][\A s \in Requests : Over(s) => Over(s)']_vars

(* Nobody loses a session but by leaving it or by a fault in it: some      *)
(* token its client knows is unrevoked, or a refresh is about to replace   *)
(* it - whatever the user's other sessions do, refreshes and logouts.      *)
SessionKept ==
  \A s \in Requests : Of(s) # {} /\ s \notin broken \cup left =>
    Live(s) \cap known # {} \/ InFlight(s) # {}
=============================================================================
