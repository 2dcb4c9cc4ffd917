--------------------------- MODULE SessionsProofs ---------------------------
(***************************************************************************)
(* What Sessions promises, for any number of accounts, requests and        *)
(* tokens.  One inductive invariant carries the theorems.                  *)
(***************************************************************************)
EXTENDS Sessions, FiniteSetTheorems, TLAPS

USE NoneAssumption

(* A stored token has a session.                                           *)
Named == \A t \in Tokens : token[t] # "unused" => session[t] # None

(* What a request holds: a refresh has read a stored token, and revoked it *)
(* before it issues the next one.                                          *)
Holds(q) ==
  /\ at[q] = "idle" => from[q] = None
  /\ at[q] = "revoking" => from[q] # None
  /\ from[q] # None => token[from[q]] # "unused"
  /\ at[q] = "issuing" /\ from[q] # None => token[from[q]] = "revoked"

IInv == TypeOK /\ Named /\ ReplacedIsRevoked /\ \A q \in Requests : Holds(q)

(* A session has a request's name.                                         *)
LEMMA SessionName ==
  ASSUME TypeOK, Named, NEW q \in Requests, Holds(q)
  PROVE  SessionOf(q) \in Requests
BY DEF TypeOK, Named, Holds, SessionOf

(* Revoking a token leaves the others alone.                               *)
LEMMA RevokedToken ==
  ASSUME TypeOK, NEW t \in Tokens, token' = Revoked(Touched(t))
  PROVE  /\ token' \in [Tokens -> {"unused", "live", "revoked"}]
         /\ token'[t] = "revoked"
         /\ \A u \in Tokens \ {t} : token'[u] = token[u]
BY DEF TypeOK, Revoked, Touched

-----------------------------------------------------------------------------
LEMMA InitIInv == Init => IInv
BY DEF Init, IInv, TypeOK, Named, Holds, ReplacedIsRevoked

LEMMA StepIInv == IInv /\ [Next]_vars => IInv'
<1> SUFFICES ASSUME IInv, [Next]_vars PROVE IInv'
  OBVIOUS
<1> USE DEF IInv
<1>1. ASSUME NEW q \in Requests, NEW e \in Emails, Register(q, e) \/ Login(q, e)
      PROVE  IInv'
  <2>1. at'[q] \in {"issuing", "answered"} /\ \A p \in Requests \ {q} : at'[p] = at[p]
    BY <1>1 DEF Register, Login, TypeOK
  <2>2. TypeOK'
    BY <1>1 DEF Register, Login, TypeOK, rows, ghost
  <2>3. UNCHANGED <<token, from, session, parent>> /\ from[q] = None
    BY <1>1 DEF Register, Login, rows, ghost, Holds
  <2> QED
    BY <2>1, <2>2, <2>3 DEF Named, Holds, ReplacedIsRevoked
<1>2. ASSUME NEW q \in Requests, NEW t \in Tokens, ReadToken(q, t)
      PROVE  IInv'
  <2>1. \/ /\ token[t] = "live" /\ at' = [at EXCEPT ![q] = "revoking"]
           /\ from' = [from EXCEPT ![q] = t]
        \/ at' = [at EXCEPT ![q] = "answered"] /\ UNCHANGED from
    BY <1>2 DEF ReadToken, Acceptable
  <2>2. overlaps' \in [Requests -> Nat]
    BY <1>2 DEF ReadToken, TypeOK
  <2>3. UNCHANGED <<users, token, expired, known, session, parent, broken, left>>
    BY <1>2 DEF ReadToken, rows
  <2>4. TypeOK'
    BY <2>1, <2>2, <2>3 DEF TypeOK
  <2>5. \A p \in Requests : Holds(p)'
    BY <2>1, <2>3 DEF Holds, TypeOK
  <2> QED
    BY <2>3, <2>4, <2>5 DEF Named, ReplacedIsRevoked
<1>3. ASSUME NEW q \in Requests, RevokeToken(q) PROVE IInv'
  <2>1. from[q] \in Tokens /\ token[from[q]] # "unused" /\ SessionOf(q) \in Requests
    BY <1>3, SessionName DEF RevokeToken, Holds, TypeOK
  <2>2. UNCHANGED <<users, expired, known, from, session, parent, overlaps, left>>
    BY <1>3 DEF RevokeToken
  <2>3. \/ token' = Revoked(Touched(from[q])) /\ at' = [at EXCEPT ![q] = "issuing"]
        \/ /\ token' \in {token, Revoked(Touched(from[q]))}
           /\ at' = [at EXCEPT ![q] = "answered"]
    BY <1>3 DEF RevokeToken, AfterError
  <2>4. broken' \subseteq Requests
    BY <1>3, <2>1 DEF RevokeToken, TypeOK
  <2>5. /\ token' \in [Tokens -> {"unused", "live", "revoked"}]
        /\ \A u \in Tokens : \/ token'[u] = token[u]
                             \/ u = from[q] /\ token'[u] = "revoked"
    BY <2>1, <2>3, RevokedToken DEF TypeOK
  <2>6. TypeOK'
    BY <2>1, <2>2, <2>3, <2>4, <2>5 DEF TypeOK
  <2>7. Named' /\ ReplacedIsRevoked'
    BY <2>1, <2>2, <2>5 DEF Named, ReplacedIsRevoked, TypeOK
  <2>8. ASSUME NEW p \in Requests PROVE Holds(p)'
    <3>1. at'[p] = "issuing" /\ p = q => token'[from[q]] = "revoked"
      BY <2>1, <2>3, RevokedToken DEF TypeOK
    <3> QED
      BY <2>1, <2>2, <2>3, <2>5, <3>1 DEF Holds, TypeOK
  <2> QED
    BY <2>6, <2>7, <2>8
<1>4. ASSUME NEW q \in Requests, NEW t \in Tokens, Issue(q, t) PROVE IInv'
  <2>1. SessionOf(q) \in Requests /\ at[q] = "issuing" /\ token[t] = "unused"
    BY <1>4, SessionName DEF Issue
  <2>2. /\ UNCHANGED <<users, expired, from, overlaps, left>>
        /\ at' = [at EXCEPT ![q] = "answered"]
        /\ \/ /\ token' = [token EXCEPT ![t] = "live"]
              /\ session' = [session EXCEPT ![t] = SessionOf(q)]
              /\ parent' = [parent EXCEPT ![t] = from[q]]
              /\ known' \in {known, known \cup {t}}
           \/ UNCHANGED <<token, session, parent, known>>
        /\ broken' \in {broken, broken \cup {SessionOf(q)}}
    BY <1>4 DEF Issue, MayAnswer
  <2>3. \A u \in Tokens : token[u] # "unused" => token'[u] = token[u]
    BY <2>1, <2>2 DEF TypeOK
  <2>4. TypeOK'
    BY <2>1, <2>2 DEF TypeOK
  <2>5. Named'
    BY <2>1, <2>2 DEF Named, TypeOK
  <2>6. ReplacedIsRevoked'
    BY <2>1, <2>2, <2>3 DEF ReplacedIsRevoked, Holds, TypeOK
  <2>7. \A p \in Requests : Holds(p)'
    BY <2>2, <2>3 DEF Holds, TypeOK
  <2> QED
    BY <2>4, <2>5, <2>6, <2>7
<1>5. ASSUME NEW t \in Tokens, Logout(t) PROVE IInv'
  <2>1. UNCHANGED <<users, expired, known, at, from, session, parent, overlaps, broken>>
    BY <1>5 DEF Logout
  <2>2. token[t] # "unused" /\ session[t] \in Requests
    BY <1>5 DEF Logout, TypeOK, Named
  <2>3. /\ token' \in [Tokens -> {"unused", "live", "revoked"}]
        /\ \A u \in Tokens : \/ token'[u] = token[u]
                             \/ u = t /\ token'[u] = "revoked"
    BY <1>5, RevokedToken DEF Logout, TypeOK
  <2>4. TypeOK'
    BY <1>5, <2>1, <2>2, <2>3 DEF TypeOK, Logout
  <2> QED
    BY <2>1, <2>2, <2>3, <2>4 DEF Named, ReplacedIsRevoked, Holds, TypeOK
<1>6. ASSUME NEW t \in Tokens, Expire(t) PROVE IInv'
  BY <1>6 DEF Expire, ghost, TypeOK, Named, ReplacedIsRevoked, Holds
<1>7. CASE UNCHANGED vars
  BY <1>7 DEF vars, rows, ghost, TypeOK, Named, ReplacedIsRevoked, Holds
<1> QED
  BY <1>1, <1>2, <1>3, <1>4, <1>5, <1>6, <1>7 DEF Next

LEMMA InductiveInv == Spec => []IInv
BY InitIInv, StepIInv, PTL DEF Spec

(* Every state of Sessions is well typed.                                  *)
THEOREM SessionsTyped == Spec => []TypeOK
<1>1. IInv => TypeOK
  BY DEF IInv
<1> QED
  BY <1>1, InductiveInv, PTL

(* A refresh token is replaced only after it was revoked, for good.        *)
THEOREM RotationOnUse == Spec => []ReplacedIsRevoked
<1>1. IInv => ReplacedIsRevoked
  BY DEF IInv
<1> QED
  BY <1>1, InductiveInv, PTL

-----------------------------------------------------------------------------
(* What a step does to the requests and tokens of a session s.             *)

(* Requests join a session by starting it or by reading an acceptable      *)
(* token of it; tokens join it from a request under way.                   *)
LEMMA JoinLemma ==
  ASSUME IInv, [Next]_vars, NEW s \in Requests
  PROVE  /\ \A q \in InFlight(s)' \ InFlight(s) :
              \/ q = s /\ at[s] = "idle"
              \/ \E t \in Live(s) : t \notin expired
         /\ \A t \in Live(s)' \ Live(s) : InFlight(s) # {}
         /\ expired \subseteq expired'
<1> USE DEF IInv
<1>1. ASSUME NEW q \in Requests, NEW e \in Emails, Register(q, e) \/ Login(q, e)
      PROVE  /\ \A p \in InFlight(s)' \ InFlight(s) : p = s /\ at[s] = "idle"
             /\ Live(s)' = Live(s) /\ expired' = expired
  BY <1>1 DEF Register, Login, rows, ghost, InFlight, Live, Of, SessionOf,
              Holds, TypeOK
<1>2. ASSUME NEW q \in Requests, NEW t \in Tokens, ReadToken(q, t)
      PROVE  /\ InFlight(s)' \subseteq InFlight(s) \/ t \in Live(s) \ expired
             /\ Live(s)' = Live(s) /\ expired' = expired
  BY <1>2 DEF ReadToken, Acceptable, rows, InFlight, Live, Of, SessionOf,
              TypeOK
<1>3. ASSUME NEW q \in Requests, RevokeToken(q)
      PROVE  /\ InFlight(s)' \subseteq InFlight(s)
             /\ Live(s)' \subseteq Live(s) /\ expired' = expired
  <2>1. InFlight(s)' \subseteq InFlight(s) /\ expired' = expired
    BY <1>3 DEF RevokeToken, AfterError, InFlight, SessionOf, TypeOK
  <2>2. Live(s)' \subseteq Live(s)
    BY <1>3 DEF RevokeToken, Revoked, Live, Of, TypeOK
  <2> QED
    BY <2>1, <2>2
<1>4. ASSUME NEW q \in Requests, NEW t \in Tokens, Issue(q, t)
      PROVE  /\ InFlight(s)' \subseteq InFlight(s)
             /\ Live(s)' \subseteq Live(s) \/ q \in InFlight(s)
             /\ expired' = expired
  <2>1. /\ at[q] = "issuing" /\ token[t] = "unused"
        /\ from' = from /\ expired' = expired /\ at' = [at EXCEPT ![q] = "answered"]
        /\ \/ /\ token' = [token EXCEPT ![t] = "live"]
              /\ session' = [session EXCEPT ![t] = SessionOf(q)]
           \/ UNCHANGED <<token, session>>
    BY <1>4 DEF Issue
  <2>2. \A p \in Requests : SessionOf(p)' = SessionOf(p)
    BY <2>1 DEF SessionOf, Holds, TypeOK
  <2>3. InFlight(s)' \subseteq InFlight(s)
    BY <2>1, <2>2 DEF InFlight, TypeOK
  <2>4. Live(s)' \subseteq Live(s) \/ SessionOf(q) = s
    BY <2>1 DEF Live, Of, TypeOK
  <2> QED
    BY <2>1, <2>3, <2>4 DEF InFlight
<1>5. ASSUME NEW t \in Tokens, Logout(t)
      PROVE  /\ InFlight(s)' = InFlight(s)
             /\ Live(s)' \subseteq Live(s) /\ expired' = expired
  BY <1>5 DEF Logout, Revoked, InFlight, SessionOf, Live, Of, TypeOK
<1>6. ASSUME NEW t \in Tokens, Expire(t)
      PROVE  /\ InFlight(s)' = InFlight(s) /\ Live(s)' = Live(s)
             /\ expired \subseteq expired'
  BY <1>6 DEF Expire, ghost, InFlight, SessionOf, Live, Of
<1>7. CASE UNCHANGED vars
  BY <1>7 DEF vars, rows, ghost, InFlight, SessionOf, Live, Of
<1> QED
  BY <1>1, <1>2, <1>3, <1>4, <1>5, <1>6, <1>7 DEF Next

(* A request that has been answered stays answered.                        *)
LEMMA AnsweredStays ==
  ASSUME IInv, [Next]_vars, NEW s \in Requests, at[s] = "answered"
  PROVE  at'[s] = "answered"
BY DEF IInv, TypeOK, Next, vars, rows, ghost, Register, Login, ReadToken,
       RevokeToken, Issue, Logout, Expire

(* A session that is over never comes back, whatever token is presented.   *)
THEOREM SessionsEnd == Spec => OverForGood
<1>1. ASSUME IInv, [Next]_vars, NEW s \in Requests, Over(s) PROVE Over(s)'
  BY <1>1, JoinLemma, AnsweredStays DEF Over
<1>2. IInv /\ [Next]_vars => [\A s \in Requests : Over(s) => Over(s)']_vars
  BY <1>1
<1> QED
  BY <1>2, InductiveInv, PTL DEF Spec, OverForGood

-----------------------------------------------------------------------------
(* Only a revocation or an issue of its own, or a logout, touches the      *)
(* tokens and requests that keep a session s going.                        *)
Kept(s) == Of(s) # {} /\ s \notin broken \cup left =>
             Live(s) \cap known # {} \/ InFlight(s) # {}

LEMMA KeptStep ==
  ASSUME IInv, [Next]_vars, NEW s \in Requests, Kept(s)
  PROVE  Kept(s)'
<1> USE DEF IInv
<1>1. ASSUME NEW q \in Requests, NEW e \in Emails, Register(q, e) \/ Login(q, e)
      PROVE  Kept(s)'
  <2>1. InFlight(s) \subseteq InFlight(s)'
    BY <1>1 DEF Register, Login, rows, ghost, InFlight, SessionOf, TypeOK
  <2> QED
    BY <1>1, <2>1 DEF Register, Login, rows, ghost, Kept, Of, Live
<1>2. ASSUME NEW q \in Requests, NEW t \in Tokens, ReadToken(q, t)
      PROVE  Kept(s)'
  <2>1. InFlight(s) \subseteq InFlight(s)'
    BY <1>2 DEF ReadToken, rows, InFlight, SessionOf, TypeOK
  <2> QED
    BY <1>2, <2>1 DEF ReadToken, rows, Kept, Of, Live
<1>3. ASSUME NEW q \in Requests, RevokeToken(q) PROVE Kept(s)'
  <2>1. CASE SessionOf(q) = s
    BY <1>3, <2>1 DEF RevokeToken, AfterError, Kept, InFlight, SessionOf, TypeOK
  <2>2. CASE SessionOf(q) # s
    <3>1. InFlight(s)' = InFlight(s)
      BY <1>3, <2>2 DEF RevokeToken, AfterError, InFlight, SessionOf, TypeOK
    <3>2. Live(s)' = Live(s) /\ Of(s)' = Of(s)
      BY <1>3, <2>2 DEF RevokeToken, Revoked, Touched, Live, Of, SessionOf,
                        Holds, TypeOK
    <3> QED
      BY <1>3, <3>1, <3>2 DEF RevokeToken, Kept
  <2> QED
    BY <2>1, <2>2
<1>4. ASSUME NEW q \in Requests, NEW t \in Tokens, Issue(q, t) PROVE Kept(s)'
  <2>1. /\ at[q] = "issuing" /\ token[t] = "unused"
        /\ UNCHANGED <<from, left>> /\ at' = [at EXCEPT ![q] = "answered"]
    BY <1>4 DEF Issue
  <2>2. \/ /\ token' = [token EXCEPT ![t] = "live"] /\ known \subseteq known'
           /\ session' = [session EXCEPT ![t] = SessionOf(q)]
           /\ broken \subseteq broken'
           /\ SessionOf(q) \in broken' \/ t \in known'
        \/ /\ UNCHANGED <<token, session, known>>
           /\ broken' = broken \cup {SessionOf(q)}
    BY <1>4 DEF Issue, MayAnswer
  <2>3. CASE SessionOf(q) = s
    BY <2>1, <2>2, <2>3 DEF Kept, Live, Of, TypeOK
  <2>4. CASE SessionOf(q) # s
    <3>1. InFlight(s)' = InFlight(s)
      BY <2>1, <2>2, <2>4 DEF InFlight, SessionOf, Holds, TypeOK
    <3>2. Live(s)' = Live(s) /\ Of(s)' \subseteq Of(s)
      BY <2>1, <2>2, <2>4 DEF Live, Of, TypeOK
    <3> QED
      BY <2>1, <2>2, <3>1, <3>2 DEF Kept
  <2> QED
    BY <2>3, <2>4
<1>5. ASSUME NEW t \in Tokens, Logout(t) PROVE Kept(s)'
  <2>1. CASE session[t] = s
    BY <1>5, <2>1 DEF Logout, Kept
  <2>2. CASE session[t] # s
    BY <1>5, <2>2 DEF Logout, Revoked, Touched, Kept, InFlight, SessionOf, Live,
                      Of, TypeOK
  <2> QED
    BY <2>1, <2>2
<1>6. ASSUME NEW t \in Tokens, Expire(t) PROVE Kept(s)'
  BY <1>6 DEF Expire, ghost, Kept, InFlight, SessionOf, Live, Of
<1>7. CASE UNCHANGED vars
  BY <1>7 DEF vars, rows, ghost, Kept, InFlight, SessionOf, Live, Of
<1> QED
  BY <1>1, <1>2, <1>3, <1>4, <1>5, <1>6, <1>7 DEF Next

(* No session is lost but by a logout or a fault of its own.               *)
THEOREM SessionsKept == Spec => []SessionKept
<1>1. Init => \A s \in Requests : Kept(s)
  BY DEF Init, Kept, Of
<1>2. IInv /\ (\A s \in Requests : Kept(s)) /\ [Next]_vars
      => (\A s \in Requests : Kept(s))'
  BY KeptStep
<1>3. (\A s \in Requests : Kept(s)) => SessionKept
  BY DEF Kept, SessionKept
<1> QED
  BY <1>1, <1>2, <1>3, InductiveInv, PTL DEF Spec

-----------------------------------------------------------------------------
(* A session's live tokens are counted.                                    *)

(* The cardinality of a set that loses elements or takes one more.         *)
LEMMA Fewer ==
  ASSUME NEW S, IsFiniteSet(S), NEW T, T \subseteq S
  PROVE  /\ IsFiniteSet(T) /\ Cardinality(T) \in Nat /\ Cardinality(S) \in Nat
         /\ Cardinality(T) <= Cardinality(S)
BY FS_Subset, FS_CardinalityType

LEMMA OneMore ==
  ASSUME NEW S, IsFiniteSet(S), NEW T, NEW x, T \subseteq S \cup {x}
  PROVE  /\ IsFiniteSet(T) /\ Cardinality(T) \in Nat /\ Cardinality(S) \in Nat
         /\ Cardinality(T) <= Cardinality(S) + 1
<1>1. /\ IsFiniteSet(S \cup {x}) /\ Cardinality(S) \in Nat
      /\ Cardinality(S \cup {x}) <= Cardinality(S) + 1
  BY FS_AddElement, FS_CardinalityType
<1>2. /\ IsFiniteSet(T) /\ Cardinality(T) \in Nat /\ Cardinality(S \cup {x}) \in Nat
      /\ Cardinality(T) <= Cardinality(S \cup {x})
  BY <1>1, Fewer
<1> QED
  BY <1>1, <1>2

LEMMA OneLess ==
  ASSUME NEW S, IsFiniteSet(S), NEW T, NEW x \in S, T \subseteq S \ {x}
  PROVE  /\ IsFiniteSet(T) /\ Cardinality(T) \in Nat /\ Cardinality(S) \in Nat
         /\ Cardinality(T) + 1 <= Cardinality(S)
<1>1. /\ IsFiniteSet(S \ {x}) /\ Cardinality(S) \in Nat
      /\ Cardinality(S \ {x}) = Cardinality(S) - 1
  BY FS_RemoveElement, FS_CardinalityType
<1>2. /\ IsFiniteSet(T) /\ Cardinality(T) \in Nat
      /\ Cardinality(T) <= Cardinality(S \ {x})
  BY <1>1, Fewer
<1> QED
  BY <1>1, <1>2

(* The live tokens nobody is about to revoke, and the requests under way,  *)
(* each of which may leave one live token behind, are together at most one *)
(* more than the overlaps.  A session that has not started has none.       *)
Free(s)      == {t \in Live(s) : ~Overlapping(t)}
Unstarted(s) == at[s] = "idle" => Of(s) = {}
Counted(s)   ==
  /\ IsFiniteSet(Free(s)) /\ IsFiniteSet(InFlight(s))
  /\ Cardinality(Free(s)) + Cardinality(InFlight(s)) <= 1 + overlaps[s]

LEMMA NotStarted ==
  ASSUME IInv, NEW s \in Requests, at[s] = "idle", Unstarted(s)
  PROVE  Free(s) = {} /\ InFlight(s) = {}
BY DEF IInv, Holds, Unstarted, Free, Live, Of, InFlight, SessionOf, TypeOK

LEMMA UnstartedStep ==
  ASSUME IInv, [Next]_vars, NEW s \in Requests, Unstarted(s)
  PROVE  Unstarted(s)'
<1> SUFFICES ASSUME at'[s] = "idle" PROVE Of(s)' = {}
  BY DEF Unstarted
<1>1. at[s] = "idle"
  BY DEF IInv, TypeOK, Next, vars, rows, ghost, Register, Login, ReadToken,
         RevokeToken, AfterError, Issue, Logout, Expire
<1>2. Of(s) = {} /\ InFlight(s) = {}
  BY <1>1, NotStarted DEF Unstarted
<1>3. ASSUME NEW q \in Requests, NEW t \in Tokens, Issue(q, t)
      PROVE  Of(s)' = {}
  <2>1. SessionOf(q) # s
    BY <1>2, <1>3 DEF InFlight, Issue
  <2>2. session' = session \/ session' = [session EXCEPT ![t] = SessionOf(q)]
    BY <1>3 DEF Issue
  <2> QED
    BY <1>2, <2>1, <2>2 DEF Of, IInv, TypeOK
<1>4. (~ \E q \in Requests, t \in Tokens : Issue(q, t)) => session' = session
  BY DEF Next, vars, rows, ghost, Register, Login, ReadToken, RevokeToken, Logout,
         Expire
<1> QED
  BY <1>2, <1>3, <1>4 DEF Of

LEMMA SameCount ==
  ASSUME NEW s \in Requests, Counted(s), overlaps[s] \in Nat,
         overlaps'[s] = overlaps[s],
         Free(s)' \subseteq Free(s), InFlight(s)' \subseteq InFlight(s)
  PROVE  Counted(s)'
BY Fewer DEF Counted

LEMMA CountStep ==
  ASSUME IInv, [Next]_vars, NEW s \in Requests, Counted(s), Unstarted(s)
  PROVE  Counted(s)'
<1> USE DEF IInv
<1>n. overlaps[s] \in Nat /\ IsFiniteSet(Free(s)) /\ IsFiniteSet(InFlight(s))
  BY DEF TypeOK, Counted
<1>1. ASSUME NEW q \in Requests, NEW e \in Emails, Register(q, e) \/ Login(q, e)
      PROVE  Counted(s)'
  <2>1. /\ at[q] = "idle" /\ at' \in {[at EXCEPT ![q] = "issuing"],
                                      [at EXCEPT ![q] = "answered"]}
        /\ UNCHANGED <<token, from, session, overlaps>> /\ from[q] = None
    BY <1>1 DEF Register, Login, rows, ghost, Holds
  <2>2. Free(s)' = Free(s)
    BY <2>1 DEF Free, Live, Of, Overlapping, TypeOK
  <2>3. CASE q = s
    <3>1. Free(s) = {} /\ InFlight(s) = {}
      BY <2>1, <2>3, NotStarted
    <3>2. InFlight(s)' \subseteq {s}
      BY <2>1, <2>3, <3>1 DEF InFlight, SessionOf, TypeOK
    <3>3. /\ IsFiniteSet({s}) /\ Cardinality({s}) = 1
          /\ IsFiniteSet({}) /\ Cardinality({}) = 0
      BY FS_Singleton, FS_EmptySet
    <3>4. IsFiniteSet(InFlight(s)') /\ Cardinality(InFlight(s)') <= 1
          /\ Cardinality(InFlight(s)') \in Nat
      BY <3>2, <3>3, Fewer
    <3> QED
      BY <1>n, <2>1, <2>2, <3>1, <3>3, <3>4 DEF Counted
  <2>4. CASE q # s
    <3>1. InFlight(s)' \subseteq InFlight(s)
      BY <2>1, <2>4 DEF InFlight, SessionOf, TypeOK
    <3> QED
      BY <1>n, <2>1, <2>2, <3>1, SameCount
  <2> QED
    BY <2>3, <2>4
<1>2. ASSUME NEW q \in Requests, NEW t \in Tokens, ReadToken(q, t)
      PROVE  Counted(s)'
  <2>1. at[q] = "idle" /\ UNCHANGED <<token, session>>
    BY <1>2 DEF ReadToken, rows
  <2>2. CASE at' = [at EXCEPT ![q] = "answered"] /\ UNCHANGED <<from, overlaps>>
    <3>1. Free(s)' = Free(s) /\ InFlight(s)' \subseteq InFlight(s)
      BY <2>1, <2>2 DEF Free, Live, Of, Overlapping, InFlight, SessionOf, TypeOK
    <3> QED
      BY <1>n, <2>2, <3>1, SameCount
  <2>3. CASE /\ Acceptable(t) /\ at' = [at EXCEPT ![q] = "revoking"]
             /\ from' = [from EXCEPT ![q] = t]
             /\ overlaps' = [overlaps EXCEPT ![session[t]] =
                               IF Overlapping(t) THEN @ + 1 ELSE @]
    <3>1. Free(s)' \subseteq Free(s) \ {t}
      BY <2>1, <2>3 DEF Free, Live, Of, Overlapping, TypeOK
    <3>2. InFlight(s)' \subseteq InFlight(s) \cup {q}
      BY <2>1, <2>3 DEF InFlight, SessionOf, TypeOK
    <3>3. CASE session[t] # s
      <4>1. InFlight(s)' \subseteq InFlight(s)
        BY <2>1, <2>3, <3>3 DEF InFlight, SessionOf, TypeOK
      <4>2. overlaps'[s] = overlaps[s]
        BY <2>3, <3>3 DEF TypeOK
      <4> QED
        BY <1>n, <3>1, <4>1, <4>2, SameCount
    <3>4. CASE session[t] = s /\ Overlapping(t)
      <4>1. overlaps'[s] = overlaps[s] + 1
        BY <2>3, <3>4 DEF TypeOK
      <4>2. /\ IsFiniteSet(Free(s)') /\ Cardinality(Free(s)') \in Nat
            /\ Cardinality(Free(s)) \in Nat
            /\ Cardinality(Free(s)') <= Cardinality(Free(s))
        BY <1>n, <3>1, Fewer
      <4>3. /\ IsFiniteSet(InFlight(s)') /\ Cardinality(InFlight(s)') \in Nat
            /\ Cardinality(InFlight(s)) \in Nat
            /\ Cardinality(InFlight(s)') <= Cardinality(InFlight(s)) + 1
        BY <1>n, <3>2, OneMore
      <4> QED
        BY <1>n, <4>1, <4>2, <4>3 DEF Counted
    <3>5. CASE session[t] = s /\ ~Overlapping(t)
      <4>1. overlaps'[s] = overlaps[s] /\ t \in Free(s)
        BY <2>3, <3>5 DEF TypeOK, Acceptable, Free, Live, Of
      <4>2. /\ IsFiniteSet(Free(s)') /\ Cardinality(Free(s)') \in Nat
            /\ Cardinality(Free(s)) \in Nat
            /\ Cardinality(Free(s)') + 1 <= Cardinality(Free(s))
        BY <1>n, <3>1, <4>1, OneLess
      <4>3. /\ IsFiniteSet(InFlight(s)') /\ Cardinality(InFlight(s)') \in Nat
            /\ Cardinality(InFlight(s)) \in Nat
            /\ Cardinality(InFlight(s)') <= Cardinality(InFlight(s)) + 1
        BY <1>n, <3>2, OneMore
      <4> QED
        BY <1>n, <4>1, <4>2, <4>3 DEF Counted
    <3> QED
      BY <3>3, <3>4, <3>5
  <2> QED
    BY <1>2, <2>2, <2>3 DEF ReadToken
<1>3. ASSUME NEW q \in InFlight(s), NEW t \in Tokens,
             InFlight(s)' \subseteq InFlight(s) \ {q},
             Free(s)' \subseteq Free(s) \cup {t}, overlaps'[s] = overlaps[s]
      PROVE  Counted(s)'
  <2>1. /\ IsFiniteSet(Free(s)') /\ Cardinality(Free(s)') \in Nat
        /\ Cardinality(Free(s)) \in Nat
        /\ Cardinality(Free(s)') <= Cardinality(Free(s)) + 1
    BY <1>n, <1>3, OneMore
  <2>2. /\ IsFiniteSet(InFlight(s)') /\ Cardinality(InFlight(s)') \in Nat
        /\ Cardinality(InFlight(s)) \in Nat
        /\ Cardinality(InFlight(s)') + 1 <= Cardinality(InFlight(s))
    BY <1>n, <1>3, OneLess
  <2> QED
    BY <1>n, <1>3, <2>1, <2>2 DEF Counted
<1>4. ASSUME NEW q \in Requests, RevokeToken(q) PROVE Counted(s)'
  <2>1. /\ from[q] \in Tokens /\ at[q] = "revoking"
        /\ UNCHANGED <<from, session, overlaps>>
    BY <1>4 DEF RevokeToken, Holds, TypeOK
  <2>2. CASE token' = Revoked(Touched(from[q])) /\ at' = [at EXCEPT ![q] = "issuing"]
    <3>1. Free(s)' \subseteq Free(s)
      BY <2>1, <2>2, RevokedToken DEF Free, Live, Of, Overlapping, TypeOK
    <3>2. InFlight(s)' \subseteq InFlight(s)
      BY <2>1, <2>2 DEF InFlight, SessionOf, TypeOK
    <3> QED
      BY <1>n, <2>1, <3>1, <3>2, SameCount
  <2>3. CASE /\ token' \in {token, Revoked(Touched(from[q]))}
             /\ at' = [at EXCEPT ![q] = "answered"]
    <3>1. \A u \in Tokens : token'[u] = "live" => token[u] = "live"
      BY <2>1, <2>3, RevokedToken DEF TypeOK
    <3>2. Free(s)' \subseteq Free(s) \cup {from[q]}
      BY <2>1, <2>3, <3>1 DEF Free, Live, Of, Overlapping, TypeOK
    <3>3. InFlight(s)' \subseteq InFlight(s) \ {q}
      BY <2>1, <2>3 DEF InFlight, SessionOf, TypeOK
    <3>4. CASE SessionOf(q) = s
      <4>1. q \in InFlight(s)
        BY <2>1, <3>4 DEF InFlight
      <4> QED
        BY <1>3, <2>1, <3>2, <3>3, <4>1
    <3>5. CASE SessionOf(q) # s
      <4>1. from[q] \notin Free(s)'
        BY <2>1, <3>5 DEF Free, Live, Of, SessionOf
      <4> QED
        BY <1>n, <2>1, <3>2, <3>3, <4>1, SameCount
    <3> QED
      BY <3>4, <3>5
  <2> QED
    BY <1>4, <2>2, <2>3 DEF RevokeToken, AfterError
<1>5. ASSUME NEW q \in Requests, NEW t \in Tokens, Issue(q, t) PROVE Counted(s)'
  <2>1. /\ at[q] = "issuing" /\ token[t] = "unused"
        /\ UNCHANGED <<from, overlaps>> /\ at' = [at EXCEPT ![q] = "answered"]
        /\ \/ /\ token' = [token EXCEPT ![t] = "live"]
              /\ session' = [session EXCEPT ![t] = SessionOf(q)]
           \/ UNCHANGED <<token, session>>
    BY <1>5 DEF Issue
  <2>2. InFlight(s)' \subseteq InFlight(s) \ {q}
    BY <2>1 DEF InFlight, SessionOf, Holds, TypeOK
  <2>3. CASE SessionOf(q) = s
    <3>1. q \in InFlight(s)
      BY <2>1, <2>3 DEF InFlight
    <3>2. Free(s)' \subseteq Free(s) \cup {t}
      BY <2>1 DEF Free, Live, Of, Overlapping, TypeOK
    <3> QED
      BY <1>3, <2>1, <2>2, <3>1, <3>2
  <2>4. CASE SessionOf(q) # s
    <3>1. Free(s)' \subseteq Free(s)
      BY <2>1, <2>4 DEF Free, Live, Of, Overlapping, TypeOK
    <3> QED
      BY <1>n, <2>1, <2>2, <3>1, SameCount
  <2> QED
    BY <2>3, <2>4
<1>6. ASSUME NEW t \in Tokens, Logout(t) PROVE Counted(s)'
  <2>1. UNCHANGED <<at, from, session, overlaps>>
    BY <1>6 DEF Logout
  <2>2. \A u \in Tokens : token'[u] = "live" => token[u] = "live"
    BY <1>6, RevokedToken DEF Logout, TypeOK
  <2>3. Free(s)' \subseteq Free(s) /\ InFlight(s)' \subseteq InFlight(s)
    BY <2>1, <2>2 DEF Free, Live, Of, Overlapping, InFlight, SessionOf
  <2> QED
    BY <1>n, <2>1, <2>3, SameCount
<1>7. ASSUME UNCHANGED vars \/ \E t \in Tokens : Expire(t) PROVE Counted(s)'
  <2>1. UNCHANGED <<token, at, from, session, overlaps>>
    BY <1>7 DEF vars, rows, ghost, Expire
  <2> QED
    BY <2>1 DEF Counted, Free, Live, Of, Overlapping, InFlight, SessionOf
<1> QED
  BY <1>1, <1>2, <1>4, <1>5, <1>6, <1>7 DEF Next

(* A live token is free, or some request under way is about to revoke it.  *)
LEMMA CountedBounds ==
  ASSUME IInv, NEW s \in Requests, Counted(s)
  PROVE  Cardinality(Live(s)) <= 1 + overlaps[s]
<1> DEFINE P == {q \in InFlight(s) : at[q] = "revoking"}
           R == {from[q] : q \in P}
           f == [q \in P |-> from[q]]
<1>1. IsFiniteSet(P) /\ Cardinality(P) <= Cardinality(InFlight(s))
      /\ Cardinality(P) \in Nat /\ Cardinality(InFlight(s)) \in Nat
  BY Fewer DEF Counted
<1>2. f \in Surjection(P, R)
  BY DEF Surjection
<1>3. IsFiniteSet(R) /\ Cardinality(R) <= Cardinality(P) /\ Cardinality(R) \in Nat
  BY <1>1, <1>2, FS_Surjection, FS_CardinalityType
<1>4. Live(s) \subseteq Free(s) \cup R
  <2> SUFFICES ASSUME NEW t \in Live(s), Overlapping(t) PROVE t \in R
    BY DEF Free
  <2>1. PICK q \in Requests : at[q] = "revoking" /\ from[q] = t
    BY DEF Overlapping
  <2>2. q \in P
    BY <2>1, NoneAssumption DEF InFlight, SessionOf, Live, Of
  <2> QED
    BY <2>1, <2>2
<1> HIDE DEF P, R, f
<1>5. /\ IsFiniteSet(Free(s) \cup R) /\ Cardinality(Free(s)) \in Nat
      /\ Cardinality(Free(s) \cup R) <= Cardinality(Free(s)) + Cardinality(R)
  <2>1. IsFiniteSet(Free(s))
    BY DEF Counted
  <2>2. Cardinality(Free(s)) \in Nat /\ Cardinality(Free(s) \cap R) \in Nat
    BY <2>1, Fewer
  <2>3. /\ IsFiniteSet(Free(s) \cup R)
        /\ Cardinality(Free(s) \cup R) =
             Cardinality(Free(s)) + Cardinality(R) - Cardinality(Free(s) \cap R)
    BY <1>3, <2>1, FS_Union
  <2> QED
    BY <1>3, <2>2, <2>3
<1>6. /\ Cardinality(Live(s)) \in Nat /\ Cardinality(Free(s) \cup R) \in Nat
      /\ Cardinality(Live(s)) <= Cardinality(Free(s) \cup R)
  BY <1>4, <1>5, Fewer
<1> QED
  BY <1>1, <1>3, <1>5, <1>6 DEF Counted, IInv, TypeOK

(* A session multiplies only by overlap: it has at most one live token for *)
(* each refresh that read a token another was revoking, and one more.      *)
THEOREM TokensAreCounted == Spec => []LiveTokensCounted
<1> DEFINE Inv == \A s \in Requests : Counted(s) /\ Unstarted(s)
<1>1. Init => Inv
  <2> SUFFICES ASSUME Init, NEW s \in Requests PROVE Counted(s) /\ Unstarted(s)
    OBVIOUS
  <2>1. Of(s) = {} /\ Live(s) = {} /\ Free(s) = {} /\ InFlight(s) = {}
    BY DEF Init, Of, Live, Free, InFlight
  <2>2. IsFiniteSet({}) /\ Cardinality({}) = 0
    BY FS_EmptySet
  <2> QED
    BY <2>1, <2>2 DEF Init, Counted, Unstarted
<1>2. IInv /\ Inv /\ [Next]_vars => Inv'
  BY CountStep, UnstartedStep
<1>3. IInv /\ Inv => LiveTokensCounted
  BY CountedBounds DEF LiveTokensCounted
<1> HIDE DEF Inv
<1> QED
  BY <1>1, <1>2, <1>3, InductiveInv, PTL DEF Spec
=============================================================================
