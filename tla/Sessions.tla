------------------------------- MODULE Sessions -------------------------------
(***************************************************************************)
(* Accounts and their tokens: signing in, the exchange of a refresh token  *)
(* for a new pair, signing out, and the check that every other request     *)
(* passes (auth/handlers.go, auth/auth.go, AuthMiddleware).                *)
(*                                                                         *)
(* A token carries its own time to expire; what ends it earlier is a key   *)
(* in Redis that expires with it.  An action is one statement or one       *)
(* command; a request first verifies its token, which takes neither.       *)
(***************************************************************************)
EXTENDS Naturals, FiniteSets

CONSTANTS
  Accounts,                    (* by e-mail address                          *)
  Known,                       (* those with a row at the beginning          *)
  SignIns, Refreshes,          (* POST /auth/login, /auth/refresh            *)
  Queries, SignOuts, Signups,  (* requests behind AuthMiddleware             *)
  Expiry, RefreshExpiry,       (* lifetimes of the two kinds of token        *)
  MaxTime, MaxTokens,          (* BOUND: ticks of the clock, tokens issued   *)
  MaxAuthFaults,               (* BOUND: statements and commands that fail   *)
  None

Guarded == Queries \cup SignOuts \cup Signups
AuthCalls == SignIns \cup Refreshes \cup Guarded
TokenIds == 1..MaxTokens

ASSUME SessionsAssumption ==
  /\ Known \subseteq Accounts
  /\ SignIns \cap (Refreshes \cup Guarded) = {} /\ Refreshes \cap Guarded = {}
  /\ SignOuts \cap (Queries \cup Signups) = {} /\ Queries \cap Signups = {}
  /\ Expiry \in Nat \ {0} /\ RefreshExpiry \in Nat \ {0}
  /\ MaxTime \in Nat /\ MaxTokens \in Nat /\ MaxAuthFaults \in Nat

Tokens == [id : TokenIds, kind : {"access", "refresh"}, user : Accounts, expires : Nat]

ASSUME NoneAssumption == None \notin Tokens \cup Accounts

VARIABLES
  account,     (* users: whether there is a row, and its is_active           *)
  tokens,      (* those issued                                               *)
  revoked,     (* when the key token:blacklist:{jti} expires; 0 without one  *)
  blacklist,   (* whether the process has a Redis                            *)
  time,
  phase,       (* the next statement or command of each request              *)
  shown,       (* the token it came with                                     *)
  subject,     (* the account it is about                                    *)
  result,      (* its answer                                                 *)
  late,        (* HISTORY: requests that came with a token revoked by then   *)
  barred,      (* HISTORY: those that came for an account disabled by then   *)
  excused,     (* HISTORY: whose check Redis did not answer, or not before   *)
               (* the token had expired                                      *)
  authFaults   (* statements and commands that may still fail                *)

authTables == <<account, tokens, revoked, blacklist>>
authHistory == <<late, barred, excused>>
authVars == <<authTables, time, phase, shown, subject, result, authHistory, authFaults>>

Phases == {"idle", "check", "active", "revoke", "issue", "name", "insert", "done"}

SessionsTypeOK ==
  /\ account \in [Accounts -> {"none", "active", "disabled"}]
  /\ tokens \subseteq Tokens
  /\ \A t, u \in tokens : t.id = u.id => t = u
  /\ revoked \in [TokenIds -> 0..MaxTime + Expiry + RefreshExpiry]
  /\ time \in 0..MaxTime
  /\ phase \in [AuthCalls -> Phases]
  /\ \A q \in AuthCalls : shown[q] \in tokens \cup {None} /\ subject[q] \in Accounts \cup {None}
  /\ result \in [AuthCalls -> {"none", "served", "refused", "failed"}]
  /\ late \cup barred \cup excused \subseteq AuthCalls
  /\ authFaults \in 0..MaxAuthFaults

SessionsInit ==
  /\ account = [u \in Accounts |-> IF u \in Known THEN "active" ELSE "none"]
  /\ tokens = {}
  /\ revoked = [i \in TokenIds |-> 0]
  /\ time = 0
  /\ phase = [q \in AuthCalls |-> "idle"]
  /\ shown = [q \in AuthCalls |-> None]
  /\ subject = [q \in AuthCalls |-> None]
  /\ result = [q \in AuthCalls |-> "none"]
  /\ late = {} /\ barred = {} /\ excused = {}

-----------------------------------------------------------------------------
Valid(t) == time < t.expires
Listed(t) == time < revoked[t.id]

MovesOn(q, from, to) ==
  /\ phase[q] = from
  /\ phase' = [phase EXCEPT ![q] = to]
  /\ UNCHANGED result

Replies(q, from, r) ==
  /\ phase[q] = from
  /\ phase' = [phase EXCEPT ![q] = "done"]
  /\ result' = [result EXCEPT ![q] = r]

Granted == UNCHANGED authFaults
Denied  == authFaults > 0 /\ authFaults' = authFaults - 1

-----------------------------------------------------------------------------
(* Signing in.  The user's row is read once; a wrong password is refused.  *)

SignIn(q) ==
  /\ \E u \in Accounts :
       /\ subject' = [subject EXCEPT ![q] = u]
       /\ \/ account[u] = "active" /\ MovesOn(q, "idle", "issue") /\ Granted
          \/ Replies(q, "idle", "refused") /\ Granted
          \/ Replies(q, "idle", "failed") /\ Denied
  /\ UNCHANGED <<authTables, time, shown, authHistory>>

\* A new pair of tokens.  To exchange a token, the account is read once more, but
\* not its is_active.
Issue(q) ==
  LET n == Cardinality(tokens)
      New(i, k, life) == [id |-> n + i, kind |-> k, user |-> subject[q], expires |-> time + life]
  IN /\ \/ /\ n + 2 <= MaxTokens
           /\ Replies(q, "issue", "served") /\ Granted
           /\ tokens' = tokens \cup {New(1, "access", Expiry), New(2, "refresh", RefreshExpiry)}
        \/ /\ q \in Refreshes
           /\ Replies(q, "issue", "failed") /\ Denied
           /\ UNCHANGED tokens
     /\ UNCHANGED <<account, revoked, blacklist, time, shown, subject, authHistory>>

-----------------------------------------------------------------------------
(* The verification of a token, and the check of the key in Redis.         *)

KindFor(q) == IF q \in Refreshes THEN "refresh" ELSE "access"

\* ValidateToken: the signature, the time and the kind.
Presents(q) ==
  /\ q \notin SignIns
  /\ \E t \in tokens :
       /\ shown' = [shown EXCEPT ![q] = t]
       /\ subject' = [subject EXCEPT ![q] = t.user]
       /\ IF Valid(t) /\ t.kind = KindFor(q)
          THEN MovesOn(q, "idle", "check") ELSE Replies(q, "idle", "refused")
       /\ late' = IF revoked[t.id] > 0 THEN late \cup {q} ELSE late
       /\ barred' = IF account[t.user] = "disabled" THEN barred \cup {q} ELSE barred
  /\ UNCHANGED <<authTables, time, excused, authFaults>>

\* What a request does when its token is accepted.
Accepted(q) ==
  CASE q \in Refreshes -> MovesOn(q, "check", "active")
    [] q \in SignOuts  -> MovesOn(q, "check", "revoke")
    [] q \in Signups   -> MovesOn(q, "check", "name")
    [] OTHER           -> Replies(q, "check", "served")

\* EXISTS.  Without an answer a refresh fails, and any other request goes on.
CheckKey(q) ==
  /\ phase[q] = "check"
  /\ \/ /\ ~blacklist
        /\ Accepted(q) /\ Granted /\ UNCHANGED excused
     \/ /\ blacklist
        /\ IF Listed(shown[q]) THEN Replies(q, "check", "refused") ELSE Accepted(q)
        /\ Granted
        /\ excused' = IF Valid(shown[q]) THEN excused ELSE excused \cup {q}
     \/ /\ blacklist
        /\ IF q \in Refreshes THEN Replies(q, "check", "failed") ELSE Accepted(q)
        /\ Denied
        /\ excused' = excused \cup {q}
  /\ UNCHANGED <<authTables, time, shown, subject, late, barred>>

-----------------------------------------------------------------------------
(* The exchange of a refresh token, and signing out.                       *)

IsActive(q) ==
  /\ phase[q] = "active"
  /\ \/ account[subject[q]] = "active" /\ MovesOn(q, "active", "revoke") /\ Granted
     \/ account[subject[q]] # "active" /\ Replies(q, "active", "refused") /\ Granted
     \/ Replies(q, "active", "failed") /\ Denied
  /\ UNCHANGED <<authTables, time, shown, subject, authHistory>>

\* Slip: the key lives as long as an access token.
RevokeForAnHour(q) ==
  LET t == shown[q]
  IN /\ phase[q] = "revoke"
     /\ IF q \in Refreshes THEN MovesOn(q, "revoke", "issue") ELSE Replies(q, "revoke", "served")
     /\ \/ /\ blacklist /\ Valid(t) /\ Granted
           /\ revoked' = [revoked EXCEPT ![t.id] = time + Expiry]
        \/ /\ blacklist /\ Valid(t) /\ Denied
           /\ UNCHANGED revoked
        \/ /\ ~(blacklist /\ Valid(t)) /\ Granted
           /\ UNCHANGED revoked
     /\ UNCHANGED <<account, tokens, blacklist, time, shown, subject, authHistory>>

\* SET, until the token expires; an error is logged.
Revoke(q) ==
  LET t == shown[q]
  IN /\ phase[q] = "revoke"
     /\ IF q \in Refreshes THEN MovesOn(q, "revoke", "issue") ELSE Replies(q, "revoke", "served")
     /\ \/ /\ blacklist /\ Valid(t) /\ Granted
           /\ revoked' = [revoked EXCEPT ![t.id] = t.expires]
        \/ /\ blacklist /\ Valid(t) /\ Denied
           /\ UNCHANGED revoked
        \/ /\ ~(blacklist /\ Valid(t)) /\ Granted
           /\ UNCHANGED revoked
     /\ UNCHANGED <<account, tokens, blacklist, time, shown, subject, authHistory>>

-----------------------------------------------------------------------------
(* A new account.  No request changes organisations or roles: a request    *)
(* that names one that is not there is refused.                            *)

NameFree(q) ==
  /\ \E u \in Accounts :
       /\ subject' = [subject EXCEPT ![q] = u]
       /\ \/ account[u] = "none" /\ MovesOn(q, "name", "insert") /\ Granted
          \/ Replies(q, "name", "refused") /\ Granted
          \/ Replies(q, "name", "failed") /\ Denied
  /\ UNCHANGED <<authTables, time, shown, authHistory>>

\* users.email is UNIQUE.
InsertAccount(q) ==
  /\ phase[q] = "insert"
  /\ \/ /\ account[subject[q]] = "none"
        /\ Replies(q, "insert", "served") /\ Granted
        /\ account' = [account EXCEPT ![subject[q]] = "active"]
     \/ /\ Replies(q, "insert", "failed")
        /\ IF account[subject[q]] = "none" THEN Denied ELSE Granted
        /\ UNCHANGED account
  /\ UNCHANGED <<tokens, revoked, blacklist, time, shown, subject, authHistory>>

\* No handler does this; an operator may.
Disable(u) ==
  /\ account[u] = "active"
  /\ account' = [account EXCEPT ![u] = "disabled"]
  /\ UNCHANGED <<tokens, revoked, blacklist, time, phase, shown, subject, result, authHistory, authFaults>>

TimePasses ==
  /\ time < MaxTime /\ time' = time + 1
  /\ UNCHANGED <<authTables, phase, shown, subject, result, authHistory, authFaults>>

SessionStep(q) ==
  \/ q \in SignIns /\ SignIn(q)
  \/ Issue(q) \/ Presents(q) \/ CheckKey(q) \/ IsActive(q) \/ Revoke(q)
  \/ NameFree(q) \/ InsertAccount(q)

-----------------------------------------------------------------------------
(* A request that comes with a token that has been revoked is not served,  *)
(* unless Redis does not answer its check, or only after the token has     *)
(* expired between the verification and the check; one that comes to       *)
(* exchange a token of a disabled account never is.  So two requests are   *)
(* served one refresh token only if neither waited for the other, or the   *)
(* key could not be written.  auth/handlers.go:210-429, middleware.go:218  *)
RefusedAfterEnd ==
  \A q \in AuthCalls : result[q] = "served" =>
    /\ q \in late => q \in excused
    /\ q \in Refreshes => q \notin barred
=============================================================================
