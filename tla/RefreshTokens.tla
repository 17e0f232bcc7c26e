--------------------------- MODULE RefreshTokens ---------------------------
(***************************************************************************)
(* Refresh tokens of one user: backend/app/auth/refresh.py as its callers  *)
(* in auth/routes.py use it (login, /refresh, /logout).  A token is a key  *)
(* in Redis with a time to live; the user's set lists the tokens, so that  *)
(* all of them can be found, and has a time to live of its own.  Every     *)
(* Redis command is an await and may raise: the command is not executed,   *)
(* and a request whose command raised has nothing to return.               *)
(*                                                                         *)
(* Tokens are fresh values; which login a token goes back to is history.   *)
(* revoke_all_for_user has no caller and is left out.  Time is in ticks.   *)
(***************************************************************************)
EXTENDS Naturals, FiniteSets

CONSTANTS
  Sessions,   \* concurrent requests of the user's clients
  Tokens,     \* bound: the tokens that may be made
  Logins,     \* bound: the logins
  Ttl         \* REFRESH_TTL_SECONDS, in ticks

None == "none"

ASSUME RefreshAssumption ==
  /\ Ttl \in Nat \ {0}
  /\ None \notin Logins

VARIABLES
  tokenTtl,   \* ticks until each token's key expires, 0 when there is none
  index,      \* the user's set of tokens
  indexTtl,   \* ticks until it expires, 0 when it has no expiry or is empty
  pc,         \* where each request is
  token,      \* the token it consumes, revokes or issues, if any
  login,      \* the login it acts for, if any
  loginOf,    \* history: the login each token goes back to
  known,      \* history: the tokens returned to a client
  ended,      \* history: the logins of tokens that a logout found and deleted
  dropped     \* history: tokens just added to an index when it expired

redisVars == <<tokenTtl, index, indexTtl>>
sessionVars == <<pc, token, login>>
historyVars == <<loginOf, known, ended, dropped>>
refreshVars == <<redisVars, sessionVars, historyVars>>

Live(t) == tokenTtl[t] > 0
Made == {t \in Tokens : loginOf[t] # None}

RefreshTypeOK ==
  /\ tokenTtl \in [Tokens -> 0 .. Ttl]
  /\ index \subseteq Tokens
  /\ indexTtl \in 0 .. Ttl
  /\ pc \in [Sessions -> {"idle", "srem", "set", "sadd", "expire",
                         "delete", "deleteLost", "unindex"}]
  /\ token \in [Sessions -> Tokens \cup {None}]
  /\ login \in [Sessions -> Logins \cup {None}]
  /\ loginOf \in [Tokens -> Logins \cup {None}]
  /\ known \subseteq Made
  /\ ended \subseteq Logins
  /\ dropped \subseteq Tokens

RefreshInit ==
  /\ tokenTtl = [t \in Tokens |-> 0]
  /\ index = {}
  /\ indexTtl = 0
  /\ pc = [r \in Sessions |-> "idle"]
  /\ token = [r \in Sessions |-> None]
  /\ login = [r \in Sessions |-> None]
  /\ loginOf = [t \in Tokens |-> None]
  /\ known = {}
  /\ ended = {}
  /\ dropped = {}

GoTo(r, label) == pc' = [pc EXCEPT ![r] = label]

(* The request returns.                                                      *)
Done(r) ==
  /\ GoTo(r, "idle")
  /\ token' = [token EXCEPT ![r] = None]
  /\ login' = [login EXCEPT ![r] = None]

-----------------------------------------------------------------------------

(* A login, which goes on to issue a token.                                  *)
Login(r, l) ==
  /\ pc[r] = "idle"
  /\ \A t \in Tokens : loginOf[t] # l
  /\ \A q \in Sessions : login[q] # l
  /\ login' = [login EXCEPT ![r] = l]
  /\ GoTo(r, "set")
  /\ UNCHANGED <<redisVars, token, historyVars>>

(* Mutant: GET here and DELETE later, with the removal from the index.       *)
ConsumeByGet(r, t) ==
  /\ pc[r] = "idle"
  /\ t \in known /\ Live(t)
  /\ token' = [token EXCEPT ![r] = t]
  /\ login' = [login EXCEPT ![r] = loginOf[t]]
  /\ GoTo(r, "srem")
  /\ UNCHANGED <<redisVars, historyVars>>

(* consume_refresh_token: GETDEL.  A token that is not there is a 401.       *)
Consume(r, t) ==
  /\ pc[r] = "idle"
  /\ t \in known /\ Live(t)
  /\ tokenTtl' = [tokenTtl EXCEPT ![t] = 0]
  /\ token' = [token EXCEPT ![r] = t]
  /\ login' = [login EXCEPT ![r] = loginOf[t]]
  /\ GoTo(r, "srem")
  /\ UNCHANGED <<index, indexTtl, historyVars>>

(* An empty set is no key and has no expiry.                                 *)
Unindex(t) ==
  /\ index' = index \ {t}
  /\ indexTtl' = IF index' = {} THEN 0 ELSE indexTtl

(* The removal from the index is best effort.                                *)
Forget(r) ==
  /\ pc[r] = "srem"
  /\ Unindex(token[r]) \/ UNCHANGED <<index, indexTtl>>
  /\ GoTo(r, "set")
  /\ UNCHANGED <<tokenTtl, token, login, historyVars>>

(* issue_refresh_token: SET of a fresh value, with the time to live.         *)
Set(r, t) ==
  /\ pc[r] = "set"
  /\ Tokens \ Made # {} /\ t = CHOOSE u \in Tokens : u \notin Made
  /\ tokenTtl' = [tokenTtl EXCEPT ![t] = Ttl]
  /\ loginOf' = [loginOf EXCEPT ![t] = login[r]]
  /\ token' = [token EXCEPT ![r] = t]
  /\ GoTo(r, "sadd")
  /\ UNCHANGED <<index, indexTtl, login, known, ended, dropped>>

Add(r) ==
  /\ pc[r] = "sadd"
  /\ index' = index \cup {token[r]}
  /\ GoTo(r, "expire")
  /\ UNCHANGED <<tokenTtl, indexTtl, token, login, historyVars>>

(* Mutant: the index gets its time to live once, when it is made.            *)
ExtendOnce(r) ==
  /\ pc[r] = "expire"
  /\ indexTtl' = IF index = {} \/ indexTtl > 0 THEN indexTtl ELSE Ttl
  /\ known' = known \cup {token[r]}
  /\ Done(r)
  /\ UNCHANGED <<tokenTtl, index, loginOf, ended, dropped>>

(* EXPIRE, which does nothing to a key that is gone; the token is returned.  *)
Extend(r) ==
  /\ pc[r] = "expire"
  /\ indexTtl' = IF index = {} THEN indexTtl ELSE Ttl
  /\ known' = known \cup {token[r]}
  /\ Done(r)
  /\ UNCHANGED <<tokenTtl, index, loginOf, ended, dropped>>

(* A command raises: no token is returned, and what was done stays.          *)
IssueFails(r) ==
  /\ pc[r] \in {"set", "sadd", "expire"}
  /\ Done(r)
  /\ UNCHANGED <<redisVars, historyVars>>

(* revoke_refresh_token looks its token up, ...                              *)
Logout(r, t) ==
  /\ pc[r] = "idle"
  /\ t \in known
  /\ token' = [token EXCEPT ![r] = t]
  /\ GoTo(r, IF Live(t) THEN "delete" ELSE "deleteLost")
  /\ UNCHANGED <<redisVars, login, historyVars>>

(* ... deletes it, also when it has not found it, ...                        *)
Delete(r) ==
  /\ pc[r] \in {"delete", "deleteLost"}
  /\ tokenTtl' = [tokenTtl EXCEPT ![token[r]] = 0]
  /\ ended' = IF pc[r] = "delete" THEN ended \cup {loginOf[token[r]]} ELSE ended
  /\ IF pc[r] = "delete" THEN GoTo(r, "unindex") /\ UNCHANGED <<token, login>> ELSE Done(r)
  /\ UNCHANGED <<index, indexTtl, loginOf, known, dropped>>

(* ... and takes it out of the index.                                        *)
FinishLogout(r) ==
  /\ pc[r] = "unindex"
  /\ Unindex(token[r])
  /\ Done(r)
  /\ UNCHANGED <<tokenTtl, historyVars>>

LogoutFails(r) ==
  /\ pc[r] \in {"delete", "deleteLost", "unindex"}
  /\ Done(r)
  /\ UNCHANGED <<redisVars, historyVars>>

OneLess(k) == IF k = 0 THEN 0 ELSE k - 1

(* Time passes; a key whose time is up is gone, and the index with all its
   members.                                                                  *)
ExpireKeys ==
  /\ tokenTtl' = [t \in Tokens |-> OneLess(tokenTtl[t])]
  /\ indexTtl' = OneLess(indexTtl)
  /\ IF indexTtl = 1
       THEN /\ index' = {}
            /\ dropped' = dropped \cup {token[r] : r \in {q \in Sessions : pc[q] = "expire"}}
       ELSE UNCHANGED <<index, dropped>>
  /\ UNCHANGED <<sessionVars, loginOf, known, ended>>

RefreshNext ==
  \/ \E r \in Sessions :
       \/ \E l \in Logins : Login(r, l)
       \/ \E t \in Tokens : Consume(r, t) \/ Set(r, t) \/ Logout(r, t)
       \/ Forget(r) \/ Add(r) \/ Extend(r) \/ IssueFails(r)
       \/ Delete(r) \/ FinishLogout(r) \/ LogoutFails(r)
  \/ ExpireKeys

RefreshSpec == RefreshInit /\ [][RefreshNext]_refreshVars

-----------------------------------------------------------------------------

(* However many requests use one token at a time, a login has at most one live
   token, or one on its way: the chain of rotations does not fork.           *)
ChainsDoNotFork ==
  /\ \A t, u \in Made :
       (Live(t) /\ Live(u) /\ loginOf[t] = loginOf[u]) => t = u
  /\ \A r \in Sessions, t \in Made :
       (pc[r] \in {"srem", "set"} /\ Live(t)) => loginOf[t] # login[r]

(* A live token that a client holds is in the index, so that all tokens of the
   user can be found: the index outlives them, unless it expires between the two
   commands that add the token and extend it.                                *)
LiveTokensAreIndexed == \A t \in known : Live(t) => t \in index \cup dropped
-----------------------------------------------------------------------------
(* What the logout's documentation says and a rotation in between undoes.    *)

(* routes.py:366-368, "that refresh token is also revoked ... so the long-lived
   credential dies with the session": after a logout that found its token, no
   token of the login is live.                                               *)
LogoutIsFinal ==
  \A t \in Made : Live(t) => loginOf[t] \notin ended
=============================================================================
