---------------------------- MODULE AccountProofs ----------------------------
(***************************************************************************)
(* Proofs about what an account may do: RefreshTokens for every set of     *)
(* requests, tokens and logins and every time to live; PlanLimits for      *)
(* every set of requests, every table of plans and any number of days;     *)
(* Billing for every set of requests, events and plans.  The three share   *)
(* no state.                                                               *)
(***************************************************************************)
EXTENDS RefreshTokens, PlanLimits, Billing, TLAPS

-----------------------------------------------------------------------------
(* RefreshTokens                                                           *)

(* A request has taken a login's token and not made the next one yet, or holds one
   that is not returned to the client yet.                                   *)
Rotating(r) == pc[r] \in {"srem", "set"}
Issuing(r) == pc[r] \in {"sadd", "expire"}
Revoking(r) == pc[r] \in {"delete", "deleteLost", "unindex"}

(* What a request holds at each of its awaits.                               *)
SessionInv(r) ==
  /\ Rotating(r) => login[r] \in Logins
  /\ pc[r] = "srem" \/ Issuing(r) \/ Revoking(r) => token[r] \in Made
  /\ pc[r] = "srem" \/ Revoking(r) => token[r] \in known
  /\ Issuing(r) => token[r] \notin known
  /\ pc[r] \in {"srem", "unindex"} => ~Live(token[r])
  /\ pc[r] = "expire" => token[r] \in index \cup dropped

(* A login is in one place: a live token or a request that rotates it.       *)
ChainInv ==
  /\ \A t \in Tokens : Live(t) => t \in Made
  /\ \A r, q \in Sessions : (Rotating(r) /\ Rotating(q) /\ login[r] = login[q]) => r = q
  /\ \A r, q \in Sessions : (Issuing(r) /\ Issuing(q) /\ token[r] = token[q]) => r = q
  /\ ChainsDoNotFork

(* The index lives as long as the tokens it lists.                           *)
IndexInv ==
  \A t \in known \ dropped : Live(t) => t \in index /\ tokenTtl[t] <= indexTtl

RefreshInv ==
  /\ RefreshTypeOK
  /\ \A r \in Sessions : SessionInv(r)
  /\ ChainInv
  /\ IndexInv

LEMMA RefreshInitInv == RefreshInit => RefreshInv
<1> SUFFICES ASSUME RefreshInit PROVE RefreshInv
  OBVIOUS
<1>1. RefreshTypeOK
  BY RefreshAssumption DEF RefreshInit, RefreshTypeOK, Made
<1> QED
  BY <1>1 DEF RefreshInit, RefreshInv, SessionInv, Rotating, Issuing, Revoking, ChainInv,
              ChainsDoNotFork, IndexInv, Live, Made

(* A request returns: what it held is no longer on its way.                  *)
LEMMA DoneKeepsInv ==
  ASSUME RefreshInv, NEW r \in Sessions, Done(r), UNCHANGED <<redisVars, historyVars>>
  PROVE  RefreshInv'
<1> USE DEF RefreshInv
<1>1. RefreshTypeOK'
  BY DEF Done, GoTo, redisVars, historyVars, RefreshTypeOK, Made
<1>2. \A q \in Sessions : SessionInv(q)'
  BY DEF Done, GoTo, redisVars, historyVars, RefreshTypeOK, SessionInv, Rotating, Issuing, Revoking,
         Made, Live
<1>3. ChainInv'
  BY DEF Done, GoTo, redisVars, historyVars, RefreshTypeOK, ChainInv, Rotating, Issuing,
         ChainsDoNotFork, Made, Live
<1>4. IndexInv'
  BY DEF redisVars, historyVars, IndexInv, Live
<1> QED
  BY <1>1, <1>2, <1>3, <1>4

(* Taking a token that is not live out of the index.                         *)
LEMMA UnindexKeepsIndex ==
  ASSUME RefreshInv, NEW t \in Tokens, ~Live(t), Unindex(t), UNCHANGED <<tokenTtl, known, dropped>>
  PROVE  index' \subseteq Tokens /\ indexTtl' \in 0 .. Ttl /\ IndexInv'
<1> USE DEF RefreshInv
<1>1. index' = index \ {t} /\ indexTtl' = IF index' = {} THEN 0 ELSE indexTtl
  BY DEF Unindex
<1>2. index' \subseteq Tokens /\ indexTtl' \in 0 .. Ttl
  BY <1>1, RefreshAssumption DEF RefreshTypeOK
<1>3. IndexInv'
  <2> SUFFICES ASSUME NEW u \in known \ dropped, Live(u)
               PROVE  u \in index' /\ tokenTtl[u] <= indexTtl'
    BY DEF IndexInv, Live
  <2>1. u \in index /\ tokenTtl[u] <= indexTtl /\ u # t
    BY DEF IndexInv
  <2> QED
    BY <1>1, <2>1
<1> QED
  BY <1>2, <1>3

(* A token is consumed or deleted: the index goes on to outlive the others.  *)
LEMMA ExpiryKeepsIndex ==
  ASSUME RefreshInv, NEW t \in Tokens, tokenTtl' = [tokenTtl EXCEPT ![t] = 0],
         UNCHANGED <<index, indexTtl, known, dropped>>
  PROVE  IndexInv'
<1> USE DEF RefreshInv
<1> SUFFICES ASSUME NEW u \in known \ dropped, tokenTtl'[u] > 0
             PROVE  u \in index /\ tokenTtl'[u] <= indexTtl
  BY DEF IndexInv, Live
<1>1. u \in Tokens
  BY DEF RefreshTypeOK, Made
<1>2. u # t
  BY <1>1 DEF RefreshTypeOK
<1>3. tokenTtl'[u] = tokenTtl[u]
  BY <1>1, <1>2 DEF RefreshTypeOK
<1> QED
  BY <1>3 DEF IndexInv, Live

LEMMA RefreshStepInv == RefreshInv /\ [RefreshNext]_refreshVars => RefreshInv'
<1> SUFFICES ASSUME RefreshInv, [RefreshNext]_refreshVars PROVE RefreshInv'
  OBVIOUS
<1> USE DEF RefreshInv
<1>1. CASE UNCHANGED refreshVars
  BY <1>1 DEF refreshVars, redisVars, sessionVars, historyVars, RefreshTypeOK, SessionInv, Rotating,
              Issuing, Revoking, ChainInv, ChainsDoNotFork, IndexInv, Live, Made
<1>2. ASSUME NEW r \in Sessions, NEW l \in Logins, Login(r, l) PROVE RefreshInv'
  <2>1. /\ login' = [login EXCEPT ![r] = l] /\ pc' = [pc EXCEPT ![r] = "set"]
        /\ UNCHANGED <<redisVars, token, historyVars>>
        /\ \A t \in Tokens : loginOf[t] # l
        /\ \A q \in Sessions : login[q] # l
    BY <1>2 DEF Login, GoTo
  <2>2. RefreshTypeOK'
    BY <2>1 DEF redisVars, historyVars, RefreshTypeOK, Made
  <2>4. \A q \in Sessions : SessionInv(q)'
    BY <2>1 DEF redisVars, historyVars, RefreshTypeOK, SessionInv, Rotating, Issuing, Revoking, Made,
                Live
  <2>5. ChainInv'
    BY <2>1 DEF redisVars, historyVars, RefreshTypeOK, ChainInv, Rotating, Issuing, ChainsDoNotFork, Made, Live
  <2> QED
    BY <2>1, <2>2, <2>4, <2>5 DEF redisVars, historyVars, IndexInv, Live
<1>3. ASSUME NEW r \in Sessions, NEW t \in Tokens, Consume(r, t) PROVE RefreshInv'
  <2>1. /\ t \in known /\ t \in Made /\ Live(t)
        /\ tokenTtl' = [tokenTtl EXCEPT ![t] = 0]
        /\ token' = [token EXCEPT ![r] = t]
        /\ login' = [login EXCEPT ![r] = loginOf[t]]
        /\ pc' = [pc EXCEPT ![r] = "srem"]
        /\ UNCHANGED <<index, indexTtl, historyVars>>
    BY <1>3 DEF Consume, GoTo, RefreshTypeOK
  <2>2. Made' = Made /\ loginOf[t] \in Logins
    BY <2>1 DEF historyVars, Made, ChainInv, RefreshTypeOK
  <2>3. RefreshTypeOK'
    BY <2>1, <2>2, RefreshAssumption DEF historyVars, RefreshTypeOK
  <2>4. ~Live(t)' /\ \A u \in Tokens \ {t} : Live(u)' <=> Live(u)
    BY <2>1 DEF Live, RefreshTypeOK
  <2>5. \A q \in Sessions : SessionInv(q)'
    BY <2>1, <2>2, <2>4 DEF historyVars, RefreshTypeOK, SessionInv, Rotating, Issuing, Revoking, Made
  <2>6. \A q \in Sessions \ {r} : Rotating(q) => login[q] # loginOf[t]
    BY <2>1 DEF ChainInv, ChainsDoNotFork, Rotating
  <2>7. \A u \in Made : Live(u)' => Live(u) /\ loginOf[u] # loginOf[t]
    BY <2>1, <2>4 DEF ChainInv, ChainsDoNotFork, Made
  <2>8. ChainsDoNotFork'
    BY <2>1, <2>2, <2>7 DEF historyVars, ChainInv, ChainsDoNotFork, RefreshTypeOK
  <2>9. ChainInv'
    BY <2>1, <2>2, <2>4, <2>6, <2>7, <2>8
       DEF historyVars, RefreshTypeOK, ChainInv, Rotating, Issuing
  <2>10. IndexInv'
    BY <2>1, ExpiryKeepsIndex DEF historyVars
  <2> QED
    BY <2>3, <2>5, <2>9, <2>10
<1>4. ASSUME NEW r \in Sessions, Forget(r) PROVE RefreshInv'
  <2>1. /\ pc[r] = "srem" /\ pc' = [pc EXCEPT ![r] = "set"]
        /\ UNCHANGED <<tokenTtl, token, login, historyVars>>
        /\ token[r] \in Tokens /\ token[r] \in known /\ ~Live(token[r])
    BY <1>4 DEF Forget, GoTo, SessionInv, Made
  <2>2. Unindex(token[r]) \/ UNCHANGED <<index, indexTtl>>
    BY <1>4 DEF Forget
  <2>3. index' \subseteq Tokens /\ indexTtl' \in 0 .. Ttl /\ IndexInv'
    <3>1. CASE Unindex(token[r])
      BY <2>1, <3>1, UnindexKeepsIndex DEF historyVars
    <3>2. CASE UNCHANGED <<index, indexTtl>>
      BY <2>1, <3>2 DEF historyVars, IndexInv, Live, RefreshTypeOK
    <3> QED
      BY <2>2, <3>1, <3>2
  <2>4. RefreshTypeOK'
    BY <2>1, <2>3 DEF historyVars, RefreshTypeOK, Made
  <2>5. index \subseteq index' \cup {token[r]}
    BY <2>2 DEF Unindex
  <2>6. \A q \in Sessions : SessionInv(q)'
    BY <2>1, <2>5 DEF historyVars, RefreshTypeOK, SessionInv, Rotating, Issuing, Revoking, Made, Live
  <2>7. ChainInv'
    BY <2>1 DEF historyVars, RefreshTypeOK, ChainInv, Rotating, Issuing, ChainsDoNotFork, Made, Live
  <2> QED
    BY <2>3, <2>4, <2>6, <2>7
<1>5. ASSUME NEW r \in Sessions, NEW t \in Tokens, Set(r, t) PROVE RefreshInv'
  <2>1. /\ pc[r] = "set" /\ t \in Tokens \ Made
        /\ tokenTtl' = [tokenTtl EXCEPT ![t] = Ttl]
        /\ loginOf' = [loginOf EXCEPT ![t] = login[r]]
        /\ token' = [token EXCEPT ![r] = t]
        /\ pc' = [pc EXCEPT ![r] = "sadd"]
        /\ UNCHANGED <<index, indexTtl, login, known, ended, dropped>>
    BY <1>5 DEF Set, GoTo
  <2>2. login[r] \in Logins /\ login[r] # None
    BY <2>1, RefreshAssumption DEF SessionInv, Rotating
  <2>3. /\ Made' = Made \cup {t}
        /\ \A u \in Made : loginOf'[u] = loginOf[u]
        /\ loginOf'[t] = login[r]
    BY <2>1, <2>2 DEF Made, RefreshTypeOK
  <2>4. RefreshTypeOK'
    BY <2>1, <2>2, <2>3, RefreshAssumption DEF RefreshTypeOK
  <2>5. t \notin known /\ \A u \in Tokens \ {t} : Live(u)' <=> Live(u)
    BY <2>1 DEF Live, RefreshTypeOK
  <2>6. \A q \in Sessions : SessionInv(q)'
    <3> SUFFICES ASSUME NEW q \in Sessions PROVE SessionInv(q)'
      OBVIOUS
    <3>1. CASE q = r
      BY <2>1, <2>3, <2>5, <3>1 DEF RefreshTypeOK, SessionInv, Rotating, Issuing, Revoking
    <3>2. CASE q # r
      <4>1. pc'[q] = pc[q] /\ token'[q] = token[q] /\ login'[q] = login[q]
        BY <2>1, <3>2 DEF RefreshTypeOK
      <4>2. pc[q] \in {"srem", "unindex"} => token[q] \in Tokens \ {t} /\ ~Live(token[q])
        BY <2>1 DEF SessionInv, Revoking, Made
      <4>3. pc[q] \in {"srem", "unindex"} => ~(tokenTtl'[token[q]] > 0)
        BY <2>5, <4>2 DEF Live
      <4> QED
        BY <2>1, <2>3, <4>1, <4>3 DEF SessionInv, Rotating, Issuing, Revoking, Live
    <3> QED
      BY <3>1, <3>2
  <2>7. \A q \in Sessions \ {r} : Rotating(q) => login[q] # login[r]
    BY <2>1 DEF ChainInv, Rotating
  <2>8. \A u \in Made : Live(u) => loginOf[u] # login[r]
    BY <2>1 DEF ChainInv, ChainsDoNotFork
  <2>9. ChainsDoNotFork'
    <3>1. \A u \in Made : u \in Tokens \ {t}
      BY <2>1 DEF Made
    <3>2. \A u, v \in Made' : (Live(u)' /\ Live(v)' /\ loginOf'[u] = loginOf'[v]) => u = v
      BY <2>3, <2>5, <2>8, <3>1 DEF ChainInv, ChainsDoNotFork
    <3>3. \A q \in Sessions, u \in Made' :
            (pc'[q] \in {"srem", "set"} /\ Live(u)') => loginOf'[u] # login'[q]
      <4> SUFFICES ASSUME NEW q \in Sessions, NEW u \in Made',
                          pc'[q] \in {"srem", "set"}, Live(u)'
                   PROVE  loginOf'[u] # login[q]
        BY <2>1
      <4>1. q # r /\ Rotating(q)
        BY <2>1 DEF Rotating, RefreshTypeOK
      <4>2. CASE u = t
        BY <2>3, <2>7, <4>1, <4>2
      <4>3. CASE u \in Made
        BY <2>3, <2>5, <3>1, <4>1, <4>3 DEF ChainInv, ChainsDoNotFork, Rotating
      <4> QED
        BY <2>3, <4>2, <4>3
    <3> QED
      BY <3>2, <3>3 DEF ChainsDoNotFork
  <2>11. \A q \in Sessions : Issuing(q) => token[q] # t
    BY <2>1 DEF SessionInv
  <2>12. ChainInv'
    BY <2>1, <2>3, <2>5, <2>9, <2>11 DEF ChainInv, Rotating, Issuing, RefreshTypeOK
  <2>13. IndexInv'
    <3> SUFFICES ASSUME NEW u \in known \ dropped, tokenTtl'[u] > 0
                 PROVE  u \in index /\ tokenTtl'[u] <= indexTtl
      BY <2>1 DEF IndexInv, Live
    <3>1. u \in Tokens \ {t}
      BY <2>5 DEF RefreshTypeOK, Made
    <3>2. tokenTtl'[u] = tokenTtl[u]
      BY <2>1, <3>1 DEF RefreshTypeOK
    <3> QED
      BY <3>2 DEF IndexInv, Live
  <2> QED
    BY <2>4, <2>6, <2>12, <2>13
<1>6. ASSUME NEW r \in Sessions, Add(r) PROVE RefreshInv'
  <2>1. /\ pc[r] = "sadd" /\ pc' = [pc EXCEPT ![r] = "expire"]
        /\ index' = index \cup {token[r]}
        /\ UNCHANGED <<tokenTtl, indexTtl, token, login, historyVars>>
        /\ token[r] \in Tokens
    BY <1>6 DEF Add, GoTo, SessionInv, Issuing, Made
  <2>2. RefreshTypeOK'
    BY <2>1 DEF historyVars, RefreshTypeOK, Made
  <2>3. \A q \in Sessions : SessionInv(q)'
    BY <2>1 DEF historyVars, RefreshTypeOK, SessionInv, Rotating, Issuing, Revoking, Made, Live
  <2>4. ChainInv'
    BY <2>1 DEF historyVars, RefreshTypeOK, ChainInv, Rotating, Issuing, ChainsDoNotFork, Made, Live
  <2> QED
    BY <2>1, <2>2, <2>3, <2>4 DEF historyVars, IndexInv, Live
<1>7. ASSUME NEW r \in Sessions, Extend(r) PROVE RefreshInv'
  <2>1. /\ pc[r] = "expire" /\ token[r] \in Made /\ token[r] \in index \cup dropped
        /\ pc' = [pc EXCEPT ![r] = "idle"]
        /\ token' = [token EXCEPT ![r] = None]
        /\ login' = [login EXCEPT ![r] = None]
        /\ indexTtl' = IF index = {} THEN indexTtl ELSE Ttl
        /\ known' = known \cup {token[r]}
        /\ UNCHANGED <<tokenTtl, index, loginOf, ended, dropped>>
    BY <1>7 DEF Extend, Done, GoTo, SessionInv, Issuing
  <2>2. Made' = Made /\ Made \subseteq Tokens
    BY <2>1 DEF Made
  <2>3. RefreshTypeOK'
    BY <2>1, <2>2, RefreshAssumption DEF RefreshTypeOK
  <2>4. \A q \in Sessions \ {r} : Issuing(q) => token[q] # token[r]
    BY <2>1 DEF ChainInv, Issuing
  <2>5. \A q \in Sessions : SessionInv(q)'
    BY <2>1, <2>2, <2>4 DEF RefreshTypeOK, SessionInv, Rotating, Issuing, Revoking, Live
  <2>6. ChainInv'
    BY <2>1, <2>2 DEF RefreshTypeOK, ChainInv, Rotating, Issuing, ChainsDoNotFork, Live
  <2>7. IndexInv'
    <3> SUFFICES ASSUME NEW u \in known' \ dropped, tokenTtl[u] > 0
                 PROVE  u \in index /\ tokenTtl[u] <= indexTtl'
      BY <2>1 DEF IndexInv, Live
    <3>1. u \in index
      BY <2>1 DEF IndexInv, Live
    <3>2. u \in Tokens
      BY <2>1, <2>2 DEF RefreshTypeOK
    <3> QED
      BY <2>1, <3>1, <3>2, RefreshAssumption DEF RefreshTypeOK
  <2> QED
    BY <2>3, <2>5, <2>6, <2>7
<1>8. ASSUME NEW r \in Sessions, IssueFails(r) \/ LogoutFails(r) PROVE RefreshInv'
  BY <1>8, DoneKeepsInv DEF IssueFails, LogoutFails
<1>9. ASSUME NEW r \in Sessions, NEW t \in Tokens, Logout(r, t) PROVE RefreshInv'
  <2>1. /\ t \in known /\ t \in Made
        /\ token' = [token EXCEPT ![r] = t]
        /\ UNCHANGED <<redisVars, login, historyVars>>
    BY <1>9 DEF Logout, RefreshTypeOK
  <2>2. PICK label \in {"delete", "deleteLost"} : pc' = [pc EXCEPT ![r] = label]
    BY <1>9 DEF Logout, GoTo
  <2>3. RefreshTypeOK'
    BY <2>1, <2>2 DEF redisVars, historyVars, RefreshTypeOK, Made
  <2>4. \A q \in Sessions : SessionInv(q)'
    BY <2>1, <2>2 DEF redisVars, historyVars, RefreshTypeOK, SessionInv, Rotating, Issuing, Revoking,
                      Made, Live
  <2>5. ChainInv'
    BY <2>1, <2>2 DEF redisVars, historyVars, RefreshTypeOK, ChainInv, Rotating, Issuing,
                      ChainsDoNotFork, Made, Live
  <2> QED
    BY <2>1, <2>3, <2>4, <2>5 DEF redisVars, historyVars, IndexInv, Live
<1>10. ASSUME NEW r \in Sessions, Delete(r) PROVE RefreshInv'
  <2>1. /\ token[r] \in Made /\ token[r] \in known /\ token[r] \in Tokens
        /\ tokenTtl' = [tokenTtl EXCEPT ![token[r]] = 0]
        /\ ended' = IF pc[r] = "delete" THEN ended \cup {loginOf[token[r]]} ELSE ended
        /\ UNCHANGED <<index, indexTtl, loginOf, known, dropped>>
    BY <1>10 DEF Delete, SessionInv, Revoking, Made
  <2>2. PICK label \in {"unindex", "idle"} :
          /\ pc' = [pc EXCEPT ![r] = label]
          /\ \/ label = "unindex" /\ UNCHANGED <<token, login>>
             \/ /\ label = "idle"
                /\ token' = [token EXCEPT ![r] = None]
                /\ login' = [login EXCEPT ![r] = None]
    BY <1>10 DEF Delete, Done, GoTo
  <2>3. Made' = Made
    BY <2>1 DEF Made
  <2>4. loginOf[token[r]] \in Logins
    BY <2>1 DEF Made, RefreshTypeOK
  <2>5. RefreshTypeOK'
    BY <2>1, <2>2, <2>3, <2>4, RefreshAssumption DEF RefreshTypeOK
  <2>6. \A u \in Tokens : Live(u)' => Live(u) /\ u # token[r]
    <3> SUFFICES ASSUME NEW u \in Tokens, tokenTtl'[u] > 0 PROVE tokenTtl[u] > 0 /\ u # token[r]
      BY DEF Live
    <3>1. u # token[r]
      BY <2>1 DEF RefreshTypeOK
    <3> QED
      BY <2>1, <3>1 DEF RefreshTypeOK
  <2>8. \A q \in Sessions \ {r} : pc'[q] = pc[q] /\ token'[q] = token[q] /\ login'[q] = login[q]
    BY <2>2 DEF RefreshTypeOK
  <2>9. \A q \in Sessions \ {r} : SessionInv(q)'
    BY <2>1, <2>3, <2>6, <2>8 DEF SessionInv, Rotating, Issuing, Revoking, Made
  <2>10. SessionInv(r)'
    BY <2>1, <2>2, <2>3, <2>6 DEF SessionInv, Rotating, Issuing, Revoking, RefreshTypeOK
  <2>11. ~Rotating(r)' /\ ~Issuing(r)'
    BY <2>2 DEF Rotating, Issuing, RefreshTypeOK
  <2>12. ChainsDoNotFork'
    BY <2>1, <2>3, <2>6, <2>8, <2>11 DEF ChainInv, ChainsDoNotFork, Rotating, Made
  <2>14. ChainInv'
    BY <2>1, <2>3, <2>6, <2>8, <2>11, <2>12 DEF ChainInv, Rotating, Issuing
  <2>15. IndexInv'
    BY <2>1, ExpiryKeepsIndex
  <2> QED
    BY <2>5, <2>9, <2>10, <2>14, <2>15
<1>11. ASSUME NEW r \in Sessions, FinishLogout(r) PROVE RefreshInv'
  <2>1. /\ token[r] \in Tokens /\ token[r] \in known /\ ~Live(token[r])
        /\ Unindex(token[r])
        /\ pc' = [pc EXCEPT ![r] = "idle"]
        /\ token' = [token EXCEPT ![r] = None]
        /\ login' = [login EXCEPT ![r] = None]
        /\ UNCHANGED <<tokenTtl, historyVars>>
    BY <1>11 DEF FinishLogout, Done, GoTo, SessionInv, Revoking, Made
  <2>2. index' \subseteq Tokens /\ indexTtl' \in 0 .. Ttl /\ IndexInv'
    BY <2>1, UnindexKeepsIndex DEF historyVars
  <2>3. RefreshTypeOK'
    BY <2>1, <2>2 DEF historyVars, RefreshTypeOK, Made
  <2>4. index \subseteq index' \cup {token[r]}
    BY <2>1 DEF Unindex
  <2>5. \A q \in Sessions : SessionInv(q)'
    BY <2>1, <2>4 DEF historyVars, RefreshTypeOK, SessionInv, Rotating, Issuing, Revoking, Made, Live
  <2>6. ChainInv'
    BY <2>1 DEF historyVars, RefreshTypeOK, ChainInv, Rotating, Issuing, ChainsDoNotFork, Made, Live
  <2> QED
    BY <2>2, <2>3, <2>5, <2>6
<1>12. CASE ExpireKeys
  <2>1. /\ tokenTtl' = [t \in Tokens |-> OneLess(tokenTtl[t])]
        /\ indexTtl' = OneLess(indexTtl)
        /\ UNCHANGED <<sessionVars, loginOf, known, ended>>
    BY <1>12 DEF ExpireKeys
  <2>2. \/ index' = index /\ dropped' = dropped /\ indexTtl # 1
        \/ /\ index' = {} /\ indexTtl = 1
           /\ dropped' = dropped \cup {token[r] : r \in {q \in Sessions : pc[q] = "expire"}}
    BY <1>12 DEF ExpireKeys
  <2>3. \A k \in 0 .. Ttl : OneLess(k) \in 0 .. Ttl /\ OneLess(k) <= k /\ (k > 0 => OneLess(k) = k - 1)
    BY RefreshAssumption DEF OneLess
  <2>4. \A r \in Sessions : pc[r] = "expire" => token[r] \in Tokens
    BY DEF SessionInv, Issuing, Made
  <2>5. Made' = Made
    BY <2>1 DEF Made
  <2>6. index' \subseteq Tokens /\ dropped' \subseteq Tokens /\ dropped \subseteq dropped'
    BY <2>2, <2>4 DEF RefreshTypeOK
  <2>7. RefreshTypeOK'
    <3>1. tokenTtl' \in [Tokens -> 0 .. Ttl] /\ indexTtl' \in 0 .. Ttl
      BY <2>1, <2>3 DEF RefreshTypeOK
    <3> QED
      BY <2>1, <2>5, <2>6, <3>1 DEF sessionVars, RefreshTypeOK
  <2>8. \A t \in Tokens : Live(t)' => Live(t) /\ tokenTtl'[t] = tokenTtl[t] - 1
    BY <2>1, <2>3 DEF Live, RefreshTypeOK
  <2>9. \A r \in Sessions : pc[r] = "expire" => token[r] \in index' \cup dropped'
    BY <2>2 DEF SessionInv
  <2>10. \A r \in Sessions : SessionInv(r)'
    BY <2>1, <2>5, <2>8, <2>9 DEF sessionVars, SessionInv, Rotating, Issuing, Revoking, Made
  <2>11. ChainInv'
    BY <2>1, <2>5, <2>8 DEF sessionVars, ChainInv, Rotating, Issuing, ChainsDoNotFork,
                            Made
  <2>12. IndexInv'
    <3> SUFFICES ASSUME NEW t \in known \ dropped', Live(t)'
                 PROVE  t \in index' /\ tokenTtl'[t] <= indexTtl'
      BY <2>1 DEF IndexInv
    <3>1. t \in Tokens /\ tokenTtl[t] \in 0 .. Ttl /\ indexTtl \in 0 .. Ttl
      BY DEF RefreshTypeOK, Made
    <3>2. t \in index /\ tokenTtl[t] <= indexTtl
      BY <2>6, <2>8, <3>1 DEF IndexInv
    <3>3. tokenTtl'[t] = tokenTtl[t] - 1 /\ tokenTtl[t] - 1 > 0
      BY <2>8, <3>1 DEF Live
    <3>4. indexTtl > 1 /\ indexTtl' = indexTtl - 1
      BY <2>1, <2>3, <3>1, <3>2, <3>3
    <3> QED
      BY <2>2, <3>1, <3>2, <3>3, <3>4
  <2> QED
    BY <2>7, <2>10, <2>11, <2>12
<1> QED
  BY <1>1, <1>2, <1>3, <1>4, <1>5, <1>6, <1>7, <1>8, <1>9, <1>10, <1>11, <1>12 DEF RefreshNext

(* The inductive invariant of the refresh tokens.                            *)
THEOREM RefreshInvariant == RefreshSpec => []RefreshInv
<1>1. RefreshInit => RefreshInv
  BY RefreshInitInv
<1>2. RefreshInv /\ [RefreshNext]_refreshVars => RefreshInv'
  BY RefreshStepInv
<1> QED
  BY <1>1, <1>2, PTL DEF RefreshSpec

(* Every variable of the refresh tokens keeps its type.                      *)
THEOREM RefreshTypes == RefreshSpec => []RefreshTypeOK
<1>1. RefreshInv => RefreshTypeOK
  BY DEF RefreshInv
<1> QED
  BY <1>1, RefreshInvariant, PTL

(* However many requests call consume_refresh_token with one token at a time, the
   chain of rotations that began with a login does not fork.                 *)
THEOREM NoFork == RefreshSpec => []ChainsDoNotFork
<1>1. RefreshInv => ChainsDoNotFork
  BY DEF RefreshInv, ChainInv
<1> QED
  BY <1>1, RefreshInvariant, PTL

(* The index of the user's tokens that issue_refresh_token extends outlives them,
   whatever commands fail, except for a token whose index expires right between
   the two commands that add it and extend the index.                        *)
THEOREM IndexOutlivesTokens == RefreshSpec => []LiveTokensAreIndexed
<1>1. RefreshInv => LiveTokensAreIndexed
  BY DEF RefreshInv, IndexInv, LiveTokensAreIndexed
<1> QED
  BY <1>1, RefreshInvariant, PTL

-----------------------------------------------------------------------------
(* PlanLimits                                                              *)

(* A request that is going to reset the counter, and one that may count itself on
   today's counter.                                                          *)
WillReset(r) == reqPc[r] = "reset" \/ (reqPc[r] = "decide" /\ row[r].reset # today)
MayCount(r) ==
  \/ reqPc[r] = "count" /\ day[r] = today
  \/ reqPc[r] = "decide" /\ row[r].reset = today

NoDateAhead ==
  /\ resetDate <= today
  /\ \A r \in Requests : day[r] <= today /\ row[r].reset <= today

(* What was counted is covered by a number of whole quotas and the counter.  *)
Covered(l, quotas) ==
  /\ grants[l] <= quotas + l
  /\ runsToday <= l => grants[l] <= quotas + runsToday

CoveredByResets == \A l \in Limits : Covered(l, l * resets)

(* While a reset is to come, a quota is left for what follows it - unless nothing
   can be counted before it.                                                 *)
Spare(l) ==
  /\ grants[l] <= l * overlaps
  /\ runsToday <= l => grants[l] + l <= l * overlaps + runsToday
Untouched(l) ==
  /\ resetDate # today
  /\ grants[l] <= l * overlaps
  /\ \A q \in Requests : ~MayCount(q)

ResetAhead == resetDate # today \/ \E r \in Requests : WillReset(r)

CoveredByOverlaps ==
  \A l \in Limits :
    /\ Covered(l, l * overlaps)
    /\ ResetAhead => Spare(l) \/ Untouched(l)

PlanInv == PlanTypeOK /\ NoDateAhead /\ CoveredByResets /\ CoveredByOverlaps

LEMMA LimitsAreNaturals == Limits \subseteq Nat
  BY PlanAssumption DEF Limits

LEMMA Quotas == \A l \in Nat : /\ l * 0 = 0
                               /\ \A n \in Nat : l * n \in Nat /\ l * (n + 1) = l * n + l
  OBVIOUS

LEMMA PlanInitInv == PlanInit => PlanInv
<1> SUFFICES ASSUME PlanInit PROVE PlanInv
  OBVIOUS
<1>1. PlanTypeOK
  BY PlanAssumption DEF PlanInit, PlanTypeOK, Row, Day
<1>2. NoDateAhead
  BY DEF PlanInit, NoDateAhead
<1>3. CoveredByResets /\ CoveredByOverlaps
  BY LimitsAreNaturals, Quotas
     DEF PlanInit, CoveredByResets, CoveredByOverlaps, Covered, ResetAhead, WillReset
<1> QED
  BY <1>1, <1>2, <1>3 DEF PlanInv

LEMMA PlanStepInv == PlanInv /\ [PlanNext]_planVars => PlanInv'
<1> SUFFICES ASSUME PlanInv, [PlanNext]_planVars PROVE PlanInv'
  OBVIOUS
<1> USE DEF PlanInv
<1>0. /\ grants \in [Limits -> Nat] /\ runsToday \in Nat /\ resets \in Nat /\ overlaps \in Nat
      /\ today \in Nat /\ resetDate \in Nat
      /\ \A r \in Requests : day[r] \in Nat /\ row[r] \in Row /\ row[r].reset \in Nat
  BY PlanAssumption DEF PlanTypeOK, Day, Row
<1>1. CASE UNCHANGED planVars
  BY <1>1 DEF planVars, userRow, requestVars, grantVars, PlanTypeOK, NoDateAhead, CoveredByResets,
              CoveredByOverlaps, Covered, ResetAhead, WillReset, Spare, Untouched, MayCount
<1>2. ASSUME NEW r \in Requests, Select(r) PROVE PlanInv'
  <2>1. /\ reqPc[r] = "idle"
        /\ row' = [row EXCEPT ![r] = [runs |-> runsToday, reset |-> resetDate, plan |-> plan]]
        /\ reqPc' = [reqPc EXCEPT ![r] = "decide"]
        /\ UNCHANGED <<today, userRow, day, grantVars>>
    BY <1>2 DEF Select
  <2>2. /\ row'[r].reset = resetDate /\ reqPc'[r] = "decide"
        /\ \A q \in Requests \ {r} : row'[q] = row[q] /\ reqPc'[q] = reqPc[q]
    BY <2>1 DEF PlanTypeOK
  <2>3. PlanTypeOK'
    BY <2>1 DEF userRow, grantVars, PlanTypeOK, Row
  <2>4. NoDateAhead'
    BY <2>1, <2>2 DEF userRow, NoDateAhead
  <2>5. ResetAhead' => ResetAhead
    BY <2>1, <2>2 DEF userRow, ResetAhead, WillReset
  <2>6. resetDate # today => \A q \in Requests : MayCount(q)' => MayCount(q)
    BY <2>1, <2>2 DEF userRow, MayCount
  <2>7. CoveredByResets' /\ CoveredByOverlaps'
    BY <2>1, <2>5, <2>6
       DEF userRow, grantVars, CoveredByResets, CoveredByOverlaps, Covered, Spare, Untouched
  <2> QED
    BY <2>3, <2>4, <2>7
<1>3. ASSUME NEW r \in Requests, Decide(r) \/ FailOpen(r) PROVE PlanInv'
  <2>1. PICK at \in {"reset", "idle", "count"} : reqPc' = [reqPc EXCEPT ![r] = at]
    BY <1>3 DEF Decide, FailOpen
  <2>2. /\ UNCHANGED <<today, userRow, row, grantVars>>
        /\ \/ UNCHANGED day /\ at = "idle"
           \/ /\ day' = [day EXCEPT ![r] = today]
              /\ reqPc[r] = "decide"
              /\ at = "reset" => row[r].reset # today
              /\ at = "count" => row[r].reset = today
    BY <1>3, <2>1 DEF Decide, FailOpen, PlanTypeOK
  <2>3. \A q \in Requests \ {r} : day'[q] = day[q] /\ reqPc'[q] = reqPc[q]
    BY <2>1, <2>2 DEF PlanTypeOK
  <2>4. reqPc'[r] = at
    BY <2>1 DEF PlanTypeOK
  <2>5. PlanTypeOK'
    BY <2>1, <2>2 DEF userRow, grantVars, PlanTypeOK
  <2>6. NoDateAhead'
    BY <1>0, <2>2, <2>3 DEF userRow, NoDateAhead, PlanTypeOK
  <2>7. \A q \in Requests : (WillReset(q)' => WillReset(q)) /\ (MayCount(q)' => MayCount(q))
    BY <2>2, <2>3, <2>4 DEF WillReset, MayCount
  <2>8. CoveredByResets' /\ CoveredByOverlaps'
    BY <2>2, <2>7 DEF userRow, grantVars, CoveredByResets, CoveredByOverlaps, Covered, ResetAhead,
                      Spare, Untouched
  <2> QED
    BY <2>5, <2>6, <2>8
<1>4. ASSUME NEW r \in Requests, Reset(r) PROVE PlanInv'
  <2>1. /\ reqPc[r] = "reset" /\ reqPc' = [reqPc EXCEPT ![r] = "count"]
        /\ runsToday' = 0 /\ resetDate' = day[r] /\ resets' = resets + 1
        /\ UNCHANGED <<today, plan, row, day, grants>>
    BY <1>4 DEF Reset
  <2>2. \/ overlaps' = overlaps + 1
        \/ overlaps' = overlaps /\ \A q \in Requests \ {r} : reqPc[q] = "idle"
    BY <1>4 DEF Reset
  <2>3. reqPc'[r] = "count" /\ \A q \in Requests \ {r} : reqPc'[q] = reqPc[q]
    BY <2>1 DEF PlanTypeOK
  <2>4. PlanTypeOK'
    BY <2>1, <2>2 DEF PlanTypeOK
  <2>5. NoDateAhead'
    BY <2>1 DEF NoDateAhead
  <2>6. \A l \in Limits : grants[l] \in Nat /\ l \in Nat /\ grants[l] <= l * overlaps
    BY <1>0, <2>1, LimitsAreNaturals DEF CoveredByOverlaps, ResetAhead, WillReset, Spare, Untouched
  <2>7. CoveredByResets'
    <3> SUFFICES ASSUME NEW l \in Limits PROVE grants[l] <= l * (resets + 1)
      BY <1>0, <2>1, <2>6, Quotas DEF CoveredByResets, Covered
    <3> QED
      BY <1>0, <2>6, Quotas DEF CoveredByResets, Covered
  <2>8. CASE overlaps' = overlaps + 1
    <3>1. ASSUME NEW l \in Limits PROVE Covered(l, l * overlaps)' /\ Spare(l)'
      <4>1. l * (overlaps + 1) = l * overlaps + l /\ l * overlaps \in Nat
        BY <1>0, <2>6, Quotas
      <4>2. grants[l] + l <= l * (overlaps + 1)
        BY <2>6, <4>1
      <4> QED
        BY <2>1, <2>6, <2>8, <4>1, <4>2 DEF Covered, Spare
    <3> QED
      BY <2>4, <2>5, <2>7, <3>1 DEF CoveredByOverlaps
  <2>9. CASE overlaps' = overlaps /\ \A q \in Requests \ {r} : reqPc[q] = "idle"
    <3>1. ASSUME NEW l \in Limits PROVE Covered(l, l * overlaps)' /\ grants'[l] <= l * overlaps'
      BY <1>0, <2>1, <2>6, <2>9, Quotas DEF Covered
    <3>2. \A q \in Requests : ~WillReset(q)' /\ (MayCount(q)' => q = r /\ day[r] = today)
      BY <2>1, <2>3, <2>9 DEF WillReset, MayCount
    <3>3. ResetAhead' => resetDate' # today' /\ \A q \in Requests : ~MayCount(q)'
      BY <2>1, <3>2 DEF ResetAhead
    <3> QED
      BY <2>4, <2>5, <2>7, <3>1, <3>3 DEF CoveredByOverlaps, Untouched
  <2> QED
    BY <2>2, <2>8, <2>9
<1>5. ASSUME NEW r \in Requests, Count(r) \/ CountUnlimited(r) PROVE PlanInv'
  <2>1. /\ reqPc[r] = "count" /\ reqPc' = [reqPc EXCEPT ![r] = "idle"]
        /\ UNCHANGED <<today, plan, resetDate, row, day, resets, overlaps>>
        /\ runsToday' \in {runsToday, runsToday + 1}
    BY <1>5 DEF Count, CountUnlimited, grantVars
  <2>2. \A q \in Requests : reqPc'[q] = reqPc[q] \/ reqPc'[q] = "idle"
    BY <2>1 DEF PlanTypeOK
  <2>3. \A q \in Requests : (WillReset(q)' => WillReset(q)) /\ (MayCount(q)' => MayCount(q))
    BY <2>1, <2>2 DEF WillReset, MayCount
  <2>4. ASSUME NEW l \in Limits
        PROVE \/ grants'[l] = grants[l]
              \/ /\ grants'[l] = grants[l] + 1 /\ runsToday' = runsToday + 1 /\ runsToday < l
                 /\ MayCount(r)
    <3>1. CASE grants' = grants
      BY <3>1
    <3>2. CASE Granted(r) /\ runsToday < LimitOf(r) /\ runsToday' = runsToday + 1 /\ LimitOf(r) # -1
      <4>1. LimitOf(r) \in Nat
        BY <3>2, PlanAssumption DEF LimitOf, PlanTypeOK, Row
      <4> QED
        BY <1>0, <2>1, <3>2, <4>1, LimitsAreNaturals DEF Granted, MayCount
    <3> QED
      BY <1>5, <3>1, <3>2 DEF Count, CountUnlimited, grantVars
  <2>5. grants' \in [Limits -> Nat]
    BY <1>0, <1>5 DEF Count, CountUnlimited, Granted, grantVars
  <2>6. PlanTypeOK'
    BY <1>0, <2>1, <2>5 DEF PlanTypeOK
  <2>7. NoDateAhead'
    BY <2>1 DEF NoDateAhead
  <2>8. ASSUME NEW l \in Limits, NEW quotas \in Nat, Covered(l, quotas)
        PROVE  grants'[l] <= quotas + l /\ (runsToday' <= l => grants'[l] <= quotas + runsToday')
    BY <1>0, <2>1, <2>4, <2>8, LimitsAreNaturals DEF Covered
  <2>9. \A l \in Limits : l * resets \in Nat /\ l * overlaps \in Nat
    BY <1>0, LimitsAreNaturals, Quotas
  <2>10. CoveredByResets'
    BY <2>1, <2>8, <2>9 DEF CoveredByResets, Covered
  <2>11. \A l \in Limits : Covered(l, l * overlaps)'
    BY <2>1, <2>8, <2>9 DEF CoveredByOverlaps, Covered
  <2>12. ASSUME NEW l \in Limits, ResetAhead' PROVE Spare(l)' \/ Untouched(l)'
    <3>1. ResetAhead
      BY <2>1, <2>3, <2>12 DEF ResetAhead
    <3>2. CASE Spare(l)
      <4> DEFINE quotas == l * overlaps
      <4>1. quotas \in Nat /\ l \in Nat /\ quotas = l * overlaps'
        BY <2>1, <2>9, LimitsAreNaturals
      <4>2. grants[l] <= quotas /\ (runsToday <= l => grants[l] + l <= quotas + runsToday)
        BY <3>2 DEF Spare
      <4> HIDE DEF quotas
      <4>3. grants'[l] <= quotas /\ (runsToday' <= l => grants'[l] + l <= quotas + runsToday')
        BY <1>0, <2>1, <2>4, <4>1, <4>2
      <4> QED
        BY <4>1, <4>3 DEF Spare
    <3>3. CASE Untouched(l)
      BY <2>1, <2>3, <2>4, <3>3 DEF Untouched
    <3> QED
      BY <3>1, <3>2, <3>3 DEF CoveredByOverlaps
  <2> QED
    BY <2>6, <2>7, <2>10, <2>11, <2>12 DEF CoveredByOverlaps
<1>6. CASE ChangePlan
  BY <1>6 DEF ChangePlan, requestVars, grantVars, PlanTypeOK, NoDateAhead, CoveredByResets,
              CoveredByOverlaps, Covered, ResetAhead, WillReset, Spare, Untouched, MayCount
<1>7. CASE Midnight
  <2>1. /\ today' = today + 1 /\ today < LastDay
        /\ grants' = [l \in Limits |-> 0] /\ resets' = 0 /\ overlaps' = 0
        /\ UNCHANGED <<userRow, requestVars>>
    BY <1>7 DEF Midnight
  <2>2. PlanTypeOK'
    BY <1>0, <2>1, PlanAssumption DEF userRow, requestVars, PlanTypeOK, Day
  <2>3. NoDateAhead'
    BY <1>0, <2>1 DEF userRow, requestVars, NoDateAhead
  <2>4. resetDate' # today' /\ \A q \in Requests : ~MayCount(q)'
    BY <1>0, <2>1 DEF userRow, requestVars, NoDateAhead, MayCount
  <2>5. CoveredByResets'
    BY <1>0, <2>1, LimitsAreNaturals, Quotas DEF userRow, CoveredByResets, Covered
  <2>6. CoveredByOverlaps'
    BY <1>0, <2>1, <2>4, LimitsAreNaturals, Quotas DEF userRow, CoveredByOverlaps, Covered, Untouched
  <2> QED
    BY <2>2, <2>3, <2>5, <2>6
<1> QED
  BY <1>1, <1>2, <1>3, <1>4, <1>5, <1>6, <1>7 DEF PlanNext

(* The inductive invariant of the daily quota.                               *)
THEOREM PlanInvariant == PlanSpec => []PlanInv
<1>1. PlanInit => PlanInv
  BY PlanInitInv
<1>2. PlanInv /\ [PlanNext]_planVars => PlanInv'
  BY PlanStepInv
<1> QED
  BY <1>1, <1>2, PTL DEF PlanSpec

(* Every variable of the daily quota keeps its type.                         *)
THEOREM PlanTypes == PlanSpec => []PlanTypeOK
<1>1. PlanInv => PlanTypeOK
  BY DEF PlanInv
<1> QED
  BY <1>1, PlanInvariant, PTL

(* The conditional UPDATE of check_rate_limit keeps the runs counted after each
   reset within the limit, whatever requests interleave.                     *)
THEOREM LimitHolds == PlanSpec => []LimitHoldsBetweenResets
<1>1. PlanInv => LimitHoldsBetweenResets
  <2> SUFFICES ASSUME PlanInv, NEW l \in Limits PROVE grants[l] <= l * (1 + resets)
    BY DEF LimitHoldsBetweenResets
  <2>1. l \in Nat /\ resets \in Nat
    BY LimitsAreNaturals DEF PlanInv, PlanTypeOK
  <2>2. l * (1 + resets) = l * resets + l
    BY <2>1
  <2> QED
    BY <2>2 DEF PlanInv, CoveredByResets, Covered
<1> QED
  BY <1>1, PlanInvariant, PTL

(* A day's quota is exceeded by at most one quota for each reset that overlapped
   another request of check_rate_limit.                                      *)
THEOREM ExceededByOverlaps == PlanSpec => []ExceededOnlyByOverlaps
<1>1. PlanInv => ExceededOnlyByOverlaps
  <2> SUFFICES ASSUME PlanInv, NEW l \in Limits PROVE grants[l] <= l * (1 + overlaps)
    BY DEF ExceededOnlyByOverlaps
  <2>1. l \in Nat /\ overlaps \in Nat
    BY LimitsAreNaturals DEF PlanInv, PlanTypeOK
  <2>2. l * (1 + overlaps) = l * overlaps + l
    BY <2>1
  <2> QED
    BY <2>2 DEF PlanInv, CoveredByOverlaps, Covered
<1> QED
  BY <1>1, PlanInvariant, PTL

-----------------------------------------------------------------------------
(* Billing                                                                 *)

(* A request is about to apply its event.                                    *)
Applying(w) == workPc[w] \in {"retrieve", "user"}

(* A request past the INSERT has recorded its event; as long as it has not applied
   it nobody has, and nobody else is about to.                               *)
RequestInv(w) ==
  /\ workPc[w] # "idle" => event[w] \in happened
  /\ workPc[w] \notin {"idle", "insert"} => event[w] \in recorded
  /\ Applying(w) => applied[event[w]] = 0

OneApplies ==
  \A v, w \in Workers : (Applying(v) /\ Applying(w) /\ event[v] = event[w]) => v = w

(* What is not recorded has not been applied.                                *)
RecordedFirst == \A e \in Events \ recorded : applied[e] = 0

BillingInv ==
  /\ BillingTypeOK
  /\ \A w \in Workers : RequestInv(w)
  /\ OneApplies
  /\ RecordedFirst
  /\ AppliedAtMostOnce

LEMMA BillingInitInv == BillingInit => BillingInv
<1> SUFFICES ASSUME BillingInit PROVE BillingInv
  OBVIOUS
<1>1. (CHOOSE e \in Events : TRUE) \in Events
  BY BillingAssumption
<1>2. BillingTypeOK
  BY <1>1 DEF BillingInit, BillingTypeOK, SoldPlans, WorkPc
<1> QED
  BY <1>2 DEF BillingInit, BillingInv, RequestInv, OneApplies, Applying, RecordedFirst,
              AppliedAtMostOnce

(* A request that goes on without applying anything: its next place is none from
   which it would, unless it was there already.                              *)
LEMMA MovesKeepInv ==
  ASSUME BillingInv, NEW w \in Workers,
         workPc[w] # "idle",
         NEW label \in WorkPc, workPc' = [workPc EXCEPT ![w] = label],
         label \notin {"idle", "insert"} => event[w] \in recorded,
         label \in {"retrieve", "user"} => Applying(w),
         acked' = acked \/ acked' = acked \cup {event[w]},
         UNCHANGED <<happened, recorded, userPlan, event, applied>>
  PROVE  BillingInv'
<1> USE DEF BillingInv
<1>1. BillingTypeOK'
  BY DEF BillingTypeOK, RequestInv
<1>2. \A v \in Workers : RequestInv(v)'
  BY DEF BillingTypeOK, RequestInv, Applying
<1>3. OneApplies'
  BY DEF BillingTypeOK, OneApplies, Applying
<1>4. RecordedFirst' /\ AppliedAtMostOnce'
  BY DEF RecordedFirst, AppliedAtMostOnce
<1> QED
  BY <1>1, <1>2, <1>3, <1>4

LEMMA BillingStepInv == BillingInv /\ [BillingNext]_billingVars => BillingInv'
<1> SUFFICES ASSUME BillingInv, [BillingNext]_billingVars PROVE BillingInv'
  OBVIOUS
<1> USE DEF BillingInv
<1>1. CASE UNCHANGED billingVars
  BY <1>1 DEF billingVars, accountVars, workVars, BillingTypeOK, RequestInv, OneApplies, Applying,
              RecordedFirst, AppliedAtMostOnce
<1>2. ASSUME NEW e \in Events, Happen(e) PROVE BillingInv'
  <2>1. BillingTypeOK'
    BY <1>2 DEF Happen, accountVars, workVars, BillingTypeOK
  <2> QED
    BY <1>2, <2>1 DEF Happen, accountVars, workVars, RequestInv, OneApplies, Applying,
                      RecordedFirst, AppliedAtMostOnce
<1>3. ASSUME NEW w \in Workers, NEW e \in Events, Deliver(w, e) PROVE BillingInv'
  <2>1. BillingTypeOK'
    BY <1>3 DEF Deliver, accountVars, BillingTypeOK, WorkPc
  <2>2. (\A v \in Workers : RequestInv(v)') /\ OneApplies'
    BY <1>3 DEF Deliver, accountVars, BillingTypeOK, RequestInv, OneApplies, Applying
  <2> QED
    BY <1>3, <2>1, <2>2 DEF Deliver, accountVars, RecordedFirst, AppliedAtMostOnce
<1>4. ASSUME NEW w \in Workers, Record(w) PROVE BillingInv'
  <2>1. CASE event[w] \in recorded
    BY <1>4, <2>1, MovesKeepInv DEF Record, Answer, WorkPc, BillingTypeOK
  <2>2. CASE event[w] \notin recorded
    <3>1. /\ event[w] \in Events \ recorded
          /\ event[w] \in happened
          /\ recorded' = recorded \cup {event[w]}
          /\ UNCHANGED <<happened, acked, userPlan, event, applied>>
      BY <1>4, <2>2 DEF Record, BillingTypeOK, RequestInv
    <3>2. PICK label \in {"retrieve", "user"} : workPc' = [workPc EXCEPT ![w] = label]
      BY <1>4, <2>2 DEF Record
    <3>3. BillingTypeOK'
      BY <3>1, <3>2 DEF BillingTypeOK, WorkPc
    <3>4. applied[event[w]] = 0
      BY <3>1 DEF RecordedFirst
    <3>5. \A v \in Workers : RequestInv(v)'
      BY <3>1, <3>2, <3>4 DEF BillingTypeOK, RequestInv, Applying
    <3>6. \A v \in Workers : Applying(v) => event[v] \in recorded
      BY DEF RequestInv, Applying
    <3>7. OneApplies'
      BY <2>2, <3>1, <3>2, <3>6 DEF BillingTypeOK, OneApplies, Applying
    <3> QED
      BY <3>1, <3>3, <3>5, <3>7 DEF RecordedFirst, AppliedAtMostOnce
  <2> QED
    BY <2>1, <2>2
<1>5. ASSUME NEW w \in Workers, Retrieve(w) PROVE BillingInv'
  BY <1>5, MovesKeepInv DEF Retrieve, accountVars, Applying, RequestInv, WorkPc, BillingTypeOK
<1>6. ASSUME NEW w \in Workers, UpdateUser(w) PROVE BillingInv'
  <2>1. /\ event[w] \in Events /\ event[w] \in recorded /\ event[w] \in happened
        /\ applied[event[w]] = 0 /\ applied' = [applied EXCEPT ![event[w]] = 1]
        /\ UNCHANGED <<happened, recorded, event>>
        /\ acked' = acked \/ acked' = acked \cup {event[w]}
    <3>1. workPc[w] = "user" /\ event[w] \in Events
      BY <1>6 DEF UpdateUser, BillingTypeOK
    <3>2. event[w] \in recorded /\ event[w] \in happened /\ applied[event[w]] = 0
      BY <3>1 DEF RequestInv, Applying
    <3> QED
      BY <1>6, <3>1, <3>2 DEF UpdateUser, Answer
  <2>2. PICK label \in {"org", "member", "idle"} : workPc' = [workPc EXCEPT ![w] = label]
    BY <1>6 DEF UpdateUser, Answer
  <2>3. userPlan' \in SoldPlans
    BY <1>6 DEF UpdateUser, SoldPlans, BillingTypeOK
  <2>4. BillingTypeOK'
    BY <2>1, <2>2, <2>3 DEF BillingTypeOK, WorkPc
  <2>5. \A v \in Workers \ {w} : Applying(v) => event[v] # event[w]
    BY <1>6 DEF UpdateUser, OneApplies, Applying
  <2>6. \A v \in Workers : RequestInv(v)'
    BY <2>1, <2>2, <2>5 DEF BillingTypeOK, RequestInv, Applying
  <2>7. OneApplies'
    BY <2>1, <2>2 DEF BillingTypeOK, OneApplies, Applying
  <2> QED
    BY <2>1, <2>4, <2>6, <2>7 DEF RecordedFirst, AppliedAtMostOnce, BillingTypeOK
<1>7. ASSUME NEW w \in Workers, CheckMember(w) \/ Fail(w) PROVE BillingInv'
  BY <1>7, MovesKeepInv DEF CheckMember, Fail, accountVars, WorkPc
<1>8. ASSUME NEW w \in Workers, UpdateOrg(w) PROVE BillingInv'
  BY <1>8, MovesKeepInv DEF UpdateOrg, Answer, accountVars, WorkPc
<1> QED
  BY <1>1, <1>2, <1>3, <1>4, <1>5, <1>6, <1>7, <1>8 DEF BillingNext, Proceed

(* The inductive invariant of the webhook.                                   *)
THEOREM BillingInvariant == BillingSpec => []BillingInv
<1>1. BillingInit => BillingInv
  BY BillingInitInv
<1>2. BillingInv /\ [BillingNext]_billingVars => BillingInv'
  BY BillingStepInv
<1> QED
  BY <1>1, <1>2, PTL DEF BillingSpec

(* Every variable of the webhook keeps its type: only what has happened is
   acknowledged or recorded.                                                 *)
THEOREM BillingTypes == BillingSpec => []BillingTypeOK
<1>1. BillingInv => BillingTypeOK
  BY DEF BillingInv
<1> QED
  BY <1>1, BillingInvariant, PTL

(* However often an event is delivered to stripe_webhook and however the
   deliveries overlap and fail, it sets the user's plan at most once.        *)
THEOREM EventsApplyOnce == BillingSpec => []AppliedAtMostOnce
<1>1. BillingInv => AppliedAtMostOnce
  BY DEF BillingInv
<1> QED
  BY <1>1, BillingInvariant, PTL
=============================================================================
