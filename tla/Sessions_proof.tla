---------------------------- MODULE Sessions_proof ----------------------------
(***************************************************************************)
(* Proofs about Sessions for any number of tokens and of requests in       *)
(* progress, and any limit of attempts: refreshes that overlap leave one   *)
(* live token for each login, and requests that check codes together find  *)
(* no more wrong ones than the limit and their number allow.               *)
(***************************************************************************)
EXTENDS Sessions, FiniteSetTheorems, TLAPS

(* What the properties need to be inductive.                               *)

(* The requests at a step, and how many they are.                          *)
In(w) == {c \in Clients : request[c] = w}
N(w)  == Cardinality(In(w))

(* A wrong code is counted, about to be, or lost; who compares was let in  *)
(* below the limit.                                                        *)
CountFacts ==
  /\ challenge.state # "none" => misses <= challenge.attempts + N("wrong") + uncounted
  /\ misses + N("comparing") <= AttemptLimit + Cardinality(Clients) - 1 + uncounted
  /\ challenge.attempts + N("comparing") + N("wrong") <= AttemptLimit + Cardinality(Clients)

(* A refresh holds the user and one token, the last of its login.          *)
Refreshing(c) ==
  /\ userHolder = c
  /\ \E t \in Tokens :
       /\ subjects[c] = {t} /\ token[t].state # "none"
       /\ \A s \in Tokens : Live(s) /\ token[s].login = token[t].login => s = t

TokenFacts ==
  /\ \A t \in Tokens : token[t].state = "none" => token[t].login = t
  /\ \A t \in Tokens : token[t].state # "none" => token[token[t].login].state # "none"
  /\ \A c \in Clients : request[c] = "rotating" => Refreshing(c)

IInv == SessionTypeOK /\ CountFacts /\ TokenFacts /\ OneLivePerLogin

(* The types without the number of attempts.                               *)
Types ==
  /\ challenge \in [state : {"none", "open", "expired"}, attempts : Nat, recent : BOOLEAN]
  /\ misses \in Nat
  /\ token \in [Tokens -> [state : {"none", "live", "over"}, login : Tokens]]
  /\ account \in {"none", "active", "barred"}
  /\ tokenHolder \in [Tokens -> Clients \cup {NoClient}]
  /\ userHolder \in Clients \cup {NoClient}
  /\ request \in [Clients -> Steps]
  /\ subjects \in [Clients -> SUBSET Tokens]
  /\ uncounted \in 0..MaxUncounted
-----------------------------------------------------------------------------
(* Counting requests.                                                      *)

(* Requests can be counted.                                                *)
LEMMA Countable ==
  /\ Cardinality(Clients) \in Nat /\ Cardinality(Clients) >= 1
  /\ \A w : IsFiniteSet(In(w)) /\ N(w) \in Nat
<1>1. \A w : In(w) \subseteq Clients
  BY DEF In
<1>2. \A w : IsFiniteSet(In(w)) /\ N(w) \in Nat
  BY <1>1, FS_Subset, FS_CardinalityType, SessionAssumption DEF N
<1> QED
  BY <1>2, FS_CardinalityType, FS_EmptySet, SessionAssumption

(* A request that moves leaves one step and enters another.                *)
LEMMA Moves ==
  ASSUME request \in [Clients -> Steps], NEW c \in Clients, NEW s, NEW w, Goto(c, s)
  PROVE  /\ N(w)' = N(w) - (IF request[c] = w THEN 1 ELSE 0) + (IF s = w THEN 1 ELSE 0)
         /\ N(w)' \in Nat /\ N(w) \in Nat
<1>1. IsFiniteSet(In(w)) /\ N(w) \in Nat
  BY Countable
<1>2. In(w)' = IF s = w THEN In(w) \cup {c} ELSE In(w) \ {c}
  BY DEF In, Goto
<1>3. c \in In(w) <=> request[c] = w
  BY DEF In
<1>4. N(w)' = Cardinality(In(w)')
  BY DEF N
<1>5. CASE s = w
  BY <1>1, <1>2, <1>3, <1>4, <1>5, FS_AddElement, FS_CardinalityType DEF N
<1>6. CASE s # w
  BY <1>1, <1>2, <1>3, <1>4, <1>6, FS_RemoveElement, FS_CardinalityType DEF N
<1> QED
  BY <1>5, <1>6

(* The two steps of a check of a code together have at most all requests,  *)
(* and one less when one is elsewhere.                                     *)
LEMMA Fits ==
  /\ N("comparing") + N("wrong") <= Cardinality(Clients)
  /\ \A c \in Clients : request[c] \notin {"comparing", "wrong"}
       => N("comparing") + N("wrong") <= Cardinality(Clients) - 1
<1> DEFINE Both == In("comparing") \cup In("wrong")
<1>1. In("comparing") \cap In("wrong") = {} /\ Both \subseteq Clients
  BY DEF In
<1>2. IsFiniteSet(Both) /\ Cardinality(Both) = N("comparing") + N("wrong")
  <2>1. IsFiniteSet(In("comparing")) /\ IsFiniteSet(In("wrong"))
    BY Countable
  <2>2. /\ IsFiniteSet(Both)
        /\ Cardinality(Both) = N("comparing") + N("wrong") - Cardinality(In("comparing") \cap In("wrong"))
    BY <2>1, FS_Union, Zenon DEF N
  <2> QED
    BY <1>1, <2>2, Countable, FS_EmptySet
<1>3. Cardinality(Both) <= Cardinality(Clients)
  BY <1>1, FS_Subset, SessionAssumption
<1>4. ASSUME NEW c \in Clients, request[c] \notin {"comparing", "wrong"}
      PROVE  Cardinality(Both) <= Cardinality(Clients) - 1
  <2>1. Both \subseteq Clients \ {c}
    BY <1>4 DEF In
  <2>2. IsFiniteSet(Clients \ {c}) /\ Cardinality(Clients \ {c}) = Cardinality(Clients) - 1
    BY <1>4, FS_RemoveElement, SessionAssumption
  <2> QED
    BY <2>1, <2>2, FS_Subset
<1> QED
  BY <1>2, <1>3, <1>4

(* Nothing moves.                                                          *)
LEMMA Stays ==
  ASSUME UNCHANGED request, NEW w
  PROVE  N(w)' = N(w) /\ N(w) \in Nat
<1>1. In(w)' = In(w)
  BY DEF In
<1> QED
  BY <1>1, Countable DEF N
-----------------------------------------------------------------------------

(* Every step keeps the types.                                             *)
LEMMA TypesStep ==
  ASSUME Types, [SessionNext]_sessionVars
  PROVE  Types'
<1> USE SessionAssumption DEF Types, Goto, About, Unlock, Over, codes, locks, Steps
<1>1. ASSUME NEW c \in Clients, AskCode(c)
      PROVE  Types'
  BY <1>1 DEF AskCode
<1>2. ASSUME NEW c \in Clients, StoreCode(c)
      PROVE  Types'
  BY <1>2 DEF StoreCode
<1>3. ASSUME NEW c \in Clients, ReadCode(c)
      PROVE  Types'
  BY <1>3 DEF ReadCode
<1>4. ASSUME NEW c \in Clients, Compare(c)
      PROVE  Types'
  BY <1>4 DEF Compare
<1>5. ASSUME NEW c \in Clients, CountWrong(c)
      PROVE  Types'
  BY <1>5 DEF CountWrong
<1>6. ASSUME NEW c \in Clients, NEW t \in Tokens, LogIn(c, t)
      PROVE  Types'
  BY <1>6 DEF LogIn, NoChallenge
<1>7. ASSUME NEW c \in Clients, NEW t \in Tokens, LockToken(c, t)
      PROVE  Types'
  BY <1>7 DEF LockToken
<1>8. ASSUME NEW c \in Clients, NEW t \in Tokens, NEW new \in Tokens, Rotate(c, t, new)
      PROVE  Types'
  BY <1>8 DEF Rotate
<1>9. ASSUME NEW t \in Tokens, Revoke(t)
      PROVE  Types'
  BY <1>9 DEF Revoke
<1>10. ASSUME NEW c \in Clients, NEW t \in Tokens, CheckCurrent(c, t)
      PROVE  Types'
  BY <1>10 DEF CheckCurrent
<1>11. ASSUME NEW c \in Clients, BeginOthers(c)
      PROVE  Types'
  BY <1>11 DEF BeginOthers, Live
<1>12. ASSUME NEW c \in Clients, Bar(c)
      PROVE  Types'
  BY <1>12 DEF Bar
<1>13. ASSUME NEW c \in Clients, BeginAll(c)
      PROVE  Types'
  BY <1>13 DEF BeginAll, Live
<1>14. ASSUME Readmit
      PROVE  Types'
  BY <1>14 DEF Readmit
<1>15. ASSUME NEW c \in Clients, RevokeSubjects(c)
      PROVE  Types'
  BY <1>15 DEF RevokeSubjects
<1>16. ASSUME NEW c \in Clients, Fail(c)
      PROVE  Types'
  BY <1>16 DEF Fail
<1>17. ASSUME Age
      PROVE  Types'
  <2>1. challenge' \in [state : {"none", "open", "expired"}, attempts : Nat, recent : BOOLEAN]
    BY <1>17 DEF Age
  <2>2. token' \in [Tokens -> [state : {"none", "live", "over"}, login : Tokens]]
    BY <1>17 DEF Age
  <2> QED
    BY <1>17, <2>1, <2>2 DEF Age
<1>18. ASSUME UNCHANGED sessionVars
      PROVE  Types'
  BY <1>18 DEF sessionVars
<1> QED
  BY <1>1, <1>2, <1>3, <1>4, <1>5, <1>6, <1>7, <1>8, <1>9, <1>10, <1>11, <1>12, <1>13, <1>14, <1>15, <1>16, <1>17, <1>18
  DEF SessionNext

(* Attempts, misses and requests stay in proportion.                       *)
LEMMA CountStep ==
  ASSUME IInv, Types, [SessionNext]_sessionVars
  PROVE  CountFacts'
<1>1. /\ CountFacts /\ request \in [Clients -> Steps] /\ misses \in Nat /\ uncounted \in Nat
      /\ challenge \in [state : {"none", "open", "expired"}, attempts : Nat, recent : BOOLEAN]
      /\ AttemptLimit \in Nat \ {0} /\ Cardinality(Clients) \in Nat
  BY SessionAssumption, Countable DEF IInv, Types
<1>2. ASSUME NEW c \in Clients, AskCode(c)
      PROVE  CountFacts'
  BY <1>1, <1>2, Moves, Fits, Countable DEF AskCode, At, CountFacts, codes
<1>3. ASSUME NEW c \in Clients, StoreCode(c)
      PROVE  CountFacts'
  BY <1>1, <1>3, Moves, Fits, Countable DEF StoreCode, At, CountFacts, codes
<1>4. ASSUME NEW c \in Clients, ReadCode(c)
      PROVE  CountFacts'
  BY <1>1, <1>4, Moves, Fits, Countable DEF ReadCode, Verifiable, At, CountFacts, codes
<1>5. ASSUME NEW c \in Clients, Compare(c)
      PROVE  CountFacts'
  BY <1>1, <1>5, Moves, Fits, Countable DEF Compare, At, CountFacts, codes
<1>6. ASSUME NEW c \in Clients, CountWrong(c)
      PROVE  CountFacts'
  BY <1>1, <1>6, Moves, Fits, Countable DEF CountWrong, At, CountFacts, codes
<1>7. ASSUME NEW c \in Clients, NEW t \in Tokens, LogIn(c, t)
      PROVE  CountFacts'
  BY <1>1, <1>7, Moves, Fits, Countable DEF LogIn, NoChallenge, At, CountFacts, codes
<1>8. ASSUME NEW c \in Clients, NEW t \in Tokens, LockToken(c, t)
      PROVE  CountFacts'
  BY <1>1, <1>8, Moves, Fits, Countable DEF LockToken, At, CountFacts, codes
<1>9. ASSUME NEW c \in Clients, NEW t \in Tokens, NEW new \in Tokens, Rotate(c, t, new)
      PROVE  CountFacts'
  BY <1>1, <1>9, Moves, Fits, Countable DEF Rotate, At, CountFacts, codes
<1>10. ASSUME NEW t \in Tokens, Revoke(t)
      PROVE  CountFacts'
  BY <1>1, <1>10, Stays DEF Revoke, CountFacts, codes
<1>11. ASSUME NEW c \in Clients, NEW t \in Tokens, CheckCurrent(c, t)
      PROVE  CountFacts'
  BY <1>1, <1>11, Moves, Fits, Countable DEF CheckCurrent, At, CountFacts, codes
<1>12. ASSUME NEW c \in Clients, BeginOthers(c)
      PROVE  CountFacts'
  BY <1>1, <1>12, Moves, Fits, Countable DEF BeginOthers, At, CountFacts, codes
<1>13. ASSUME NEW c \in Clients, Bar(c)
      PROVE  CountFacts'
  BY <1>1, <1>13, Moves, Fits, Countable DEF Bar, At, CountFacts, codes
<1>14. ASSUME NEW c \in Clients, BeginAll(c)
      PROVE  CountFacts'
  BY <1>1, <1>14, Moves, Fits, Countable DEF BeginAll, At, CountFacts, codes
<1>15. ASSUME Readmit
      PROVE  CountFacts'
  BY <1>1, <1>15, Stays DEF Readmit, CountFacts, codes
<1>16. ASSUME NEW c \in Clients, RevokeSubjects(c)
      PROVE  CountFacts'
  BY <1>1, <1>16, Moves, Fits, Countable DEF RevokeSubjects, At, CountFacts, codes
<1>17. ASSUME NEW c \in Clients, Fail(c)
      PROVE  CountFacts'
  BY <1>1, <1>17, Moves, Fits, Countable DEF Fail, At, CountFacts, codes
<1>18. ASSUME Age
      PROVE  CountFacts'
  <2>1. challenge'.attempts = challenge.attempts /\ (challenge'.state # "none" => challenge.state # "none")
    BY <1>1, <1>18 DEF Age
  <2> QED
    BY <1>1, <1>18, <2>1, Stays DEF Age, CountFacts
<1>19. ASSUME UNCHANGED sessionVars
      PROVE  CountFacts'
  BY <1>1, <1>19, Stays DEF sessionVars, CountFacts
<1> QED
  BY <1>2, <1>3, <1>4, <1>5, <1>6, <1>7, <1>8, <1>9, <1>10, <1>11, <1>12, <1>13, <1>14, <1>15, <1>16, <1>17, <1>18, <1>19
  DEF SessionNext

(* Tokens that are revoked stay what they are otherwise.                   *)
LEMMA RevokedTokens ==
  ASSUME Types, NEW S, token' = Over(S)
  PROVE  \A t \in Tokens :
           /\ token'[t].login = token[t].login
           /\ token'[t].state = "live" => token[t].state = "live"
           /\ token[t].state # "none" => token'[t].state # "none"
           /\ token'[t].state = "none" => token[t].state = "none"
BY DEF Types, Over

(* What makes tokens no more than revoked keeps the facts about tokens.    *)
LEMMA NoNewToken ==
  ASSUME IInv, Types, OneLivePerLogin,
         \A t \in Tokens :
           /\ token'[t].login = token[t].login
           /\ token'[t].state = "live" => token[t].state = "live"
           /\ token[t].state # "none" => token'[t].state # "none"
           /\ token'[t].state = "none" => token[t].state = "none",
         \A c \in Clients : request'[c] = "rotating" =>
           request[c] = "rotating" /\ userHolder' = userHolder /\ subjects'[c] = subjects[c]
  PROVE  TokenFacts' /\ OneLivePerLogin'
<1>1. TokenFacts
  BY DEF IInv
<1>2. OneLivePerLogin'
  BY DEF OneLivePerLogin, Live
<1>3. \A c \in Clients : request'[c] = "rotating" => Refreshing(c)'
  BY <1>1 DEF TokenFacts, Refreshing, Live
<1>4. \A t \in Tokens : token[t].login \in Tokens
  BY DEF Types
<1> QED
  BY <1>1, <1>2, <1>3, <1>4 DEF TokenFacts

(* A request that refreshes holds the user, and no other refreshes.        *)
LEMMA OneRefreshes ==
  ASSUME TokenFacts, NEW c \in Clients, request[c] = "rotating"
  PROVE  userHolder = c /\ \A d \in Clients : request[d] = "rotating" => d = c
BY DEF TokenFacts, Refreshing

(* When nobody holds the user, no request refreshes.                       *)
LEMMA NobodyRefreshes ==
  ASSUME TokenFacts, userHolder = NoClient
  PROVE  \A c \in Clients : request[c] # "rotating"
BY SessionAssumption DEF TokenFacts, Refreshing

(* A login starts a chain of its own.                                      *)
LEMMA LogInTokens ==
  ASSUME IInv, Types, NEW c \in Clients, NEW t \in Tokens, LogIn(c, t)
  PROVE  TokenFacts' /\ OneLivePerLogin'
<1>1. TokenFacts /\ OneLivePerLogin /\ token[t].state = "none"
  BY DEF IInv, LogIn, Issuable
<1>2. \A d \in Clients : request'[d] # "rotating"
  BY <1>1, NobodyRefreshes DEF LogIn, Goto, Types
<1>3. token'[t] = [state |-> "live", login |-> t] /\ \A s \in Tokens \ {t} : token'[s] = token[s]
  BY DEF LogIn, Types
<1>4. \A s \in Tokens : token[s].login \in Tokens
  BY DEF Types
<1>5. \A s \in Tokens \ {t} : token'[s].state # "none" => token'[s].login # t
  BY <1>1, <1>3 DEF TokenFacts
<1>6. OneLivePerLogin'
  BY <1>1, <1>3, <1>5 DEF OneLivePerLogin, Live
<1>7. \A s \in Tokens : token'[s].state = "none" => token'[s].login = s
  BY <1>1, <1>3 DEF TokenFacts
<1>8. \A s \in Tokens : token'[s].state # "none" => token'[token'[s].login].state # "none"
  BY <1>1, <1>3, <1>4 DEF TokenFacts
<1> QED
  BY <1>2, <1>6, <1>7, <1>8 DEF TokenFacts

(* A refresh begins with the one live token of its login.                  *)
LEMMA LockTokenTokens ==
  ASSUME IInv, Types, NEW c \in Clients, NEW t \in Tokens, LockToken(c, t)
  PROVE  TokenFacts' /\ OneLivePerLogin'
<1>1. TokenFacts /\ OneLivePerLogin /\ token' = token /\ Live(t)
  BY DEF IInv, LockToken
<1>2. \A d \in Clients : request'[d] = "rotating" => d = c
  BY <1>1, NobodyRefreshes DEF LockToken, Goto, Types
<1>3. userHolder' = c /\ subjects'[c] = {t}
  BY DEF LockToken, About, Types
<1>4. Refreshing(c)'
  BY <1>1, <1>3 DEF Refreshing, OneLivePerLogin, Live
<1> QED
  BY <1>1, <1>2, <1>4 DEF TokenFacts, OneLivePerLogin, Live

(* It ends with the successor as the one live token.                       *)
LEMMA RotateTokens ==
  ASSUME IInv, Types, NEW c \in Clients, NEW old \in Tokens, NEW new \in Tokens, Rotate(c, old, new)
  PROVE  TokenFacts' /\ OneLivePerLogin'
<1>1. TokenFacts /\ OneLivePerLogin /\ token[new].state = "none" /\ request[c] = "rotating"
  BY DEF IInv, Rotate, Issuable, At
<1>2. \A d \in Clients : request'[d] # "rotating"
  BY <1>1, OneRefreshes DEF Rotate, Goto, Types
<1>3. token[old].state # "none" /\ \A s \in Tokens : Live(s) /\ token[s].login = token[old].login => s = old
  BY <1>1 DEF TokenFacts, Refreshing, Rotate
<1>4. /\ new # old
      /\ token'[new] = [state |-> "live", login |-> token[old].login]
      /\ token'[old].state = "over" /\ token'[old].login = token[old].login
      /\ \A s \in Tokens \ {old, new} : token'[s] = token[s]
  BY <1>1, <1>3 DEF Rotate, Over, Types
<1>5. \A s \in Tokens : token[s].login \in Tokens
  BY DEF Types
<1>6. OneLivePerLogin'
  BY <1>1, <1>3, <1>4 DEF OneLivePerLogin, Live
<1>7. \A s \in Tokens : token'[s].state = "none" => token'[s].login = s
  BY <1>1, <1>4 DEF TokenFacts
<1>8. \A s \in Tokens : token[s].state # "none" => token'[s].state # "none"
  BY <1>4
<1>9. \A s \in Tokens : token'[s].state # "none" => token'[token'[s].login].state # "none"
  BY <1>1, <1>3, <1>4, <1>5, <1>8 DEF TokenFacts
<1> QED
  BY <1>2, <1>6, <1>7, <1>9 DEF TokenFacts


(* Every step keeps the facts about tokens.                                *)
LEMMA TokenStep ==
  ASSUME IInv, Types, [SessionNext]_sessionVars
  PROVE  TokenFacts' /\ OneLivePerLogin'
<1>1. TokenFacts /\ OneLivePerLogin /\ request \in [Clients -> Steps] /\ subjects \in [Clients -> SUBSET Tokens]
  BY DEF IInv, Types
<1>2. ASSUME NEW c \in Clients, AskCode(c)
      PROVE  TokenFacts' /\ OneLivePerLogin'
  BY <1>1, <1>2, NoNewToken DEF AskCode, Goto, locks
<1>3. ASSUME NEW c \in Clients, StoreCode(c)
      PROVE  TokenFacts' /\ OneLivePerLogin'
  BY <1>1, <1>3, NoNewToken DEF StoreCode, Goto, locks
<1>4. ASSUME NEW c \in Clients, ReadCode(c)
      PROVE  TokenFacts' /\ OneLivePerLogin'
  BY <1>1, <1>4, NoNewToken DEF ReadCode, Goto, locks
<1>5. ASSUME NEW c \in Clients, Compare(c)
      PROVE  TokenFacts' /\ OneLivePerLogin'
  BY <1>1, <1>5, NoNewToken DEF Compare, Goto, locks
<1>6. ASSUME NEW c \in Clients, CountWrong(c)
      PROVE  TokenFacts' /\ OneLivePerLogin'
  BY <1>1, <1>6, NoNewToken DEF CountWrong, Goto, locks
<1>7. ASSUME NEW c \in Clients, NEW t \in Tokens, LogIn(c, t)
      PROVE  TokenFacts' /\ OneLivePerLogin'
  BY <1>7, LogInTokens
<1>8. ASSUME NEW c \in Clients, NEW t \in Tokens, LockToken(c, t)
      PROVE  TokenFacts' /\ OneLivePerLogin'
  BY <1>8, LockTokenTokens
<1>9. ASSUME NEW c \in Clients, NEW t \in Tokens, NEW new \in Tokens, Rotate(c, t, new)
      PROVE  TokenFacts' /\ OneLivePerLogin'
  BY <1>9, RotateTokens
<1>10. ASSUME NEW t \in Tokens, Revoke(t)
      PROVE  TokenFacts' /\ OneLivePerLogin'
  BY <1>1, <1>10, RevokedTokens, NoNewToken DEF Revoke, locks
<1>11. ASSUME NEW c \in Clients, NEW t \in Tokens, CheckCurrent(c, t)
      PROVE  TokenFacts' /\ OneLivePerLogin'
  BY <1>1, <1>11, NoNewToken DEF CheckCurrent, Goto, locks, About
<1>12. ASSUME NEW c \in Clients, BeginOthers(c)
      PROVE  TokenFacts' /\ OneLivePerLogin'
  BY <1>1, <1>12, NoNewToken DEF BeginOthers, Goto, locks, About
<1>13. ASSUME NEW c \in Clients, Bar(c)
      PROVE  TokenFacts' /\ OneLivePerLogin'
  BY <1>1, <1>13, NoNewToken DEF Bar, Goto, locks
<1>14. ASSUME NEW c \in Clients, BeginAll(c)
      PROVE  TokenFacts' /\ OneLivePerLogin'
  BY <1>1, <1>14, NoNewToken DEF BeginAll, Goto, locks, About
<1>15. ASSUME Readmit
      PROVE  TokenFacts' /\ OneLivePerLogin'
  BY <1>1, <1>15, NoNewToken DEF Readmit, locks
<1>16. ASSUME NEW c \in Clients, RevokeSubjects(c)
      PROVE  TokenFacts' /\ OneLivePerLogin'
  BY <1>1, <1>16, RevokedTokens, NoNewToken DEF RevokeSubjects, Goto, About, locks
<1>17. ASSUME NEW c \in Clients, Fail(c)
      PROVE  TokenFacts' /\ OneLivePerLogin'
  <2>1. \A d \in Clients : request'[d] = "rotating" =>
          d # c /\ request[d] = "rotating" /\ userHolder' = userHolder /\ subjects'[d] = subjects[d]
    BY <1>1, <1>17 DEF Fail, Goto, About, Unlock, TokenFacts, Refreshing
  <2> QED
    BY <1>1, <1>17, <2>1, NoNewToken DEF Fail
<1>18. ASSUME Age
      PROVE  TokenFacts' /\ OneLivePerLogin'
  <2>1. CASE token' = token
    BY <1>1, <1>18, <2>1, NoNewToken DEF Age, locks
  <2>2. ASSUME NEW t \in Tokens, token' = Over({t})
        PROVE  TokenFacts' /\ OneLivePerLogin'
    BY <1>1, <1>18, <2>2, RevokedTokens, NoNewToken DEF Age, locks
  <2> QED
    BY <1>18, <2>1, <2>2 DEF Age
<1>19. ASSUME UNCHANGED sessionVars
      PROVE  TokenFacts' /\ OneLivePerLogin'
  BY <1>1, <1>19, NoNewToken DEF sessionVars
<1> QED
  BY <1>2, <1>3, <1>4, <1>5, <1>6, <1>7, <1>8, <1>9, <1>10, <1>11, <1>12, <1>13, <1>14, <1>15, <1>16, <1>17, <1>18, <1>19
  DEF SessionNext

-----------------------------------------------------------------------------
(* The types are those of the specification: the attempts are bounded      *)
(* because a code is only compared below the limit.                        *)
LEMMA TypesFit ==
  /\ SessionTypeOK => Types
  /\ Types /\ CountFacts => SessionTypeOK
<1>1. 0..(AttemptLimit + Cardinality(Clients)) \subseteq Nat
  OBVIOUS
<1>2. SessionTypeOK => Types
  BY <1>1 DEF SessionTypeOK, Types
<1>3. ASSUME Types, CountFacts
      PROVE  SessionTypeOK
  <2>1. challenge.attempts \in 0..(AttemptLimit + Cardinality(Clients))
    BY <1>3, Countable, SessionAssumption DEF Types, CountFacts
  <2>2. challenge \in [state : {"none", "open", "expired"}, attempts : 0..(AttemptLimit + Cardinality(Clients)), recent : BOOLEAN]
    BY <1>3, <2>1 DEF Types
  <2> QED
    BY <1>3, <2>2 DEF Types, SessionTypeOK
<1> QED
  BY <1>2, <1>3

(* The same of the next state.                                            *)
LEMMA TypesFitNext == Types' /\ CountFacts' => SessionTypeOK'
<1>1. ASSUME Types', CountFacts'
      PROVE  SessionTypeOK'
  <2>1. challenge'.attempts \in 0..(AttemptLimit + Cardinality(Clients))
    <3>1. \A w : N(w)' \in Nat
      <4>1. \A w : In(w)' \subseteq Clients
        BY DEF In
      <4> QED
        BY <4>1, FS_Subset, FS_CardinalityType, SessionAssumption DEF N
    <3> QED
      BY <1>1, <3>1, Countable, SessionAssumption DEF Types, CountFacts
  <2>2. challenge' \in [state : {"none", "open", "expired"}, attempts : 0..(AttemptLimit + Cardinality(Clients)), recent : BOOLEAN]
    BY <1>1, <2>1 DEF Types
  <2> QED
    BY <1>1, <2>2 DEF Types, SessionTypeOK
<1> QED
  BY <1>1

(* The initial state satisfies all of it.                                  *)
LEMMA InitOK == SessionInit => IInv
<1> SUFFICES ASSUME SessionInit
             PROVE  IInv
  OBVIOUS
<1>1. Types
  BY SessionAssumption DEF SessionInit, Types, NoChallenge, Steps
<1>2. In("comparing") = {} /\ In("wrong") = {}
  BY DEF SessionInit, In
<1>3. CountFacts
  BY <1>2, FS_EmptySet, Countable, SessionAssumption DEF SessionInit, NoChallenge, CountFacts, N
<1>4. TokenFacts /\ OneLivePerLogin
  BY DEF SessionInit, TokenFacts, OneLivePerLogin, Live
<1> QED
  BY <1>1, <1>3, <1>4, TypesFit DEF IInv

(* The invariant is inductive.                                             *)
THEOREM SessionsInductive == SessionSpec => []IInv
<1>1. IInv /\ [SessionNext]_sessionVars => IInv'
  <2> SUFFICES ASSUME IInv, [SessionNext]_sessionVars
               PROVE  IInv'
    OBVIOUS
  <2>1. Types
    BY TypesFit DEF IInv
  <2> QED
    BY <2>1, TypesStep, CountStep, TokenStep, TypesFitNext DEF IInv
<1> QED
  BY <1>1, InitOK, PTL DEF SessionSpec

(* The state of Sessions is well typed.                                    *)
THEOREM SessionTypes == SessionSpec => []SessionTypeOK
<1>1. IInv => SessionTypeOK
  BY DEF IInv
<1> QED
  BY <1>1, SessionsInductive, PTL

(* refreshSession: however requests with the same refresh token overlap, a *)
(* login has at most one live token.                                       *)
THEOREM OneLive == SessionSpec => []OneLivePerLogin
<1>1. IInv => OneLivePerLogin
  BY DEF IInv
<1> QED
  BY <1>1, SessionsInductive, PTL

(* verifyOTP: a code is found wrong at most once more than the limit for   *)
(* each request but one, and once for each count that failed.              *)
THEOREM MissesLimited == SessionSpec => []MissesBounded
<1>1. IInv => MissesBounded
  <2> SUFFICES ASSUME IInv
               PROVE  MissesBounded
    OBVIOUS
  <2>1. Types /\ CountFacts
    BY TypesFit DEF IInv
  <2> QED
    BY <2>1, Countable, SessionAssumption DEF Types, CountFacts, MissesBounded
<1> QED
  BY <1>1, SessionsInductive, PTL
===============================================================================
