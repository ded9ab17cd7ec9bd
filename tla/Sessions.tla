------------------------------- MODULE Sessions -------------------------------
(***************************************************************************)
(* One account: its one-time password and its sessions (auth.go, admin.go). *)
(* A session is a chain of refresh tokens that starts with a login; each   *)
(* refresh revokes the token it presents and inserts the next one.         *)
(* verifyOTP reads the challenge, checks the code and writes without a     *)
(* transaction around them.  An UPDATE over several tokens takes the rows  *)
(* of its snapshot and waits for those that others hold: a token committed *)
(* after it began is not among them.                                       *)
(***************************************************************************)
EXTENDS Naturals, FiniteSets

CONSTANTS
  Tokens,        \* numbers of the refresh tokens ever issued
  Clients,       \* requests in progress at the same time
  NoClient,      \* nobody holds a lock
  AttemptLimit,  \* attempts a code allows, 5 in the code
  MaxUncounted   \* bound on comparisons whose count fails

ASSUME SessionAssumption ==
  /\ Tokens \subseteq Nat
  /\ IsFiniteSet(Clients) /\ Clients # {}
  /\ NoClient \notin Clients
  /\ AttemptLimit \in Nat \ {0}
  /\ MaxUncounted \in Nat

VARIABLES
  challenge,    \* otp_challenges: the one row of the phone
  misses,       \* comparisons since the code was sent that found it wrong
  token,        \* refresh_tokens: whether it is live and the login it goes back to
  account,      \* users.account_status
  tokenHolder,  \* who holds the row of each token
  userHolder,   \* who holds the row of the user
  request,      \* what each client asked for and how far that is
  subjects,     \* the tokens it is about
  uncounted     \* wrong codes the row does not count, its UPDATE having failed

sessionVars == <<challenge, misses, token, account, tokenHolder, userHolder, request, subjects, uncounted>>

NoChallenge == [state |-> "none", attempts |-> 0, recent |-> FALSE]
Steps == {"idle", "sending", "comparing", "wrong", "right", "rotating", "current", "others", "barred", "all"}

SessionTypeOK ==
  /\ challenge \in [state : {"none", "open", "expired"}, attempts : 0..(AttemptLimit + Cardinality(Clients)), recent : BOOLEAN]
  /\ misses \in Nat
  /\ token \in [Tokens -> [state : {"none", "live", "over"}, login : Tokens]]
  /\ account \in {"none", "active", "barred"}
  /\ tokenHolder \in [Tokens -> Clients \cup {NoClient}]
  /\ userHolder \in Clients \cup {NoClient}
  /\ request \in [Clients -> Steps]
  /\ subjects \in [Clients -> SUBSET Tokens]
  /\ uncounted \in 0..MaxUncounted

SessionInit ==
  /\ challenge = NoChallenge
  /\ misses = 0
  /\ token = [t \in Tokens |-> [state |-> "none", login |-> t]]
  /\ account = "none"
  /\ tokenHolder = [t \in Tokens |-> NoClient]
  /\ userHolder = NoClient
  /\ request = [c \in Clients |-> "idle"]
  /\ subjects = [c \in Clients |-> {}]
  /\ uncounted = 0

Live(t)   == token[t].state = "live"
\* bound: tokens are used in order
Issuable(t) == token[t].state = "none" /\ \A s \in Tokens : s < t => token[s].state # "none"
codes     == <<challenge, misses>>
locks     == <<tokenHolder, userHolder>>

At(c, step)   == request[c] = step
Goto(c, step) == request' = [request EXCEPT ![c] = step]
About(c, S)   == subjects' = [subjects EXCEPT ![c] = S]
Over(S)       == [t \in Tokens |-> IF t \in S THEN [token[t] EXCEPT !.state = "over"] ELSE token[t]]

-----------------------------------------------------------------------------
\* requestOTP: the cooldown is checked, the message sent, the row replaced.
AskCode(c) ==
  /\ At(c, "idle") /\ ~challenge.recent
  /\ Goto(c, "sending")
  /\ UNCHANGED <<codes, token, account, locks, subjects, uncounted>>

StoreCode(c) ==
  /\ At(c, "sending")
  /\ challenge' = [state |-> "open", attempts |-> 0, recent |-> TRUE]
  /\ misses' = 0
  /\ Goto(c, "idle")
  /\ UNCHANGED <<token, account, locks, subjects, uncounted>>

\* Mutant: one attempt too many is allowed.
VerifiableAtLimit == challenge.state = "open" /\ challenge.attempts <= AttemptLimit

\* verifyOTP reads the challenge, compares the code, ...
Verifiable == challenge.state = "open" /\ challenge.attempts < AttemptLimit

ReadCode(c) ==
  /\ At(c, "idle") /\ Verifiable
  /\ Goto(c, "comparing")
  /\ UNCHANGED <<codes, token, account, locks, subjects, uncounted>>

Compare(c) ==
  /\ At(c, "comparing")
  /\ \/ Goto(c, "wrong") /\ misses' = misses + 1
     \/ Goto(c, "right") /\ UNCHANGED misses
  /\ UNCHANGED <<challenge, token, account, locks, subjects, uncounted>>

\* Mutant: a wrong code is counted by two layers.
CountWrongTwice(c) ==
  /\ At(c, "wrong")
  /\ challenge' = IF challenge.state = "none" THEN challenge ELSE [challenge EXCEPT !.attempts = @ + 2]
  /\ Goto(c, "idle")
  /\ UNCHANGED <<misses, token, account, locks, subjects, uncounted>>

\* ... counts a wrong code, if the row is still there, ...
CountWrong(c) ==
  /\ At(c, "wrong")
  /\ challenge' = IF challenge.state = "none" THEN challenge ELSE [challenge EXCEPT !.attempts = @ + 1]
  /\ Goto(c, "idle")
  /\ UNCHANGED <<misses, token, account, locks, subjects, uncounted>>

\* ... or creates or touches the user, deletes the challenge and starts a session.
LogIn(c, t) ==
  /\ At(c, "right")
  /\ userHolder = NoClient
  /\ Issuable(t)
  /\ account' = IF account = "none" THEN "active" ELSE account
  /\ challenge' = NoChallenge
  /\ token' = [token EXCEPT ![t] = [state |-> "live", login |-> t]]
  /\ Goto(c, "idle")
  /\ UNCHANGED <<misses, locks, subjects, uncounted>>

\* refreshSession locks the live token and the user ...
RowFree(t) == tokenHolder[t] = NoClient

\* Mutant: a refresh that reads the token without FOR UPDATE.
ReadToken(c, t) ==
  /\ At(c, "idle") /\ Live(t)
  /\ About(c, {t})
  /\ Goto(c, "rotating")
  /\ UNCHANGED <<codes, token, account, locks, uncounted>>

LockToken(c, t) ==
  /\ At(c, "idle") /\ Live(t)
  /\ RowFree(t) /\ userHolder = NoClient
  /\ tokenHolder' = [tokenHolder EXCEPT ![t] = c]
  /\ userHolder' = c
  /\ About(c, {t})
  /\ Goto(c, "rotating")
  /\ UNCHANGED <<codes, token, account, uncounted>>

\* ... and replaces the token.
Unlock(c) ==
  /\ tokenHolder' = [t \in Tokens |-> IF tokenHolder[t] = c THEN NoClient ELSE tokenHolder[t]]
  /\ userHolder' = IF userHolder = c THEN NoClient ELSE userHolder

Rotate(c, old, new) ==
  /\ At(c, "rotating") /\ old \in subjects[c] /\ Issuable(new)
  /\ token' = [Over({old}) EXCEPT ![new] = [state |-> "live", login |-> token[old].login]]
  /\ Unlock(c)
  /\ About(c, {})
  /\ Goto(c, "idle")
  /\ UNCHANGED <<codes, account, uncounted>>

\* logout with a token and revokeSession with its id are one UPDATE of one row.
Revoke(t) ==
  /\ Live(t) /\ RowFree(t)
  /\ token' = Over({t})
  /\ UNCHANGED <<codes, account, locks, request, subjects, uncounted>>

\* revokeOtherSessions checks the token of the client, then runs its UPDATE.
CheckCurrent(c, t) ==
  /\ At(c, "idle") /\ account = "active" /\ Live(t)
  /\ About(c, {t})
  /\ Goto(c, "current")
  /\ UNCHANGED <<codes, token, account, locks, uncounted>>

BeginOthers(c) ==
  /\ At(c, "current")
  /\ About(c, {t \in Tokens \ subjects[c] : Live(t)})
  /\ Goto(c, "others")
  /\ UNCHANGED <<codes, token, account, locks, uncounted>>

\* updateAdminUserStatus, once it has the row of the user, then its UPDATE.
Bar(c) ==
  /\ At(c, "idle") /\ account = "active"
  /\ userHolder = NoClient
  /\ account' = "barred"
  /\ Goto(c, "barred")
  /\ UNCHANGED <<codes, token, locks, subjects, uncounted>>

BeginAll(c) ==
  /\ At(c, "barred")
  /\ About(c, {t \in Tokens : Live(t)})
  /\ Goto(c, "all")
  /\ UNCHANGED <<codes, token, account, locks, uncounted>>

Readmit ==
  /\ account = "barred" /\ userHolder = NoClient
  /\ account' = "active"
  /\ UNCHANGED <<codes, token, locks, request, subjects, uncounted>>

\* The end of either UPDATE.
RevokeSubjects(c) ==
  /\ At(c, "others") \/ At(c, "all")
  /\ \A t \in subjects[c] : RowFree(t)
  /\ token' = Over(subjects[c])
  /\ About(c, {})
  /\ Goto(c, "idle")
  /\ UNCHANGED <<codes, account, locks, uncounted>>

\* A statement or the SMS service fails, or the process stops.
Fail(c) ==
  /\ ~At(c, "idle")
  /\ IF At(c, "wrong") THEN uncounted < MaxUncounted /\ uncounted' = uncounted + 1
                       ELSE UNCHANGED uncounted
  /\ Unlock(c)
  /\ About(c, {})
  /\ Goto(c, "idle")
  /\ UNCHANGED <<codes, token, account>>

\* A minute, ten minutes and the life of a token pass.
Age ==
  /\ \/ challenge.recent /\ challenge' = [challenge EXCEPT !.recent = FALSE] /\ UNCHANGED token
     \/ challenge.state = "open" /\ ~challenge.recent /\ challenge' = [challenge EXCEPT !.state = "expired"] /\ UNCHANGED token
     \/ \E t \in Tokens : Live(t) /\ token' = Over({t}) /\ UNCHANGED challenge
  /\ UNCHANGED <<misses, account, locks, request, subjects, uncounted>>

SessionNext ==
  \/ \E c \in Clients :
       \/ AskCode(c) \/ StoreCode(c) \/ ReadCode(c) \/ Compare(c) \/ CountWrong(c)
       \/ BeginOthers(c) \/ Bar(c) \/ BeginAll(c) \/ RevokeSubjects(c) \/ Fail(c)
       \/ \E t \in Tokens :
            LogIn(c, t) \/ LockToken(c, t) \/ CheckCurrent(c, t) \/ (\E new \in Tokens : Rotate(c, t, new))
  \/ \E t \in Tokens : Revoke(t)
  \/ Readmit
  \/ Age

SessionSpec == SessionInit /\ [][SessionNext]_sessionVars

-----------------------------------------------------------------------------
\* Two requests that present the same refresh token at once, as a client that
\* retries does, do not both get a successor: a login has one live token.
OneLivePerLogin ==
  \A s, t \in Tokens : Live(s) /\ Live(t) /\ token[s].login = token[t].login => s = t

\* The attempts are read before and counted after the comparison, so requests in
\* progress together try more wrong codes than the limit says: at most one more
\* for each of them but one, and one for each count that failed.
MissesBounded == misses <= AttemptLimit + Cardinality(Clients) - 1 + uncounted
===============================================================================
