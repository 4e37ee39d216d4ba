-------------------------- MODULE AuthSessionProofs --------------------------
(***************************************************************************)
(* Who is let in, for any number of logins, resends, sessions and codes.   *)
(*                                                                         *)
(* The argument: a challenge is enabled only by a request that has mailed  *)
(* the code it still has; its row counts exactly the codes compared for    *)
(* it; and as long as it has a row no session came from it.  And a mail    *)
(* leaves only for a request that a window has granted one.                *)
(***************************************************************************)
EXTENDS AuthSession, TLAPS, FiniteSetTheorems

Early(l) == request[l].step \in {"new", "checked", "charged"}

CountsMatch == /\ \A l \in open : challenge[l].attempts = compared[l]
               /\ \A l \in Login : Early(l) => compared[l] = 0

Unopened(l) == \A s \in Session : token[s].opened # l

SourcesFit == /\ \A l \in open : Unopened(l)
              /\ \A l \in Login : Early(l) => Unopened(l)

CodesFit == /\ \A q \in Request : request[q].step \in {"sending", "sent"} =>
                                      request[q].challenge \in Login /\ request[q].code \in Code
            /\ \A q \in Request : request[q].step = "sent" =>
                                      <<request[q].challenge, request[q].code>> \in mailed
            /\ \A l \in open : challenge[l].delivered => <<l, challenge[l].code>> \in mailed

TokensFit == \A s \in Session :
                 /\ token[s].opened # None => <<token[s].opened, token[s].code>> \in mailed
                 /\ token[s].factor = "email" => token[s].opened # None

AuthInv == /\ AuthTypeOK /\ RowsAreOfTheEditor
           /\ CountsMatch /\ GuessesAreBounded
           /\ SourcesFit /\ ChallengesOpenOnce
           /\ CodesFit /\ TokensFit

-----------------------------------------------------------------------------

(* At the start nobody has asked for anything.                             *)
LEMMA AuthInvInit == AuthInit => AuthInv
<1> SUFFICES ASSUME AuthInit PROVE AuthInv
  OBVIOUS
<1> USE AuthAssumption DEF AuthInit
<1>1. AuthTypeOK
  BY DEF AuthTypeOK, Version, Time, Challenge, NoChallenge, Token, NoToken, Factor, Step,
         RequestState, NewRequest, Request
<1>2. RowsAreOfTheEditor /\ GuessesAreBounded /\ CountsMatch
  BY DEF RowsAreOfTheEditor, GuessesAreBounded, CountsMatch
<1>3. SourcesFit /\ ChallengesOpenOnce /\ TokensFit
  BY DEF SourcesFit, Unopened, ChallengesOpenOnce, TokensFit, NoToken
<1>4. CodesFit
  BY DEF CodesFit, NewRequest
<1> QED
  BY <1>1, <1>2, <1>3, <1>4 DEF AuthInv

(* A step of a request keeps the type of its record.                       *)
LEMMA AdvanceType ==
    ASSUME AuthTypeOK, NEW q \in Request, NEW step \in Step, Advance(q, step)
    PROVE  request' \in [Request -> RequestState]
<1>1. request \in [Request -> RequestState] /\ request[q] \in RequestState
  BY DEF AuthTypeOK
<1>2. [request[q] EXCEPT !.step = step] \in RequestState
  BY <1>1 DEF RequestState
<1> QED
  BY <1>1, <1>2 DEF Advance

\* Request q goes on with challenge l and the code k it has drawn.
Draws(q, l, k) ==
    request' = [request EXCEPT ![q].step = "sending", ![q].challenge = l, ![q].code = k]

(* So does the step that remembers which challenge and code it is about.   *)
LEMMA DrawType ==
    ASSUME AuthTypeOK, NEW q \in Request, NEW l \in Login, NEW k \in Code,
           Draws(q, l, k)
    PROVE  /\ request' \in [Request -> RequestState]
           /\ request'[q].step = "sending" /\ request'[q].challenge = l /\ request'[q].code = k
           /\ \A p \in Request \ {q} : request'[p] = request[p]
<1> DEFINE rec == [request[q] EXCEPT !.step = "sending", !.challenge = l, !.code = k]
<1>1. request \in [Request -> RequestState] /\ request[q] \in RequestState
  BY DEF AuthTypeOK
<1>2. rec \in RequestState /\ rec.step = "sending" /\ rec.challenge = l /\ rec.code = k
  BY <1>1 DEF RequestState, Step
<1>3. request' = [request EXCEPT ![q] = rec]
  BY <1>1 DEF Draws
<1> HIDE DEF rec
<1> QED
  BY <1>1, <1>2, <1>3

(* And the step that remembers the credentials and the time.               *)
LEMMA CheckType ==
    ASSUME AuthTypeOK, NEW q \in Request,
           request' = [request EXCEPT ![q].step = "checked", ![q].version = version, ![q].now = clock]
    PROVE  /\ request' \in [Request -> RequestState]
           /\ request'[q].step = "checked"
           /\ \A p \in Request \ {q} : request'[p] = request[p]
<1> DEFINE rec == [request[q] EXCEPT !.step = "checked", !.version = version, !.now = clock]
<1>1. /\ request \in [Request -> RequestState] /\ request[q] \in RequestState
      /\ version \in Version /\ clock \in Time
  BY DEF AuthTypeOK
<1>2. rec \in RequestState /\ rec.step = "checked"
  BY <1>1 DEF RequestState, Step
<1>3. request' = [request EXCEPT ![q] = rec]
  BY <1>1
<1> HIDE DEF rec
<1> QED
  BY <1>1, <1>2, <1>3

(* And the step that takes the time of a resend.                           *)
LEMMA ResendType ==
    ASSUME AuthTypeOK, NEW q \in Request,
           request' = [request EXCEPT ![q].step = Charged, ![q].now = clock]
    PROVE  /\ request' \in [Request -> RequestState]
           /\ request'[q].step \in {"charged", "over"}
           /\ \A p \in Request \ {q} : request'[p] = request[p]
<1> DEFINE rec == [request[q] EXCEPT !.step = Charged, !.now = clock]
<1>1. /\ request \in [Request -> RequestState] /\ request[q] \in RequestState
      /\ clock \in Time /\ Charged \in {"charged", "over"}
  BY DEF AuthTypeOK, Charged
<1>2. rec \in RequestState /\ rec.step \in {"charged", "over"}
  BY <1>1 DEF RequestState, Step
<1>3. request' = [request EXCEPT ![q] = rec]
  BY <1>1
<1> HIDE DEF rec
<1> QED
  BY <1>1, <1>2, <1>3

(* Every operation keeps the types of the variables.                       *)
LEMMA AuthTypeNext ==
    ASSUME AuthInv, [Next]_vars
    PROVE  AuthTypeOK'
<1> USE AuthAssumption
<1>0. AuthTypeOK
  BY DEF AuthInv
<1>1. CASE UNCHANGED vars
  BY <1>0, <1>1 DEF AuthTypeOK, vars, tables, history, budget
<1>2. ASSUME NEW l \in Login, CheckPassword(l) PROVE AuthTypeOK'
  <2>1. request' \in [Request -> RequestState]
    BY <1>0, <1>2, CheckType DEF CheckPassword, Request
  <2> QED
    BY <1>0, <1>2, <2>1 DEF AuthTypeOK, CheckPassword, history, budget, Unexpired
<1>3. ASSUME NEW l \in Login, RefuseLogin(l) PROVE AuthTypeOK'
  BY <1>0, <1>3 DEF AuthTypeOK, RefuseLogin, Advance, history, budget, tables, RequestState, Step, Request
<1>4. ASSUME NEW l \in Login, NEW s \in Session, SignIn(l, s) PROVE AuthTypeOK'
  BY <1>0, <1>4 DEF AuthTypeOK, SignIn, IssueToken, Advance, history, budget, RequestState, Step,
                   Request, Unexpired, Token, Version, Time
<1>5. ASSUME NEW l \in Login, NEW k \in Code, StoreChallenge(l, k) PROVE AuthTypeOK'
  <2>0. l \in Request /\ Draws(l, l, k)
    BY <1>5 DEF StoreChallenge, Insert, Request, Draws
  <2>1. request' \in [Request -> RequestState]
    BY <1>0, <2>0, DrawType
  <2>2. request[l] \in RequestState
    BY <1>0 DEF AuthTypeOK, Request
  <2>3. NewChallenge(l, k) \in Challenge /\ NoChallenge \in Challenge
    BY <2>2 DEF NewChallenge, NoChallenge, Challenge, RequestState, Version, Time
  <2>4. challenge' \in [Login -> Challenge]
    BY <1>0, <1>5, <2>3 DEF AuthTypeOK, StoreChallenge, Insert
  <2> QED
    BY <1>0, <1>5, <2>1, <2>4 DEF AuthTypeOK, StoreChallenge, Insert, history, budget
<1>6. ASSUME NEW l \in Login, FailVerify(l) PROVE AuthTypeOK'
  BY <1>0, <1>6 DEF AuthTypeOK, FailVerify, Comparable, Usable, Compare, Challenge, budget
<1>7. ASSUME NEW l \in Login, NEW s \in Session, Verify(l, s) PROVE AuthTypeOK'
  BY <1>0, <1>7 DEF AuthTypeOK, Verify, IssueToken, Comparable, Usable, Compare, Challenge,
                   NoChallenge, Unexpired, Token, Version, Time, budget
<1>8. ASSUME NEW l \in Login, NEW r \in Resend, NEW k \in Code, ReplaceCode(r, l, k)
      PROVE  AuthTypeOK'
  <2>0. r \in Request /\ Draws(r, l, k)
    BY <1>8 DEF ReplaceCode, Request, Draws
  <2>1. request' \in [Request -> RequestState]
    BY <1>0, <2>0, DrawType
  <2>2. WithCode(challenge[l], k, request[r].now) \in Challenge
    <3>1. /\ challenge[l] \in Challenge
          /\ request[r].now + Lifetime \in Nat /\ request[r].now + ResendWait \in Nat
      BY <1>0 DEF AuthTypeOK, Time, Request, RequestState
    <3> QED
      BY <3>1 DEF WithCode, Challenge
  <2>3. challenge' \in [Login -> Challenge]
    BY <1>0, <1>8, <2>2 DEF AuthTypeOK, ReplaceCode
  <2> QED
    BY <1>0, <1>8, <2>1, <2>3 DEF AuthTypeOK, ReplaceCode, history, budget
<1>9. ASSUME NEW l \in Login, Charge(l) PROVE AuthTypeOK'
  <2>1. request' \in [Request -> RequestState]
    BY <1>0, <1>9, AdvanceType DEF Charge, Charged, Step, Request
  <2> QED
    BY <1>0, <1>9, <2>1 DEF AuthTypeOK, Charge, Count, Up, history, tables
<1>19. ASSUME NEW r \in Resend, ChargeResend(r) PROVE AuthTypeOK'
  <2>1. request' \in [Request -> RequestState]
    BY <1>0, <1>19, ResendType DEF ChargeResend, Request
  <2> QED
    BY <1>0, <1>19, <2>1 DEF AuthTypeOK, ChargeResend, Count, Up, history, tables
<1>10. ASSUME NEW q \in Request, SendCode(q) PROVE AuthTypeOK'
  BY <1>0, <1>10 DEF AuthTypeOK, AuthInv, CodesFit, SendCode, Advance, tables, budget, RequestState, Step
<1>11. ASSUME NEW q \in Request, FailToSend(q) PROVE AuthTypeOK'
  BY <1>0, <1>11 DEF AuthTypeOK, FailToSend, Advance, history, tables, budget, RequestState, Step
<1>12. ASSUME NEW q \in Request, Deliver(q) PROVE AuthTypeOK'
  <2>1. request' \in [Request -> RequestState]
    BY <1>0, <1>12, AdvanceType DEF Deliver, Step
  <2>2. [challenge[request[q].challenge] EXCEPT !.delivered = TRUE] \in Challenge
    <3>1. challenge[request[q].challenge] \in Challenge
      BY <1>0, <1>12 DEF AuthTypeOK, Deliver, Deliverable
    <3> QED
      BY <3>1 DEF Challenge
  <2>3. challenge' \in [Login -> Challenge]
    BY <1>0, <1>12, <2>2 DEF AuthTypeOK, Deliver, Deliverable
  <2> QED
    BY <1>0, <1>12, <2>1, <2>3 DEF AuthTypeOK, Deliver, history, budget
<1>13. ASSUME NEW q \in Request, RefuseDelivery(q) PROVE AuthTypeOK'
  BY <1>0, <1>13 DEF AuthTypeOK, RefuseDelivery, Advance, history, tables, budget, RequestState, Step
<1>14. ASSUME NEW r \in Resend, RefuseResend(r) PROVE AuthTypeOK'
  BY <1>0, <1>14 DEF AuthTypeOK, RefuseResend, Advance, history, tables, budget, RequestState, Step, Request
<1>15. ASSUME NEW s \in Session, BeginLogout(s) \/ RevokeSession(s) PROVE AuthTypeOK'
  BY <1>0, <1>15 DEF AuthTypeOK, BeginLogout, RevokeSession, history, tables, budget
<1>16. CASE ReplaceEditor
  BY <1>0, <1>16 DEF AuthTypeOK, ReplaceEditor, NoChallenge, Challenge, Version, history, budget
<1>17. CASE Restart
  BY <1>0, <1>17 DEF AuthTypeOK, Restart, RequestState, Step, history, tables, budget
<1>18. CASE Tick
  BY <1>0, <1>18 DEF AuthTypeOK, Tick, Time, history, tables
<1> QED
  BY <1>1, <1>2, <1>3, <1>4, <1>5, <1>6, <1>7, <1>8, <1>9, <1>10, <1>11, <1>12, <1>13, <1>14,
     <1>15, <1>16, <1>17, <1>18, <1>19 DEF Next, LoginStep, DeliveryStep, ChallengeStep

(* Rows of replaced credentials are deleted with them, and none is added.  *)
LEMMA RowsNext ==
    ASSUME AuthInv, [Next]_vars
    PROVE  RowsAreOfTheEditor'
<1>0. AuthTypeOK /\ RowsAreOfTheEditor
  BY DEF AuthInv
<1> DEFINE OpenFits == \A l \in open : challenge[l].version = version
           SessionsFit == \A s \in sessions : token[s].version = version
<1>1. ASSUME NEW s \in Session, NEW l, NEW k, IssueToken(s, l, k), version' = version PROVE SessionsFit'
  BY <1>0, <1>1 DEF AuthTypeOK, RowsAreOfTheEditor, IssueToken, Unexpired
<1>2. ASSUME NEW l \in Login, CheckPassword(l) PROVE RowsAreOfTheEditor'
  BY <1>0, <1>2 DEF RowsAreOfTheEditor, CheckPassword, Unexpired
<1>3. ASSUME NEW l \in Login, NEW s \in Session, SignIn(l, s) PROVE RowsAreOfTheEditor'
  BY <1>0, <1>1, <1>3 DEF RowsAreOfTheEditor, SignIn
<1>4. ASSUME NEW l \in Login, NEW k \in Code, StoreChallenge(l, k) PROVE RowsAreOfTheEditor'
  BY <1>0, <1>4 DEF RowsAreOfTheEditor, AuthTypeOK, StoreChallenge, Insert, NewChallenge
<1>5. ASSUME NEW l \in Login, FailVerify(l) PROVE RowsAreOfTheEditor'
  BY <1>0, <1>5 DEF RowsAreOfTheEditor, AuthTypeOK, FailVerify, Challenge
<1>6. ASSUME NEW l \in Login, NEW s \in Session, Verify(l, s) PROVE RowsAreOfTheEditor'
  <2>1. OpenFits'
    BY <1>0, <1>6 DEF RowsAreOfTheEditor, AuthTypeOK, Verify
  <2>2. SessionsFit'
    BY <1>1, <1>6 DEF Verify
  <2> QED
    BY <2>1, <2>2 DEF RowsAreOfTheEditor
<1>7. ASSUME NEW l \in Login, NEW r \in Resend, NEW k \in Code, ReplaceCode(r, l, k)
      PROVE  RowsAreOfTheEditor'
  BY <1>0, <1>7 DEF RowsAreOfTheEditor, AuthTypeOK, ReplaceCode, WithCode, Challenge
<1>8. ASSUME NEW q \in Request, Deliver(q) PROVE RowsAreOfTheEditor'
  BY <1>0, <1>8 DEF RowsAreOfTheEditor, AuthTypeOK, Deliver, Challenge
<1>9. ASSUME NEW s \in Session, RevokeSession(s) PROVE RowsAreOfTheEditor'
  BY <1>0, <1>9 DEF RowsAreOfTheEditor, RevokeSession
<1>10. CASE ReplaceEditor
  BY <1>10 DEF RowsAreOfTheEditor, ReplaceEditor
<1>11. CASE UNCHANGED <<tables, token>>
  BY <1>0, <1>11 DEF RowsAreOfTheEditor, tables
<1>12. ASSUME NEW l \in Login, Charge(l) \/ RefuseLogin(l) PROVE UNCHANGED <<tables, token>>
  BY <1>12 DEF Charge, RefuseLogin, tables
<1>13. ASSUME NEW q \in Request, SendCode(q) \/ FailToSend(q) \/ RefuseDelivery(q)
       PROVE  UNCHANGED <<tables, token>>
  BY <1>13 DEF SendCode, FailToSend, RefuseDelivery, tables
<1>14. ASSUME NEW r \in Resend, ChargeResend(r) \/ RefuseResend(r) PROVE UNCHANGED <<tables, token>>
  BY <1>14 DEF ChargeResend, RefuseResend, tables
<1>15. ASSUME NEW s \in Session, BeginLogout(s) PROVE UNCHANGED <<tables, token>>
  BY <1>15 DEF BeginLogout, tables
<1>16. ASSUME Restart \/ Tick \/ UNCHANGED vars PROVE UNCHANGED <<tables, token>>
  BY <1>16 DEF Restart, Tick, vars, tables
<1> QED
  BY <1>2, <1>3, <1>4, <1>5, <1>6, <1>7, <1>8, <1>9, <1>10, <1>11, <1>12, <1>13, <1>14, <1>15, <1>16
  DEF Next, LoginStep, DeliveryStep, ChallengeStep

-----------------------------------------------------------------------------

(* How a request may go on: only a login that stores its challenge ceases  *)
(* to be early other than by being over.                                   *)
LEMMA EarlySteps ==
    ASSUME AuthInv, [Next]_vars, NEW l \in Login, Early(l)'
    PROVE  Early(l)
<1>0. AuthTypeOK
  BY DEF AuthInv
<1>1. ASSUME NEW p \in Login, CheckPassword(p) PROVE Early(l)
  <2>1. l # p => request'[l] = request[l]
    BY <1>0, <1>1, CheckType DEF CheckPassword, Request
  <2> QED
    BY <1>1, <2>1 DEF CheckPassword, Early
<1>2. ASSUME NEW q \in Request, NEW step \in Step, Advance(q, step), Early(q) \/ step \in {"sent", "answered", "over"}
      PROVE  Early(l)
  BY <1>0, <1>2 DEF AuthTypeOK, Advance, Early, Request, RequestState
<1>3. ASSUME NEW p \in Login, Charge(p) \/ RefuseLogin(p) \/ (\E s \in Session : SignIn(p, s))
      PROVE  Early(l)
  BY <1>2, <1>3 DEF Charge, RefuseLogin, SignIn, Early, Charged, Step, Request
<1>4. ASSUME NEW q \in Request, DeliveryStep(q) PROVE Early(l)
  BY <1>2, <1>4 DEF DeliveryStep, SendCode, FailToSend, Deliver, RefuseDelivery, Step
<1>5. ASSUME NEW r \in Resend, RefuseResend(r) PROVE Early(l)
  BY <1>2, <1>5 DEF RefuseResend, Step, Request
<1>6. ASSUME NEW r \in Resend, ChargeResend(r) PROVE Early(l)
  <2>1. request'[l] = request[l]
    BY <1>0, <1>6, ResendType, AuthAssumption DEF ChargeResend, Request
  <2> QED
    BY <2>1 DEF Early
<1>7. ASSUME NEW p \in Login, NEW k \in Code, StoreChallenge(p, k) PROVE Early(l)
  <2>1. p \in Request /\ l \in Request /\ Draws(p, p, k)
    BY <1>7 DEF StoreChallenge, Insert, Request, Draws
  <2>2. request'[p].step = "sending" /\ (l # p => request'[l] = request[l])
    BY <1>0, <2>1, DrawType
  <2> QED
    BY <2>2 DEF Early
<1>8. ASSUME NEW c \in Login, NEW r \in Resend, NEW k \in Code, ReplaceCode(r, c, k) PROVE Early(l)
  <2>1. r \in Request /\ l \in Request \ {r}
    BY AuthAssumption DEF Request
  <2>2. Draws(r, c, k)
    BY <1>8 DEF ReplaceCode, Draws
  <2>3. request'[l] = request[l]
    BY <1>0, <2>1, <2>2, DrawType
  <2> QED
    BY <2>3 DEF Early
<1>9. CASE Restart
  BY <1>0, <1>9 DEF AuthTypeOK, Restart, Early, Request, RequestState, InFlight
<1>10. CASE UNCHANGED request
  BY <1>10 DEF Early
<1>11. ASSUME NEW c \in Login, FailVerify(c) \/ (\E s \in Session : Verify(c, s)) PROVE UNCHANGED request
  BY <1>11 DEF FailVerify, Verify
<1>12. ASSUME NEW s \in Session, BeginLogout(s) \/ RevokeSession(s) PROVE UNCHANGED request
  BY <1>12 DEF BeginLogout, RevokeSession
<1>13. ASSUME ReplaceEditor \/ Tick \/ UNCHANGED vars PROVE UNCHANGED request
  BY <1>13 DEF ReplaceEditor, Tick, vars
<1> QED
  BY <1>1, <1>3, <1>4, <1>5, <1>6, <1>7, <1>8, <1>9, <1>10, <1>11, <1>12, <1>13
  DEF Next, LoginStep, ChallengeStep

(* The attempts in the row of a challenge are the codes compared for it.   *)
LEMMA CountsNext ==
    ASSUME AuthInv, [Next]_vars
    PROVE  CountsMatch' /\ GuessesAreBounded'
<1> USE AuthAssumption
<1>0. AuthTypeOK /\ CountsMatch /\ GuessesAreBounded
  BY DEF AuthInv
<1> DEFINE Same == /\ compared' = compared
                   /\ \A l \in open' : l \in open /\ challenge'[l].attempts = challenge[l].attempts
<1>1. ASSUME Same PROVE CountsMatch' /\ GuessesAreBounded'
  BY <1>0, <1>1, EarlySteps DEF CountsMatch, GuessesAreBounded, AuthTypeOK
<1>2. ASSUME NEW l \in Login, NEW k \in Code, StoreChallenge(l, k)
      PROVE  CountsMatch' /\ GuessesAreBounded'
  <2>1. compared' = compared /\ compared[l] = 0
    BY <1>0, <1>2 DEF StoreChallenge, Insert, history, CountsMatch, Early
  <2>2. \A c \in open' : challenge'[c].attempts = IF c = l THEN 0 ELSE challenge[c].attempts
    BY <1>0, <1>2 DEF StoreChallenge, Insert, NewChallenge, AuthTypeOK
  <2>3. \A c \in open' \ {l} : c \in open
    BY <1>2 DEF StoreChallenge, Insert
  <2> QED
    BY <1>0, <2>1, <2>2, <2>3, EarlySteps DEF CountsMatch, GuessesAreBounded
<1>3. ASSUME NEW l \in Login, Comparable(l), Compare(l), request' = request,
             \A c \in open' : c \in open /\ challenge'[c].attempts =
                                 IF c = l THEN challenge[l].attempts + 1 ELSE challenge[c].attempts
      PROVE  CountsMatch' /\ GuessesAreBounded'
  <2>1. /\ compared[l] < MaxAttempts /\ ~Early(l)
        /\ \A c \in Login : compared'[c] = IF c = l THEN compared[l] + 1 ELSE compared[c]
    BY <1>0, <1>3 DEF Comparable, Known, Usable, Compare, Early, AuthTypeOK, CountsMatch, Challenge
  <2>2. \A c \in open' : challenge'[c].attempts = compared'[c]
    BY <1>0, <1>3, <2>1 DEF CountsMatch, AuthTypeOK
  <2>3. \A c \in Login : Early(c)' => compared'[c] = 0
    BY <1>0, <1>3, <2>1, EarlySteps DEF CountsMatch
  <2>4. GuessesAreBounded'
    BY <1>0, <2>1 DEF GuessesAreBounded, AuthTypeOK
  <2> QED
    BY <2>2, <2>3, <2>4 DEF CountsMatch
<1>4. ASSUME NEW l \in Login, FailVerify(l) PROVE CountsMatch' /\ GuessesAreBounded'
  <2>1. Comparable(l) /\ Compare(l) /\ request' = request
    BY <1>4 DEF FailVerify
  <2>2. \A c \in open' : c \in open /\ challenge'[c].attempts =
                            IF c = l THEN challenge[l].attempts + 1 ELSE challenge[c].attempts
    BY <1>0, <1>4 DEF FailVerify, AuthTypeOK, Challenge
  <2> QED
    BY <1>3, <2>1, <2>2
<1>5. ASSUME NEW l \in Login, NEW s \in Session, Verify(l, s) PROVE CountsMatch' /\ GuessesAreBounded'
  <2>1. Comparable(l) /\ Compare(l) /\ request' = request
    BY <1>5 DEF Verify
  <2>2. \A c \in open' : c \in open /\ challenge'[c].attempts =
                            IF c = l THEN challenge[l].attempts + 1 ELSE challenge[c].attempts
    BY <1>0, <1>5 DEF Verify, AuthTypeOK
  <2> QED
    BY <1>3, <2>1, <2>2
<1>6. ASSUME NEW l \in Login, NEW r \in Resend, NEW k \in Code, ReplaceCode(r, l, k) PROVE Same
  BY <1>0, <1>6 DEF ReplaceCode, WithCode, AuthTypeOK, Challenge, history
<1>7. ASSUME NEW q \in Request, Deliver(q) PROVE Same
  BY <1>0, <1>7 DEF Deliver, Deliverable, AuthTypeOK, Challenge, history
<1>8. CASE ReplaceEditor
  BY <1>1, <1>8 DEF ReplaceEditor, history
<1>9. ASSUME UNCHANGED <<open, challenge, compared>> PROVE Same
  BY <1>9
<1>10. ASSUME NEW l \in Login, CheckPassword(l) \/ Charge(l) \/ RefuseLogin(l) \/ (\E s \in Session : SignIn(l, s))
       PROVE  Same
  BY <1>9, <1>10 DEF CheckPassword, Charge, RefuseLogin, SignIn, tables, history
<1>11. ASSUME NEW q \in Request, SendCode(q) \/ FailToSend(q) \/ RefuseDelivery(q) PROVE Same
  BY <1>9, <1>11 DEF SendCode, FailToSend, RefuseDelivery, tables, history
<1>12. ASSUME NEW r \in Resend, ChargeResend(r) \/ RefuseResend(r) PROVE Same
  BY <1>9, <1>12 DEF ChargeResend, RefuseResend, tables, history
<1>13. ASSUME NEW s \in Session, BeginLogout(s) \/ RevokeSession(s) PROVE Same
  BY <1>9, <1>13 DEF BeginLogout, RevokeSession, tables, history
<1>14. ASSUME Restart \/ Tick \/ UNCHANGED vars PROVE Same
  BY <1>9, <1>14 DEF Restart, Tick, vars, tables, history
<1> HIDE DEF Same
<1> QED
  BY <1>1, <1>2, <1>4, <1>5, <1>6, <1>7, <1>8, <1>10, <1>11, <1>12, <1>13, <1>14
  DEF Next, LoginStep, DeliveryStep, ChallengeStep

(* While a challenge has a row, and before, no session has come from it.   *)
LEMMA SourcesNext ==
    ASSUME AuthInv, [Next]_vars
    PROVE  SourcesFit' /\ ChallengesOpenOnce'
<1> USE AuthAssumption
<1>0. AuthTypeOK /\ SourcesFit /\ ChallengesOpenOnce
  BY DEF AuthInv
<1> DEFINE Same == token' = token /\ open' \subseteq open
<1>1. ASSUME Same PROVE SourcesFit' /\ ChallengesOpenOnce'
  BY <1>0, <1>1, EarlySteps DEF SourcesFit, Unopened, ChallengesOpenOnce, AuthTypeOK
<1>2. ASSUME NEW s \in Session, NEW l, NEW k, IssueToken(s, l, k)
      PROVE  /\ \A t \in Session \ {s} : token'[t] = token[t]
             /\ token'[s].opened = l
  BY <1>0, <1>2 DEF IssueToken, AuthTypeOK
<1>3. ASSUME NEW l \in Login, NEW s \in Session, SignIn(l, s) PROVE SourcesFit' /\ ChallengesOpenOnce'
  <2>1. /\ \A t \in Session \ {s} : token'[t] = token[t]
        /\ token'[s].opened = None /\ open' = open
    BY <1>2, <1>3 DEF SignIn
  <2>2. SourcesFit'
    BY <1>0, <2>1, EarlySteps DEF SourcesFit, Unopened, AuthTypeOK
  <2> QED
    BY <1>0, <2>1, <2>2 DEF ChallengesOpenOnce
<1>4. ASSUME NEW l \in Login, NEW s \in Session, Verify(l, s) PROVE SourcesFit' /\ ChallengesOpenOnce'
  <2>1. /\ \A t \in Session \ {s} : token'[t] = token[t]
        /\ token'[s].opened = l /\ open' = open \ {l} /\ request' = request
    BY <1>2, <1>4 DEF Verify
  <2>2. Unopened(l) /\ ~Early(l)
    BY <1>0, <1>4 DEF SourcesFit, Verify, Comparable, Known, Usable, Early
  <2>3. SourcesFit'
    BY <1>0, <2>1, <2>2 DEF SourcesFit, Unopened, Early, AuthTypeOK
  <2>4. ChallengesOpenOnce'
    BY <1>0, <2>1, <2>2 DEF ChallengesOpenOnce, Unopened
  <2> QED
    BY <2>3, <2>4
<1>5. ASSUME NEW l \in Login, NEW k \in Code, StoreChallenge(l, k) PROVE SourcesFit' /\ ChallengesOpenOnce'
  <2>1. token' = token /\ open' \subseteq open \cup {l} /\ Early(l)
    BY <1>5 DEF StoreChallenge, Insert, Early
  <2> QED
    BY <1>0, <2>1, EarlySteps DEF SourcesFit, Unopened, ChallengesOpenOnce, AuthTypeOK
<1>6. ASSUME NEW l \in Login, FailVerify(l) \/ (\E r \in Resend, k \in Code : ReplaceCode(r, l, k)) PROVE Same
  BY <1>6 DEF FailVerify, ReplaceCode
<1>7. ASSUME NEW q \in Request, DeliveryStep(q) PROVE Same
  BY <1>7 DEF DeliveryStep, SendCode, FailToSend, Deliver, RefuseDelivery, tables
<1>8. ASSUME NEW l \in Login, CheckPassword(l) \/ Charge(l) \/ RefuseLogin(l) PROVE Same
  BY <1>8 DEF CheckPassword, Charge, RefuseLogin, tables
<1>9. ASSUME NEW r \in Resend, ChargeResend(r) \/ RefuseResend(r) PROVE Same
  BY <1>9 DEF ChargeResend, RefuseResend, tables
<1>10. ASSUME NEW s \in Session, BeginLogout(s) \/ RevokeSession(s) PROVE Same
  BY <1>10 DEF BeginLogout, RevokeSession, tables
<1>11. ASSUME ReplaceEditor \/ Restart \/ Tick \/ UNCHANGED vars PROVE Same
  BY <1>11 DEF ReplaceEditor, Restart, Tick, vars, tables
<1> HIDE DEF Same
<1> QED
  BY <1>1, <1>3, <1>4, <1>5, <1>6, <1>7, <1>8, <1>9, <1>10, <1>11
  DEF Next, LoginStep, ChallengeStep

-----------------------------------------------------------------------------

Carries(q) == request[q].step \in {"sending", "sent"} =>
                  request[q].challenge \in Login /\ request[q].code \in Code

HasMailed(q) == request[q].step = "sent" => <<request[q].challenge, request[q].code>> \in mailed

(* A mailed code is remembered for good.                                   *)
LEMMA MailedGrows ==
    ASSUME [Next]_vars
    PROVE  mailed \subseteq mailed'
<1>1. ASSUME NEW l \in Login, LoginStep(l) \/ ChallengeStep(l) PROVE mailed' = mailed
  BY <1>1 DEF LoginStep, ChallengeStep, CheckPassword, Charge, RefuseLogin, SignIn, StoreChallenge,
              Insert, FailVerify, Verify, ReplaceCode, history
<1>2. ASSUME NEW q \in Request, DeliveryStep(q) PROVE mailed \subseteq mailed'
  BY <1>2 DEF DeliveryStep, SendCode, FailToSend, Deliver, RefuseDelivery, history
<1>3. ASSUME NEW r \in Resend, ChargeResend(r) \/ RefuseResend(r) PROVE mailed' = mailed
  BY <1>3 DEF ChargeResend, RefuseResend, history
<1>4. ASSUME NEW s \in Session, BeginLogout(s) \/ RevokeSession(s) PROVE mailed' = mailed
  BY <1>4 DEF BeginLogout, RevokeSession, history
<1>5. ASSUME ReplaceEditor \/ Restart \/ Tick \/ UNCHANGED vars PROVE mailed' = mailed
  BY <1>5 DEF ReplaceEditor, Restart, Tick, vars, history
<1> QED
  BY <1>1, <1>2, <1>3, <1>4, <1>5 DEF Next

(* A request under way knows its challenge, and says "sent" only of a code *)
(* that it has mailed.                                                     *)
LEMMA RequestsNext ==
    ASSUME AuthInv, [Next]_vars, NEW q \in Request
    PROVE  Carries(q)' /\ HasMailed(q)'
<1>0. AuthTypeOK /\ Carries(q) /\ HasMailed(q) /\ mailed \subseteq mailed'
  BY MailedGrows DEF AuthInv, CodesFit, Carries, HasMailed
<1>1. CASE request'[q] = request[q]
  BY <1>0, <1>1 DEF Carries, HasMailed
<1>2. CASE request'[q].step \notin {"sending", "sent"}
  BY <1>2 DEF Carries, HasMailed
<1>3. ASSUME NEW p \in Request, NEW step \in Step \ {"sending", "sent"}, Advance(p, step)
      PROVE  Carries(q)' /\ HasMailed(q)'
  <2>1. p = q => request'[q].step = step
    BY <1>0, <1>3 DEF Advance, AuthTypeOK, RequestState
  <2>2. p # q => request'[q] = request[q]
    BY <1>0, <1>3 DEF Advance, AuthTypeOK
  <2> QED
    BY <1>1, <1>2, <2>1, <2>2
<1>4. ASSUME NEW l \in Login, CheckPassword(l) PROVE Carries(q)' /\ HasMailed(q)'
  BY <1>0, <1>1, <1>2, <1>4, CheckType DEF CheckPassword, Request
<1>5. ASSUME NEW r \in Resend, ChargeResend(r) PROVE Carries(q)' /\ HasMailed(q)'
  BY <1>0, <1>1, <1>2, <1>5, ResendType DEF ChargeResend, Request
<1>6. ASSUME NEW p \in Request, NEW l \in Login, NEW k \in Code,
             request'[p].step = "sending", request'[p].challenge = l, request'[p].code = k,
             \A r \in Request \ {p} : request'[r] = request[r]
      PROVE  Carries(q)' /\ HasMailed(q)'
  BY <1>1, <1>6 DEF Carries, HasMailed
<1>7. ASSUME NEW l \in Login, NEW k \in Code, StoreChallenge(l, k) PROVE Carries(q)' /\ HasMailed(q)'
  <2>0. l \in Request /\ Draws(l, l, k)
    BY <1>7 DEF StoreChallenge, Insert, Request, Draws
  <2>1. /\ request'[l].step = "sending" /\ request'[l].challenge = l /\ request'[l].code = k
        /\ \A r \in Request \ {l} : request'[r] = request[r]
    BY <1>0, <2>0, DrawType
  <2> QED
    BY <1>6, <2>0, <2>1
<1>8. ASSUME NEW l \in Login, NEW r \in Resend, NEW k \in Code, ReplaceCode(r, l, k)
      PROVE  Carries(q)' /\ HasMailed(q)'
  <2>0. r \in Request /\ Draws(r, l, k)
    BY <1>8 DEF ReplaceCode, Request, Draws
  <2>1. /\ request'[r].step = "sending" /\ request'[r].challenge = l /\ request'[r].code = k
        /\ \A p \in Request \ {r} : request'[p] = request[p]
    BY <1>0, <2>0, DrawType
  <2> QED
    BY <1>6, <2>0, <2>1
<1>9. ASSUME NEW p \in Request, SendCode(p) PROVE Carries(q)' /\ HasMailed(q)'
  <2>1. CASE p # q
    BY <1>0, <1>1, <1>9, <2>1 DEF SendCode, Advance, AuthTypeOK
  <2>2. CASE p = q
    <3>1. request'[q].challenge = request[q].challenge /\ request'[q].code = request[q].code
      BY <1>0, <1>9, <2>2 DEF SendCode, Advance, AuthTypeOK, RequestState
    <3>2. <<request[q].challenge, request[q].code>> \in mailed'
      BY <1>9, <2>2 DEF SendCode
    <3>3. request[q].step = "sending"
      BY <1>9, <2>2 DEF SendCode
    <3> QED
      BY <1>0, <3>1, <3>2, <3>3 DEF Carries, HasMailed
  <2> QED
    BY <2>1, <2>2
<1>10. ASSUME NEW p \in Request, FailToSend(p) \/ Deliver(p) \/ RefuseDelivery(p)
       PROVE  Carries(q)' /\ HasMailed(q)'
  BY <1>3, <1>10 DEF FailToSend, Deliver, RefuseDelivery, Step
<1>11. ASSUME NEW l \in Login, Charge(l) \/ RefuseLogin(l) \/ (\E s \in Session : SignIn(l, s))
       PROVE  Carries(q)' /\ HasMailed(q)'
  BY <1>3, <1>11 DEF Charge, Charged, RefuseLogin, SignIn, Step, Request
<1>12. ASSUME NEW r \in Resend, RefuseResend(r) PROVE Carries(q)' /\ HasMailed(q)'
  BY <1>3, <1>12 DEF RefuseResend, Step, Request
<1>13. CASE Restart
  <2>1. request'[q] = IF request[q].step \in InFlight THEN [request[q] EXCEPT !.step = "over"] ELSE request[q]
    BY <1>13 DEF Restart
  <2>2. request[q].step \in InFlight => request'[q].step = "over"
    BY <1>0, <2>1 DEF AuthTypeOK, RequestState
  <2> QED
    BY <1>1, <1>2, <2>1, <2>2
<1>14. ASSUME NEW c \in Login, FailVerify(c) \/ (\E s \in Session : Verify(c, s)) PROVE UNCHANGED request
  BY <1>14 DEF FailVerify, Verify
<1>15. ASSUME NEW s \in Session, BeginLogout(s) \/ RevokeSession(s) PROVE UNCHANGED request
  BY <1>15 DEF BeginLogout, RevokeSession
<1>16. ASSUME ReplaceEditor \/ Tick \/ UNCHANGED vars PROVE UNCHANGED request
  BY <1>16 DEF ReplaceEditor, Tick, vars
<1> QED
  BY <1>1, <1>4, <1>5, <1>7, <1>8, <1>9, <1>10, <1>11, <1>12, <1>13, <1>14, <1>15, <1>16
  DEF Next, LoginStep, DeliveryStep, ChallengeStep

(* An enabled challenge still has the code that was mailed.                *)
LEMMA CodesNext ==
    ASSUME AuthInv, [Next]_vars
    PROVE  CodesFit'
<1> DEFINE Enabled == \A l \in open : challenge[l].delivered => <<l, challenge[l].code>> \in mailed
<1>0. AuthTypeOK /\ CodesFit /\ Enabled /\ mailed \subseteq mailed'
  BY MailedGrows DEF AuthInv, CodesFit
<1>1. ASSUME \A l \in open' : \/ ~challenge'[l].delivered
                              \/ /\ l \in open /\ challenge'[l].code = challenge[l].code
                                 /\ challenge'[l].delivered = challenge[l].delivered
      PROVE  Enabled'
  BY <1>0, <1>1
<1>2. ASSUME open' \subseteq open, challenge' = challenge PROVE Enabled'
  BY <1>1, <1>2
<1>3. ASSUME NEW l \in Login, NEW k \in Code, StoreChallenge(l, k) PROVE Enabled'
  BY <1>0, <1>1, <1>3 DEF StoreChallenge, Insert, NewChallenge, AuthTypeOK
<1>4. ASSUME NEW l \in Login, FailVerify(l) PROVE Enabled'
  BY <1>0, <1>1, <1>4 DEF FailVerify, AuthTypeOK, Challenge
<1>5. ASSUME NEW l \in Login, NEW s \in Session, Verify(l, s) PROVE Enabled'
  BY <1>0, <1>1, <1>5 DEF Verify, AuthTypeOK
<1>6. ASSUME NEW l \in Login, NEW r \in Resend, NEW k \in Code, ReplaceCode(r, l, k) PROVE Enabled'
  BY <1>0, <1>1, <1>6 DEF ReplaceCode, WithCode, AuthTypeOK, Challenge
<1>7. ASSUME NEW q \in Request, Deliver(q) PROVE Enabled'
  <2>1. /\ <<request[q].challenge, request[q].code>> \in mailed
        /\ challenge[request[q].challenge].code = request[q].code
        /\ open' = open
    BY <1>0, <1>7 DEF CodesFit, Deliver, Deliverable
  <2>2. \A l \in open : /\ challenge'[l].code = challenge[l].code
                        /\ l # request[q].challenge => challenge'[l] = challenge[l]
    BY <1>0, <1>7 DEF Deliver, Deliverable, AuthTypeOK, Challenge
  <2> QED
    BY <1>0, <2>1, <2>2
<1>8. ASSUME ReplaceEditor PROVE Enabled'
  BY <1>1, <1>8 DEF ReplaceEditor
<1>9. ASSUME NEW l \in Login, CheckPassword(l) \/ Charge(l) \/ RefuseLogin(l) \/ (\E s \in Session : SignIn(l, s))
      PROVE  Enabled'
  BY <1>2, <1>9 DEF CheckPassword, Charge, RefuseLogin, SignIn, tables
<1>10. ASSUME NEW q \in Request, SendCode(q) \/ FailToSend(q) \/ RefuseDelivery(q) PROVE Enabled'
  BY <1>2, <1>10 DEF SendCode, FailToSend, RefuseDelivery, tables
<1>11. ASSUME NEW r \in Resend, ChargeResend(r) \/ RefuseResend(r) PROVE Enabled'
  BY <1>2, <1>11 DEF ChargeResend, RefuseResend, tables
<1>12. ASSUME NEW s \in Session, BeginLogout(s) \/ RevokeSession(s) PROVE Enabled'
  BY <1>2, <1>12 DEF BeginLogout, RevokeSession, tables
<1>13. ASSUME Restart \/ Tick \/ UNCHANGED vars PROVE Enabled'
  BY <1>2, <1>13 DEF Restart, Tick, vars, tables
<1>14. Enabled'
  <2> HIDE DEF Enabled
  <2> QED
    BY <1>0, <1>3, <1>4, <1>5, <1>6, <1>7, <1>8, <1>9, <1>10, <1>11, <1>12, <1>13
    DEF Next, LoginStep, DeliveryStep, ChallengeStep
<1> QED
  BY <1>14, RequestsNext DEF CodesFit, Carries, HasMailed

(* A session is opened by the password alone without a second factor, and  *)
(* by a mailed code otherwise.                                             *)
LEMMA TokensNext ==
    ASSUME AuthInv, [Next]_vars
    PROVE  TokensFit'
<1> USE AuthAssumption
<1>0. AuthTypeOK /\ TokensFit /\ CodesFit /\ mailed \subseteq mailed'
  BY MailedGrows DEF AuthInv
<1>1. CASE token' = token
  BY <1>0, <1>1 DEF TokensFit
<1>2. ASSUME NEW s \in Session, NEW l, NEW k, IssueToken(s, l, k),
             l # None => <<l, k>> \in mailed, factor = "email" => l # None
      PROVE  TokensFit'
  <2>1. /\ \A t \in Session \ {s} : token'[t] = token[t]
        /\ token'[s].opened = l /\ token'[s].code = k /\ token'[s].factor = factor
    BY <1>0, <1>2 DEF IssueToken, AuthTypeOK
  <2> QED
    BY <1>0, <1>2, <2>1 DEF TokensFit
<1>3. ASSUME NEW l \in Login, NEW s \in Session, SignIn(l, s) PROVE TokensFit'
  BY <1>2, <1>3 DEF SignIn
<1>4. ASSUME NEW l \in Login, NEW s \in Session, Verify(l, s) PROVE TokensFit'
  <2>1. <<l, challenge[l].code>> \in mailed /\ l # None
    BY <1>0, <1>4 DEF CodesFit, Verify, Comparable, Usable
  <2>2. IssueToken(s, l, challenge[l].code)
    BY <1>4 DEF Verify
  <2> QED
    BY <1>2, <2>1, <2>2
<1>5. ASSUME NEW l \in Login, \/ CheckPassword(l) \/ Charge(l) \/ RefuseLogin(l) \/ FailVerify(l)
                              \/ \E k \in Code : StoreChallenge(l, k)
                              \/ \E r \in Resend, k \in Code : ReplaceCode(r, l, k)
      PROVE  token' = token
  BY <1>5 DEF CheckPassword, Charge, RefuseLogin, FailVerify, StoreChallenge, Insert, ReplaceCode
<1>6. ASSUME NEW q \in Request, DeliveryStep(q) PROVE token' = token
  BY <1>6 DEF DeliveryStep, SendCode, FailToSend, Deliver, RefuseDelivery
<1>7. ASSUME NEW r \in Resend, ChargeResend(r) \/ RefuseResend(r) PROVE token' = token
  BY <1>7 DEF ChargeResend, RefuseResend
<1>8. ASSUME NEW s \in Session, BeginLogout(s) \/ RevokeSession(s) PROVE token' = token
  BY <1>8 DEF BeginLogout, RevokeSession
<1>9. ASSUME ReplaceEditor \/ Restart \/ Tick \/ UNCHANGED vars PROVE token' = token
  BY <1>9 DEF ReplaceEditor, Restart, Tick, vars
<1> QED
  BY <1>1, <1>3, <1>4, <1>5, <1>6, <1>7, <1>8, <1>9 DEF Next, LoginStep, ChallengeStep

-----------------------------------------------------------------------------

(* The invariant holds in every reachable state.                           *)
LEMMA AuthInvariant == Spec => []AuthInv
<1>1. AuthInv /\ [Next]_vars => AuthInv'
  BY AuthTypeNext, RowsNext, CountsNext, SourcesNext, CodesNext, TokensNext DEF AuthInv
<1> QED
  BY AuthInvInit, <1>1, PTL DEF Spec

(* The tables and requests of services/auth.py keep their types; in        *)
(* particular no challenge counts more attempts than are allowed.          *)
THEOREM AuthTypeCorrect == Spec => []AuthTypeOK
<1>1. AuthInv => AuthTypeOK
  BY DEF AuthInv
<1> QED
  BY AuthInvariant, <1>1, PTL

(* create_editor leaves nothing of the old credentials, and a login that   *)
(* had begun before it adds nothing after it.                              *)
THEOREM RowsBelongToTheEditor == Spec => []RowsAreOfTheEditor
<1>1. AuthInv => RowsAreOfTheEditor
  BY DEF AuthInv
<1> QED
  BY AuthInvariant, <1>1, PTL

(* verify compares at most MaxAttempts codes for a challenge, whatever     *)
(* resend does to it meanwhile.                                            *)
THEOREM GuessesStayBounded == Spec => []GuessesAreBounded
<1>1. AuthInv => GuessesAreBounded
  BY DEF AuthInv
<1> QED
  BY AuthInvariant, <1>1, PTL

(* verify opens at most one session for a challenge.                       *)
THEOREM ChallengesOpenOneSession == Spec => []ChallengesOpenOnce
<1>1. AuthInv => ChallengesOpenOnce
  BY DEF AuthInv
<1> QED
  BY AuthInvariant, <1>1, PTL

(* Under the email factor principal lets in only the sessions that a       *)
(* mailed code has opened.                                                 *)
THEOREM SecondFactorIsKept == Spec => []SecondFactorHolds
<1>1. AuthInv => SecondFactorHolds
  BY DEF AuthInv, TokensFit, SecondFactorHolds, Authorised
<1> QED
  BY AuthInvariant, <1>1, PTL

-----------------------------------------------------------------------------

(* The requests that have paid for a mail and may still send it.           *)
Paid == {q \in Request : request[q].step \in {"charged", "sending"}}

\* What a counter has granted in its window.
Granted(count, limit) == IF count < limit THEN count ELSE limit

Owed == mails + Cardinality(Paid)

MinuteBudget == SendLimit * clock + Granted(minute, SendLimit)
HourBudget == HourLimit * (clock \div Hour) + Granted(hour, HourLimit)

(* Every mail that left or may still leave was granted in a window.        *)
MailsArePaid == IsFiniteSet(Paid) /\ Owed <= MinuteBudget /\ Owed <= HourBudget

(* Whole hours grow by one exactly where a new hour begins.                *)
LEMMA NextHour ==
    ASSUME NEW t \in Nat, NEW h \in Nat \ {0}
    PROVE  /\ t \div h \in Nat
           /\ (t + 1) % h = 0 => (t + 1) \div h = t \div h + 1
           /\ (t + 1) % h # 0 => (t + 1) \div h = t \div h
<1> DEFINE a == t \div h   r == t % h   b == (t + 1) \div h   s == (t + 1) % h
<1>1. a \in Int /\ r \in 0 .. h - 1 /\ t = h * a + r
  OBVIOUS
<1>2. b \in Int /\ s \in 0 .. h - 1 /\ t + 1 = h * b + s
  OBVIOUS
<1> HIDE DEF a, r, b, s
<1>3. h * (b - a) = r + 1 - s
  BY <1>1, <1>2
<1>4. b - a >= 0
  <2> SUFFICES ASSUME b - a <= -1 PROVE FALSE
    BY <1>1, <1>2
  <2>1. h * (b - a) <= h * (-1)
    BY <1>1, <1>2
  <2> QED BY <1>1, <1>2, <1>3, <2>1
<1>5. b - a <= 1
  <2> SUFFICES ASSUME b - a >= 2 PROVE FALSE
    BY <1>1, <1>2
  <2>1. h * (b - a) >= h * 2
    BY <1>1, <1>2
  <2> QED BY <1>1, <1>2, <1>3, <2>1
<1>6. b = a \/ b = a + 1
  BY <1>1, <1>2, <1>4, <1>5
<1>7. b = a => s = r + 1
  BY <1>1, <1>2, <1>3
<1>8. b = a + 1 => s = r + 1 - h
  BY <1>1, <1>2, <1>3
<1>9. a >= 0
  <2> SUFFICES ASSUME a <= -1 PROVE FALSE
    BY <1>1
  <2>1. h * a <= h * (-1)
    BY <1>1
  <2> QED BY <1>1, <2>1
<1>10. /\ a \in Nat
       /\ s = 0 => b = a + 1
       /\ s # 0 => b = a
  BY <1>1, <1>2, <1>6, <1>7, <1>8, <1>9
<1> QED
  BY <1>10 DEF a, b, s

(* What the counters say is a number of mails.                             *)
LEMMA BudgetTypes ==
    ASSUME AuthTypeOK
    PROVE  /\ clock \in Nat /\ mails \in Nat /\ minute \in Nat /\ hour \in Nat
           /\ MinuteBudget \in Nat /\ HourBudget \in Nat
<1>1. clock \in Nat /\ mails \in Nat /\ minute \in Nat /\ hour \in Nat
  BY AuthAssumption DEF AuthTypeOK, Time
<1>2. clock \div Hour \in Nat
  BY <1>1, NextHour, AuthAssumption
<1>3. SendLimit * clock \in Nat /\ HourLimit * (clock \div Hour) \in Nat
  BY <1>1, <1>2, AuthAssumption
<1>4. Granted(minute, SendLimit) \in Nat /\ Granted(hour, HourLimit) \in Nat
  BY <1>1, AuthAssumption DEF Granted
<1> HIDE DEF Granted
<1> QED
  BY <1>1, <1>3, <1>4 DEF MinuteBudget, HourBudget

(* throttle grants a mail in both windows, or none and takes none back.    *)
LEMMA CountGrants ==
    ASSUME AuthTypeOK, AuthTypeOK', Count, clock' = clock
    PROVE  /\ MinuteBudget' >= MinuteBudget /\ HourBudget' >= HourBudget
           /\ MinuteBudget' \in Nat /\ HourBudget' \in Nat
           /\ Affordable => MinuteBudget' >= MinuteBudget + 1 /\ HourBudget' >= HourBudget + 1
<1>1. /\ clock \in Nat /\ minute \in Nat /\ hour \in Nat
      /\ SendLimit \in Nat /\ HourLimit \in Nat
      /\ clock \div Hour \in Nat
  BY BudgetTypes, NextHour, AuthAssumption
<1>2. /\ Granted(minute', SendLimit) >= Granted(minute, SendLimit)
      /\ Granted(hour', HourLimit) >= Granted(hour, HourLimit)
      /\ Affordable => /\ Granted(minute', SendLimit) >= Granted(minute, SendLimit) + 1
                       /\ Granted(hour', HourLimit) >= Granted(hour, HourLimit) + 1
  BY <1>1 DEF Count, Up, Affordable, Granted
<1>3. SendLimit * clock \in Nat /\ HourLimit * (clock \div Hour) \in Nat
  BY <1>1
<1>4. /\ Granted(minute, SendLimit) \in Nat /\ Granted(minute', SendLimit) \in Nat
      /\ Granted(hour, HourLimit) \in Nat /\ Granted(hour', HourLimit) \in Nat
  BY <1>1, BudgetTypes DEF Granted, Count, Up
<1> HIDE DEF Granted
<1> QED
  BY <1>2, <1>3, <1>4 DEF MinuteBudget, HourBudget

(* A new window grants anew what the counter of the old one had left.      *)
LEMMA TickGrants ==
    ASSUME AuthTypeOK, AuthTypeOK', Tick
    PROVE  /\ MinuteBudget' >= MinuteBudget /\ HourBudget' >= HourBudget
           /\ MinuteBudget' \in Nat /\ HourBudget' \in Nat
<1>1. /\ clock \in Nat /\ minute \in Nat /\ hour \in Nat
      /\ SendLimit \in Nat /\ HourLimit \in Nat
      /\ Hour \in Nat \ {0} /\ clock' = clock + 1 /\ minute' = 0
      /\ hour' = IF clock' % Hour = 0 THEN 0 ELSE hour
  BY BudgetTypes, AuthAssumption DEF Tick
<1>2. MinuteBudget' >= MinuteBudget /\ MinuteBudget' \in Nat
  <2>1. SendLimit * (clock + 1) = SendLimit * clock + SendLimit /\ SendLimit * clock \in Nat
    BY <1>1
  <2>2. Granted(minute, SendLimit) \in 0 .. SendLimit /\ Granted(0, SendLimit) = 0
    BY <1>1 DEF Granted
  <2> HIDE DEF Granted
  <2> QED BY <1>1, <2>1, <2>2 DEF MinuteBudget
<1>3. HourBudget' >= HourBudget /\ HourBudget' \in Nat
  <2> DEFINE h == clock \div Hour
  <2>1. /\ h \in Nat
        /\ (clock + 1) % Hour = 0 => (clock + 1) \div Hour = h + 1
        /\ (clock + 1) % Hour # 0 => (clock + 1) \div Hour = h
    BY <1>1, NextHour
  <2>2. HourBudget = HourLimit * h + Granted(hour, HourLimit)
    BY DEF HourBudget
  <2>3. HourBudget' = HourLimit * ((clock + 1) \div Hour) + Granted(hour', HourLimit)
    BY <1>1 DEF HourBudget
  <2>4. Granted(hour, HourLimit) \in 0 .. HourLimit /\ Granted(0, HourLimit) = 0
    BY <1>1 DEF Granted
  <2> HIDE DEF h, Granted
  <2>5. HourLimit * (h + 1) = HourLimit * h + HourLimit /\ HourLimit * h \in Nat
    BY <1>1, <2>1
  <2>6. CASE (clock + 1) % Hour = 0
    <3>1. hour' = 0 /\ (clock + 1) \div Hour = h + 1
      BY <1>1, <2>1, <2>6
    <3> QED BY <1>1, <2>2, <2>3, <2>4, <2>5, <3>1
  <2>7. CASE (clock + 1) % Hour # 0
    <3>1. hour' = hour /\ (clock + 1) \div Hour = h
      BY <1>1, <2>1, <2>7
    <3> QED BY <2>2, <2>3, <2>4, <2>5, <3>1
  <2> QED BY <2>6, <2>7
<1> QED BY <1>2, <1>3

(* Who has not paid, or is refused, sends nothing.                         *)
LEMMA OwedStays ==
    ASSUME IsFiniteSet(Paid), AuthTypeOK, mails' = mails, Paid' \subseteq Paid
    PROVE  IsFiniteSet(Paid)' /\ Owed' <= Owed /\ Owed \in Nat /\ Owed' \in Nat
<1>1. /\ IsFiniteSet(Paid') /\ Cardinality(Paid') <= Cardinality(Paid)
      /\ Cardinality(Paid) \in Nat /\ Cardinality(Paid') \in Nat
  BY FS_Subset, FS_CardinalityType
<1>2. mails \in Nat
  BY DEF AuthTypeOK
<1> QED
  BY <1>1, <1>2 DEF Owed

(* Steps without throttle and without a mail.                              *)
LEMMA PaidUnchanged ==
    ASSUME MailsArePaid, AuthTypeOK, UNCHANGED <<budget, clock, mails>>, Paid' \subseteq Paid
    PROVE  MailsArePaid'
<1>1. MinuteBudget' = MinuteBudget /\ HourBudget' = HourBudget
  BY DEF MinuteBudget, HourBudget, budget, Granted
<1> QED
  BY <1>1, OwedStays, BudgetTypes DEF MailsArePaid

(* A login or a resend asks throttle.                                      *)
LEMMA ChargePays ==
    ASSUME MailsArePaid, AuthTypeOK, AuthTypeOK', Count, UNCHANGED <<clock, mails>>,
           NEW q \in Request, request'[q].step = Charged,
           \A p \in Request \ {q} : request'[p] = request[p]
    PROVE  MailsArePaid'
<1>1. CASE Affordable
  <2>1. Paid' \subseteq Paid \cup {q}
    BY DEF Paid
  <2>2. /\ IsFiniteSet(Paid \cup {q}) /\ Cardinality(Paid \cup {q}) <= Cardinality(Paid) + 1
        /\ Cardinality(Paid) \in Nat /\ Cardinality(Paid \cup {q}) \in Nat
    <3>1. IsFiniteSet(Paid)
      BY DEF MailsArePaid
    <3>2. /\ IsFiniteSet(Paid \cup {q})
          /\ Cardinality(Paid \cup {q}) = IF q \in Paid THEN Cardinality(Paid)
                                          ELSE Cardinality(Paid) + 1
      BY <3>1, FS_AddElement
    <3>3. Cardinality(Paid) \in Nat
      BY <3>1, FS_CardinalityType
    <3> QED BY <3>2, <3>3
  <2>3. IsFiniteSet(Paid') /\ Cardinality(Paid') <= Cardinality(Paid \cup {q})
    BY <2>1, <2>2, FS_Subset
  <2>4. Cardinality(Paid') \in Nat
    BY <2>3, FS_CardinalityType
  <2>5. Owed' <= Owed + 1 /\ Owed \in Nat /\ Owed' \in Nat
    BY <2>2, <2>3, <2>4, BudgetTypes DEF Owed
  <2> QED
    BY <1>1, <2>3, <2>5, CountGrants, BudgetTypes DEF MailsArePaid
<1>2. CASE ~Affordable
  <2>1. Paid' \subseteq Paid
    BY <1>2 DEF Paid, Charged
  <2> QED
    BY <2>1, OwedStays, CountGrants, BudgetTypes DEF MailsArePaid
<1> QED BY <1>1, <1>2

(* A mail that leaves is one that was paid for.                            *)
LEMMA SendSpends ==
    ASSUME MailsArePaid, AuthTypeOK, AuthTypeOK', NEW q \in Request, SendCode(q)
    PROVE  MailsArePaid'
<1>1. q \in Paid /\ Paid' \subseteq Paid \ {q}
  BY DEF SendCode, Advance, Paid, AuthTypeOK, RequestState
<1>2. /\ IsFiniteSet(Paid \ {q}) /\ Cardinality(Paid \ {q}) = Cardinality(Paid) - 1
      /\ Cardinality(Paid) \in Nat
  BY <1>1, FS_RemoveElement, FS_CardinalityType DEF MailsArePaid
<1>3. /\ IsFiniteSet(Paid') /\ Cardinality(Paid') <= Cardinality(Paid) - 1
      /\ Cardinality(Paid') \in Nat
  BY <1>1, <1>2, FS_Subset, FS_CardinalityType
<1>4. Owed' <= Owed /\ Owed \in Nat /\ Owed' \in Nat
  BY <1>2, <1>3, BudgetTypes DEF SendCode, Owed
<1>5. MinuteBudget' = MinuteBudget /\ HourBudget' = HourBudget
  BY DEF SendCode, MinuteBudget, HourBudget, budget, Granted
<1> QED
  BY <1>3, <1>4, <1>5, BudgetTypes DEF MailsArePaid

(* A step that grants no mail and sends none.                              *)
Frugal == UNCHANGED <<budget, clock, mails>> /\ Paid' \subseteq Paid

(* Every operation keeps it.                                               *)
LEMMA MailsNext ==
    ASSUME MailsArePaid, AuthTypeOK, AuthTypeOK', [Next]_vars
    PROVE  MailsArePaid'
<1>1. ASSUME NEW q \in Request, NEW step \in {"sent", "answered", "over"}, Advance(q, step)
      PROVE  Paid' \subseteq Paid
  BY <1>1 DEF Advance, Paid, AuthTypeOK, RequestState
<1>2. ASSUME NEW l \in Login, LoginStep(l) PROVE MailsArePaid'
  <2>1. CASE CheckPassword(l)
    <3>1. Frugal
      BY <2>1 DEF CheckPassword, Frugal, Paid, history, AuthTypeOK, RequestState, Request
    <3> QED BY <3>1, PaidUnchanged DEF Frugal
  <2>2. CASE Charge(l)
    <3>1. /\ Count /\ UNCHANGED <<clock, mails>> /\ request'[l].step = Charged
          /\ \A p \in Request \ {l} : request'[p] = request[p]
      BY <2>2 DEF Charge, Advance, history, AuthTypeOK, RequestState, Request
    <3> QED BY <3>1, ChargePays DEF Request
  <2>3. CASE RefuseLogin(l)
    <3>1. Frugal
      BY <1>1, <2>3 DEF RefuseLogin, Frugal, history, Request
    <3> QED BY <3>1, PaidUnchanged DEF Frugal
  <2>4. ASSUME NEW s \in Session, SignIn(l, s) PROVE MailsArePaid'
    <3>1. Frugal
      BY <1>1, <2>4 DEF SignIn, Frugal, history, Request
    <3> QED BY <3>1, PaidUnchanged DEF Frugal
  <2>5. ASSUME NEW k \in Code, StoreChallenge(l, k) PROVE MailsArePaid'
    <3>1. l \in Request /\ l \in Paid /\ UNCHANGED <<budget, clock, mails>> /\ Draws(l, l, k)
      BY <2>5 DEF StoreChallenge, Insert, Draws, Paid, history, Request
    <3>2. \A p \in Request \ {l} : request'[p] = request[p]
      BY <3>1, DrawType
    <3> QED BY <3>1, <3>2, PaidUnchanged DEF Paid
  <2> QED BY <1>2, <2>1, <2>2, <2>3, <2>4, <2>5 DEF LoginStep
<1>3. ASSUME NEW l \in Login, ChallengeStep(l) PROVE MailsArePaid'
  <2>1. CASE FailVerify(l) \/ \E s \in Session : Verify(l, s)
    <3>1. Frugal
      BY <2>1 DEF FailVerify, Verify, Frugal, Paid
    <3> QED BY <3>1, PaidUnchanged DEF Frugal
  <2>2. ASSUME NEW r \in Resend, NEW k \in Code, ReplaceCode(r, l, k) PROVE MailsArePaid'
    <3>1. r \in Request /\ r \in Paid /\ UNCHANGED <<budget, clock, mails>> /\ Draws(r, l, k)
      BY <2>2 DEF ReplaceCode, Resendable, Draws, Paid, history, Request
    <3>2. \A p \in Request \ {r} : request'[p] = request[p]
      BY <3>1, DrawType
    <3> QED BY <3>1, <3>2, PaidUnchanged DEF Paid
  <2> QED BY <1>3, <2>1, <2>2 DEF ChallengeStep
<1>4. ASSUME NEW q \in Request, DeliveryStep(q) PROVE MailsArePaid'
  <2>1. CASE SendCode(q)
    BY <2>1, SendSpends
  <2>2. CASE FailToSend(q) \/ Deliver(q) \/ RefuseDelivery(q)
    <3>1. Frugal
      BY <1>1, <2>2 DEF FailToSend, Deliver, RefuseDelivery, Frugal, history
    <3> QED BY <3>1, PaidUnchanged DEF Frugal
  <2> QED BY <1>4, <2>1, <2>2 DEF DeliveryStep
<1>5. ASSUME NEW r \in Resend, ChargeResend(r) PROVE MailsArePaid'
  <2>1. r \in Request /\ Count /\ UNCHANGED <<clock, mails>>
    BY <1>5 DEF ChargeResend, history, Request
  <2>2. /\ request' = [request EXCEPT ![r] = [request[r] EXCEPT !.step = Charged, !.now = clock]]
        /\ request[r] \in RequestState /\ request \in [Request -> RequestState]
    BY <1>5, <2>1 DEF ChargeResend, AuthTypeOK
  <2>3. request'[r].step = Charged /\ \A p \in Request \ {r} : request'[p] = request[p]
    BY <2>1, <2>2 DEF RequestState
  <2> QED BY <2>1, <2>3, ChargePays
<1>6. ASSUME NEW r \in Resend, RefuseResend(r) PROVE MailsArePaid'
  <2>1. Frugal
    BY <1>1, <1>6 DEF RefuseResend, Frugal, history, Request
  <2> QED BY <2>1, PaidUnchanged DEF Frugal
<1>7. ASSUME NEW s \in Session, BeginLogout(s) \/ RevokeSession(s) PROVE MailsArePaid'
  <2>1. Frugal
    BY <1>7 DEF BeginLogout, RevokeSession, Frugal, Paid, history
  <2> QED BY <2>1, PaidUnchanged DEF Frugal
<1>8. CASE ReplaceEditor \/ UNCHANGED vars
  <2>1. Frugal
    BY <1>8 DEF ReplaceEditor, vars, Frugal, Paid, history
  <2> QED BY <2>1, PaidUnchanged DEF Frugal
<1>9. CASE Restart
  <2>1. \A q \in Request : request'[q].step \notin {"charged", "sending"}
    BY <1>9 DEF Restart, InFlight, AuthTypeOK, RequestState
  <2>2. Frugal
    BY <1>9, <2>1 DEF Restart, Frugal, Paid, history
  <2> QED BY <2>2, PaidUnchanged DEF Frugal
<1>10. CASE Tick
  <2>1. mails' = mails /\ Paid' \subseteq Paid
    BY <1>10 DEF Tick, Paid, history
  <2> QED BY <1>10, <2>1, OwedStays, TickGrants, BudgetTypes DEF MailsArePaid
<1> QED
  BY <1>2, <1>3, <1>4, <1>5, <1>6, <1>7, <1>8, <1>9, <1>10 DEF Next

(* At the start nobody has paid and nothing was sent.                      *)
LEMMA MailsInit == AuthInit => MailsArePaid
<1> SUFFICES ASSUME AuthInit PROVE MailsArePaid
  OBVIOUS
<1>1. Paid = {}
  BY DEF AuthInit, Paid, NewRequest
<1>2. IsFiniteSet(Paid) /\ Cardinality(Paid) = 0
  BY <1>1, FS_EmptySet
<1>3. Owed = 0
  BY <1>2 DEF Owed, AuthInit
<1>4. AuthTypeOK
  BY AuthInvInit DEF AuthInv
<1> QED
  BY <1>2, <1>3, <1>4, BudgetTypes DEF MailsArePaid

(* What was granted is at most a limit for every window so far.            *)
LEMMA PaidIsBudgeted == AuthTypeOK /\ MailsArePaid => MailsAreBudgeted
<1> SUFFICES ASSUME AuthTypeOK, MailsArePaid PROVE MailsAreBudgeted
  OBVIOUS
<1>1. mails <= Owed /\ Owed \in Nat /\ mails \in Nat
  BY BudgetTypes, FS_CardinalityType DEF MailsArePaid, Owed
<1>2. /\ clock \in Nat /\ clock \div Hour \in Nat /\ SendLimit \in Nat /\ HourLimit \in Nat
      /\ minute \in Nat /\ hour \in Nat
  BY BudgetTypes, NextHour, AuthAssumption
<1>3. Granted(minute, SendLimit) <= SendLimit /\ Granted(hour, HourLimit) <= HourLimit
  BY <1>2 DEF Granted
<1>4. /\ Granted(minute, SendLimit) \in Nat /\ Granted(hour, HourLimit) \in Nat
  BY <1>2 DEF Granted
<1> HIDE DEF Granted
<1>5. MinuteBudget <= SendLimit * (clock + 1)
  BY <1>2, <1>3, <1>4 DEF MinuteBudget
<1>6. HourBudget <= HourLimit * (clock \div Hour + 1)
  <2> DEFINE h == clock \div Hour
  <2>1. h \in Nat /\ HourBudget = HourLimit * h + Granted(hour, HourLimit)
    BY <1>2 DEF HourBudget
  <2> HIDE DEF h
  <2>2. HourLimit * (h + 1) = HourLimit * h + HourLimit /\ HourLimit * h \in Nat
    BY <1>2, <2>1
  <2>3. HourBudget <= HourLimit * (h + 1)
    BY <1>2, <1>3, <1>4, <2>1, <2>2
  <2> QED BY <2>3 DEF h
<1>7. SendLimit * (clock + 1) \in Nat /\ HourLimit * (clock \div Hour + 1) \in Nat
  BY <1>2
<1> QED
  BY <1>1, <1>5, <1>6, <1>7, BudgetTypes DEF MailsArePaid, MailsAreBudgeted

(* No more mails leave than the windows so far allow, however requests,    *)
(* restarts and windows interleave (throttle, deliver).                    *)
THEOREM MailsStayBudgeted == Spec => []MailsAreBudgeted
<1>1. AuthInv => AuthTypeOK
  BY DEF AuthInv
<1>2. MailsArePaid /\ AuthTypeOK /\ AuthTypeOK' /\ [Next]_vars => MailsArePaid'
  BY MailsNext
<1> QED
  BY AuthInvariant, MailsInit, PaidIsBudgeted, <1>1, <1>2, PTL DEF Spec
=============================================================================
