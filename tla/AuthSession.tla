----------------------------- MODULE AuthSession -----------------------------
(***************************************************************************)
(* Signing in (services/auth.py): a password opens a challenge, its code   *)
(* goes out by mail, and the code opens a session; meanwhile codes are     *)
(* resent, the editor is replaced from the command line, sessions are left *)
(* and the backend restarts, perhaps with another second factor.           *)
(*                                                                         *)
(* A transaction that begins with lock_editor is a step: its UPDATE takes  *)
(* the write lock of SQLite before anything is read. The mail is sent      *)
(* between two transactions. A tick of the clock is a minute.               *)
(***************************************************************************)
EXTENDS Integers

CONSTANTS
  Login,        \* requests to /auth/login; its challenge has the same name
  Resend,       \* requests to /auth/resend
  Session,      \* session ids
  Code,         \* six digits, drawn at random and so perhaps drawn again
  None,
  MaxAttempts,  \* codes that are compared for one challenge
  Lifetime,     \* of a code
  ResendWait,   \* from one code to the next
  TTL,          \* of a session
  SendLimit,    \* mails in a minute
  HourLimit,    \* mails in an hour
  Hour,         \* minutes of an hour
  MaxVersion,   \* bound of the model: how often the editor is replaced
  MaxTime       \* bound of the model

Factor == {"email", "off"}
Request == Login \cup Resend

ASSUME AuthAssumption == /\ MaxAttempts \in Nat /\ Lifetime \in Nat /\ ResendWait \in Nat
                         /\ TTL \in Nat /\ SendLimit \in Nat /\ HourLimit \in Nat
                         /\ Hour \in Nat \ {0} /\ MaxVersion \in Nat /\ MaxTime \in Nat
                         /\ Login \cap Resend = {}
                         /\ None \notin Login \cup Code

VARIABLES
  factor,     \* settings.auth_second_factor
  version,    \* editors.credential_version; 0: there is no editor
  open,       \* the challenges that have a row
  challenge,  \* challenge[l]: that row
  sessions,   \* the ids in editor_sessions
  token,      \* token[s]: the claims of the JWT with jti s
  leaving,    \* logouts between the check of the token and the deletion
  minute,     \* the count of send:account for this minute
  hour,       \* the count of send:hour for this hour
  request,    \* request[q]: how far login or resend q has come
  mailed,     \* history: the codes that were mailed
  compared,   \* history: compared[l] codes were compared for challenge l
  mails,      \* history: how many mails were sent
  clock

tables == <<version, open, challenge, sessions>>
budget == <<minute, hour>>
history == <<mailed, compared, mails>>
vars == <<factor, tables, token, leaving, budget, request, history, clock>>

-----------------------------------------------------------------------------

Version == 0..MaxVersion
Time == 0..MaxTime

Challenge == [version : Version, code : Code \cup {None}, expires : Nat, resend : Nat,
              attempts : 0..MaxAttempts, delivered : BOOLEAN]
NoChallenge == [version |-> 0, code |-> None, expires |-> 0, resend |-> 0,
                attempts |-> 0, delivered |-> FALSE]

\* opened: the challenge whose code opened the session, None after a password only
Token == [version : Version, factor : Factor, expires : Nat,
          opened : Login \cup {None}, code : Code \cup {None}]
NoToken == [version |-> 0, factor |-> "off", expires |-> 0, opened |-> None, code |-> None]

Step == {"new", "checked", "charged", "sending", "sent", "answered", "over"}
InFlight == {"checked", "charged", "sending", "sent"}

RequestState == [step : Step, challenge : Login \cup {None}, version : Version,
                 now : Time, code : Code \cup {None}]
NewRequest == [step |-> "new", challenge |-> None, version |-> 0, now |-> 0, code |-> None]

AuthTypeOK ==
    /\ factor \in Factor /\ version \in Version /\ clock \in Time
    /\ open \subseteq Login /\ challenge \in [Login -> Challenge]
    /\ sessions \subseteq Session /\ token \in [Session -> Token]
    /\ leaving \subseteq Session
    /\ minute \in 0..SendLimit + 1 /\ hour \in 0..HourLimit + 1
    /\ request \in [Request -> RequestState]
    /\ mailed \subseteq Login \X Code
    /\ compared \in [Login -> Nat] /\ mails \in Nat

AuthInit ==
    /\ factor \in Factor /\ version = 0 /\ clock = 0
    /\ open = {} /\ challenge = [l \in Login |-> NoChallenge]
    /\ sessions = {} /\ token = [s \in Session |-> NoToken]
    /\ leaving = {}
    /\ minute = 0 /\ hour = 0
    /\ request = [q \in Request |-> NewRequest]
    /\ mailed = {}
    /\ compared = [l \in Login |-> 0] /\ mails = 0

-----------------------------------------------------------------------------
(* Sessions.                                                               *)

Unexpired == {s \in sessions : token[s].expires > clock}

\* principal: the token is accepted.
Authorised(s) == /\ s \in sessions
                 /\ token[s].version = version
                 /\ token[s].expires > clock
                 /\ factor = "email" => token[s].factor = "email"

\* prune_sessions and issue_token; a new id is a new UUID.
IssueToken(s, l, k) ==
    /\ token[s] = NoToken
    /\ sessions' = Unexpired \cup {s}
    /\ token' = [token EXCEPT ![s] = [version |-> version, factor |-> factor,
                                      expires |-> clock + TTL, opened |-> l, code |-> k]]

\* A logout checks the token in one transaction and deletes the row in another.
BeginLogout(s) ==
    /\ Authorised(s) /\ leaving' = leaving \cup {s}
    /\ UNCHANGED <<factor, tables, token, budget, request, history, clock>>

RevokeSession(s) ==
    /\ s \in leaving /\ leaving' = leaving \ {s} /\ sessions' = sessions \ {s}
    /\ UNCHANGED <<factor, version, open, challenge, token, budget, request, history, clock>>

-----------------------------------------------------------------------------
(* Login.                                                                  *)

Advance(q, step) == request' = [request EXCEPT ![q].step = step]

\* A counter that is committed also when it refuses; beyond its limit the model
\* stops counting, which makes no difference.
Up(n, limit) == IF n <= limit THEN n + 1 ELSE n

\* Mutant: the count after the increment may pass the limit.
Affordable_OneMore == minute <= SendLimit /\ hour <= HourLimit

Affordable == minute < SendLimit /\ hour < HourLimit

Count == minute' = Up(minute, SendLimit) /\ hour' = Up(hour, HourLimit)

Charged == IF Affordable THEN "charged" ELSE "over"

\* throttle("send"), by a login whose password was right.
Charge(l) ==
    /\ request[l].step = "checked"
    /\ Count /\ Advance(l, Charged)
    /\ UNCHANGED <<factor, tables, token, leaving, history, clock>>

\* By a resend, which reads the clock here and not in the transaction that follows.
ChargeResend(r) ==
    /\ request[r].step = "new"
    /\ Count
    /\ request' = [request EXCEPT ![r].step = Charged, ![r].now = clock]
    /\ UNCHANGED <<factor, tables, token, leaving, history, clock>>

\* The password is right and no code is asked for.
SignIn(l, s) ==
    /\ request[l].step = "new" /\ version > 0 /\ factor = "off"
    /\ IssueToken(s, None, None)
    /\ Advance(l, "over")
    /\ UNCHANGED <<factor, version, open, challenge, leaving, budget, history, clock>>

\* The password is right; the first transaction ends here.
CheckPassword(l) ==
    /\ request[l].step = "new" /\ version > 0 /\ factor = "email"
    /\ request' = [request EXCEPT ![l].step = "checked", ![l].version = version, ![l].now = clock]
    /\ sessions' = Unexpired
    /\ UNCHANGED <<factor, version, open, challenge, token, leaving, budget, history, clock>>

\* The row of a challenge with code k, as inserted.
NewChallenge(l, k) == [version |-> request[l].version, code |-> k,
                       expires |-> request[l].now + Lifetime,
                       resend |-> request[l].now + ResendWait,
                       attempts |-> 0, delivered |-> FALSE]

Insert(l, k) ==
    LET left == {c \in open : challenge[c].expires > request[l].now} IN
    /\ open' = left \cup {l}
    /\ challenge' = [c \in Login |-> IF c = l THEN NewChallenge(l, k)
                                     ELSE IF c \in left THEN challenge[c] ELSE NoChallenge]
    /\ request' = [request EXCEPT ![l].step = "sending", ![l].challenge = l, ![l].code = k]
    /\ UNCHANGED <<factor, version, sessions, token, leaving, budget, history, clock>>

\* Mutant: the version is not checked again.
StoreChallenge_AnyVersion(l, k) == request[l].step = "charged" /\ Insert(l, k)

\* The second transaction, if the editor is still the one whose password was right.
StoreChallenge(l, k) ==
    /\ request[l].step = "charged" /\ request[l].version = version
    /\ Insert(l, k)

\* A wrong password, no editor, an editor replaced in between.
RefuseLogin(l) ==
    /\ \/ request[l].step = "new"
       \/ request[l].step = "charged" /\ request[l].version # version
    /\ Advance(l, "over")
    /\ UNCHANGED <<factor, tables, token, leaving, budget, history, clock>>

-----------------------------------------------------------------------------
(* Delivery, by a login or a resend.                                       *)

\* The mail leaves; without the second factor there is no sender.
SendCode(q) ==
    /\ request[q].step = "sending" /\ factor = "email"
    /\ mailed' = mailed \cup {<<request[q].challenge, request[q].code>>}
    /\ mails' = mails + 1
    /\ Advance(q, "sent")
    /\ UNCHANGED <<factor, tables, token, leaving, budget, compared, clock>>

\* It does not (AuthEmailError): the challenge stays as it is.
FailToSend(q) ==
    /\ request[q].step = "sending"
    /\ Advance(q, "over")
    /\ UNCHANGED <<factor, tables, token, leaving, budget, history, clock>>

\* Mutant: a code that was replaced while it was mailed is not noticed.
Deliverable_AnyCode(q) ==
    LET c == request[q].challenge IN
    /\ c \in open
    /\ challenge[c].version = version
    /\ challenge[c].expires > clock

\* The challenge still is the one whose code q has mailed.
Deliverable(q) ==
    LET c == request[q].challenge IN
    /\ c \in open
    /\ challenge[c].code = request[q].code
    /\ challenge[c].version = version
    /\ challenge[c].expires > clock

Deliver(q) ==
    /\ request[q].step = "sent" /\ Deliverable(q)
    /\ challenge' = [challenge EXCEPT ![request[q].challenge].delivered = TRUE]
    /\ Advance(q, "answered")
    /\ UNCHANGED <<factor, version, open, sessions, token, leaving, budget, history, clock>>

RefuseDelivery(q) ==
    /\ request[q].step = "sent" /\ ~Deliverable(q)
    /\ Advance(q, "over")
    /\ UNCHANGED <<factor, tables, token, leaving, budget, history, clock>>

-----------------------------------------------------------------------------
(* Resend and verify. Only the answer to its login tells a client the id   *)
(* of a challenge.                                                         *)

Known(l) == request[l].step = "answered"

\* The row exists, and neither time nor failed attempts nor a new editor have spent it.
Usable(l, now) == /\ l \in open
                  /\ challenge[l].expires > now
                  /\ challenge[l].attempts < MaxAttempts
                  /\ challenge[l].version = version

\* The new code replaces the old one at once, and is not enabled before it is mailed.
WithCode(c, k, now) == [c EXCEPT !.code = k, !.expires = now + Lifetime,
                                 !.resend = now + ResendWait, !.delivered = FALSE]

Resendable(r, l) == /\ request[r].step = "charged" /\ Known(l)
                    /\ Usable(l, request[r].now)
                    /\ challenge[l].resend <= request[r].now

\* Mutant: a new code gives new attempts.
ReplaceCode_ResetsAttempts(r, l, k) ==
    /\ Resendable(r, l)
    /\ challenge' = [challenge EXCEPT ![l] = [WithCode(@, k, request[r].now) EXCEPT !.attempts = 0]]
    /\ request' = [request EXCEPT ![r].step = "sending", ![r].challenge = l, ![r].code = k]
    /\ UNCHANGED <<factor, version, open, sessions, token, leaving, budget, history, clock>>

ReplaceCode(r, l, k) ==
    /\ Resendable(r, l)
    /\ challenge' = [challenge EXCEPT ![l] = WithCode(@, k, request[r].now)]
    /\ request' = [request EXCEPT ![r].step = "sending", ![r].challenge = l, ![r].code = k]
    /\ UNCHANGED <<factor, version, open, sessions, token, leaving, budget, history, clock>>

\* Resent too early, a spent challenge, or an id that no challenge has.
RefuseResend(r) ==
    /\ request[r].step = "charged"
    /\ Advance(r, "over")
    /\ UNCHANGED <<factor, tables, token, leaving, budget, history, clock>>

Comparable(l) == Known(l) /\ Usable(l, clock) /\ challenge[l].delivered

Compare(l) == compared' = [compared EXCEPT ![l] = @ + 1]

\* Mutant: the challenge is kept.
Verify_KeepsChallenge(l, s) ==
    /\ Comparable(l) /\ Compare(l)
    /\ challenge' = [challenge EXCEPT ![l].attempts = @ + 1]
    /\ IssueToken(s, l, challenge[l].code)
    /\ UNCHANGED <<factor, version, open, leaving, budget, request, mailed, mails, clock>>

\* The right code: the challenge is spent and a session is open.
Verify(l, s) ==
    /\ Comparable(l) /\ Compare(l)
    /\ open' = open \ {l} /\ challenge' = [challenge EXCEPT ![l] = NoChallenge]
    /\ IssueToken(s, l, challenge[l].code)
    /\ UNCHANGED <<factor, version, leaving, budget, request, mailed, mails, clock>>

\* Another code: the attempt is committed although the request is refused.
FailVerify(l) ==
    /\ Comparable(l) /\ Compare(l)
    /\ challenge' = [challenge EXCEPT ![l].attempts = @ + 1]
    /\ UNCHANGED <<factor, version, open, sessions, token, leaving, budget, request, mailed, mails, clock>>

-----------------------------------------------------------------------------

\* create_editor: new credentials, no sessions, no challenges.
ReplaceEditor ==
    /\ version < MaxVersion /\ version' = version + 1
    /\ sessions' = {}
    /\ open' = {} /\ challenge' = [l \in Login |-> NoChallenge]
    /\ UNCHANGED <<factor, token, leaving, budget, request, history, clock>>

\* A stop and a start, perhaps with other settings: the tables stay, requests do not.
Restart ==
    /\ factor' \in Factor
    /\ leaving' = {}
    /\ request' = [q \in Request |-> IF request[q].step \in InFlight
                                      THEN [request[q] EXCEPT !.step = "over"] ELSE request[q]]
    /\ UNCHANGED <<tables, token, budget, history, clock>>

\* A minute passes; a new minute and a new hour have counters of their own.
Tick == /\ clock < MaxTime /\ clock' = clock + 1
        /\ minute' = 0 /\ hour' = IF clock' % Hour = 0 THEN 0 ELSE hour
        /\ UNCHANGED <<factor, tables, token, leaving, request, history>>

LoginStep(l) == \/ CheckPassword(l) \/ Charge(l) \/ RefuseLogin(l)
                \/ \E s \in Session : SignIn(l, s)
                \/ \E k \in Code : StoreChallenge(l, k)

DeliveryStep(q) == SendCode(q) \/ FailToSend(q) \/ Deliver(q) \/ RefuseDelivery(q)

ChallengeStep(l) == \/ FailVerify(l)
                    \/ \E s \in Session : Verify(l, s)
                    \/ \E r \in Resend, k \in Code : ReplaceCode(r, l, k)

Next == \/ \E l \in Login : LoginStep(l) \/ ChallengeStep(l)
        \/ \E q \in Request : DeliveryStep(q)
        \/ \E r \in Resend : ChargeResend(r) \/ RefuseResend(r)
        \/ \E s \in Session : BeginLogout(s) \/ RevokeSession(s)
        \/ ReplaceEditor \/ Restart \/ Tick

Spec == AuthInit /\ [][Next]_vars

-----------------------------------------------------------------------------
(* Properties.                                                             *)

\* While the email factor is required, whoever is let in holds a session that a
\* mailed code has opened: not one from the time without it, and not one opened by
\* a code that replaced the mailed one while the mail was under way (deliver,
\* verify, principal).
SecondFactorHolds ==
    factor = "email" =>
      \A s \in Session : Authorised(s) => <<token[s].opened, token[s].code>> \in mailed

\* A challenge opens one session, whatever is resent and verified meanwhile (verify).
ChallengesOpenOnce ==
    \A s, t \in Session : token[s].opened = token[t].opened /\ token[s].opened # None => s = t

\* No more than MaxAttempts codes are compared for a challenge, however many codes
\* it had (verify, resend).
GuessesAreBounded == \A l \in Login : compared[l] <= MaxAttempts

\* No more mails leave than the fixed windows so far allow, although a mail may
\* leave in a later window than the one that paid for it (throttle, deliver).
MailsAreBudgeted == /\ mails <= SendLimit * (clock + 1)
                    /\ mails <= HourLimit * (clock \div Hour + 1)

\* Every session and every challenge in the tables belongs to the present
\* credentials, also those whose login had begun before they were replaced
\* (create_editor, login).
RowsAreOfTheEditor == /\ \A s \in sessions : token[s].version = version
                      /\ \A l \in open : challenge[l].version = version
=============================================================================
