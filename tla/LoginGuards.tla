----------------------------- MODULE LoginGuards -----------------------------
(***************************************************************************)
(* What stands before a login (internal/service/login.go, captcha.go,      *)
(* middleware/ratelimit.go): the rate of one IP address, the captcha, and  *)
(* the counter of wrong passwords that locks an account.  Each is a Lua    *)
(* script or a command on Redis, and between two of them any other login,  *)
(* an unlocking or an expiry may happen.                                   *)
(*                                                                         *)
(* Names that no account has get a counter as well.  What follows a right  *)
(* password, the recheck of the account and the session, is in             *)
(* PermissionRefresh; here an account is disabled or not whenever it is    *)
(* read, and what follows succeeds or fails.                               *)
(***************************************************************************)
EXTENDS Naturals, FiniteSets

CONSTANTS
    Logins,      \* requests that may be under way together
    Names,       \* user names
    Accounts,    \* those that are accounts
    Captchas,    \* uuids
    MaxRetry,    \* maxPasswordRetry
    RateCount,   \* requests of an address in a window
    MaxRequests  \* bound: requests

ASSUME LoginGuardsAssumption ==
    /\ IsFiniteSet(Logins) /\ MaxRetry \in Nat \ {0}
    /\ RateCount \in Nat /\ MaxRequests \in Nat

VARIABLES
    login,     \* the requests' local state
    window,    \* rate_limit:login of the address: its count, and whether it has a TTL
    captcha,   \* uuid -> "unborn", "stored" or "gone"
    failures,  \* name -> pwd_err_cnt, 0 when there is no key
    requests,  \* requests so far
    passed,    \* requests the limit let through in this window (history)
    answered,  \* uuid -> requests whose answer was compared with the captcha's (history)
    guesses    \* name -> wrong passwords tried since the counter was last reset (history)

guardKeys == <<window, captcha, failures>>
history == <<passed, answered, guesses>>
loginVars == <<login, guardKeys, requests, history>>

\* A request: the name, whether the password and the captcha's answer are
\* right, and the captcha.
Login == [pc: {"limit", "captcha", "count", "compare", "record", "recheck", "clear", "create"},
          name: Names, right: BOOLEAN, uuid: Captchas, answer: BOOLEAN]
NoLogin == [pc |-> "idle"]

GuardsTypeOK ==
    /\ login \in [Logins -> Login \cup {NoLogin}]
    /\ window \in [count: 0..RateCount + 1, ttl: BOOLEAN]
    /\ captcha \in [Captchas -> {"unborn", "stored", "gone"}]
    /\ failures \in [Names -> Nat] /\ guesses \in [Names -> Nat]
    /\ requests \in 0..MaxRequests /\ passed \in Nat
    /\ answered \in [Captchas -> Nat]

LoginGoes(t, pc) == login' = [login EXCEPT ![t].pc = pc]
EndLogin(t) == login' = [login EXCEPT ![t] = NoLogin]
LoginAt(t, pc) == login[t].pc = pc

GuardsInit ==
    /\ login = [t \in Logins |-> NoLogin]
    /\ window = [count |-> 0, ttl |-> FALSE]
    /\ captcha = [c \in Captchas |-> "unborn"]
    /\ failures = [n \in Names |-> 0]
    /\ requests = 0 /\ passed = 0
    /\ answered = [c \in Captchas |-> 0]
    /\ guesses = [n \in Names |-> 0]

-----------------------------------------------------------------------------
GenerateCaptcha(c) ==
    /\ captcha[c] = "unborn"
    /\ captcha' = [captcha EXCEPT ![c] = "stored"]
    /\ UNCHANGED <<login, window, failures, requests, history>>

Start(t, name, right, c, answer) ==
    /\ LoginAt(t, "idle") /\ requests < MaxRequests
    /\ requests' = requests + 1
    /\ login' = [login EXCEPT ![t] = [pc |-> "limit", name |-> name, right |-> right,
                                      uuid |-> c, answer |-> answer]]
    /\ UNCHANGED <<guardKeys, history>>

\* limitScript.
Counted ==
    IF window.count > RateCount THEN window
    ELSE [count |-> window.count + 1, ttl |-> window.ttl \/ window.count = 0]

\* The middleware: a failing call of Redis, the script run or not, lets the request
\* through.  Whether a captcha is asked for is a parameter of the system.
RateLimit(t) ==
    /\ LoginAt(t, "limit")
    /\ \/ /\ window' = Counted
          /\ IF Counted.count > RateCount
             THEN EndLogin(t) /\ UNCHANGED passed
             ELSE /\ \E pc \in {"captcha", "count"} : LoginGoes(t, pc)
                  /\ passed' = passed + 1
       \/ /\ \E pc \in {"captcha", "count"} : LoginGoes(t, pc)
          /\ window' \in {window, Counted}
          /\ UNCHANGED passed
    /\ UNCHANGED <<captcha, failures, requests, answered, guesses>>

\* consumeCaptchaScript.
Consume(t) == [captcha EXCEPT ![login[t].uuid] = IF @ = "stored" THEN "gone" ELSE @]

VerifyCaptcha(t) ==
    LET c == login[t].uuid IN
    /\ LoginAt(t, "captcha")
    /\ captcha' = Consume(t)
    /\ answered' = [answered EXCEPT ![c] = IF captcha[c] = "stored" THEN @ + 1 ELSE @]
    /\ IF captcha[c] = "stored" /\ login[t].answer THEN LoginGoes(t, "count") ELSE EndLogin(t)
    /\ UNCHANGED <<window, failures, requests, passed, guesses>>

\* The account and its counter are read, and a locked one is turned away.
ReadCount(t) ==
    /\ LoginAt(t, "count")
    /\ IF failures[login[t].name] >= MaxRetry THEN EndLogin(t) ELSE LoginGoes(t, "compare")
    /\ UNCHANGED <<guardKeys, requests, history>>

\* bcrypt, against a dummy when there is no account; a disabled account is
\* refused whatever the password.
Compare(t) ==
    LET name == login[t].name
        wrong == name \notin Accounts \/ ~login[t].right
    IN
    /\ LoginAt(t, "compare")
    /\ \/ /\ name \in Accounts
          /\ EndLogin(t) /\ UNCHANGED guesses
       \/ /\ LoginGoes(t, IF wrong THEN "record" ELSE "recheck")
          /\ guesses' = IF wrong THEN [guesses EXCEPT ![name] = @ + 1] ELSE guesses
    /\ UNCHANGED <<guardKeys, requests, passed, answered>>

\* passwordFailureScript.
Increased(t) == failures[login[t].name] + 1

RecordFailure(t) ==
    /\ LoginAt(t, "record")
    /\ failures' = [failures EXCEPT ![login[t].name] = Increased(t)]
    /\ EndLogin(t)
    /\ UNCHANGED <<window, captcha, requests, history>>

\* The account is read again and must not have changed.
Recheck(t) ==
    /\ LoginAt(t, "recheck")
    /\ LoginGoes(t, "clear") \/ EndLogin(t)
    /\ UNCHANGED <<guardKeys, requests, history>>

\* When a counter goes, the guesses that are still to be recorded stay.
Unrecorded(name) == Cardinality({t \in Logins : LoginAt(t, "record") /\ login[t].name = name})
Reset(name) ==
    /\ failures' = [failures EXCEPT ![name] = 0]
    /\ guesses' = [guesses EXCEPT ![name] = Unrecorded(name)]

\* Mutant: a right password clears the counter whatever it is.
ClearAnyway(t) ==
    /\ LoginAt(t, "clear")
    /\ Reset(login[t].name)
    /\ IF failures[login[t].name] >= MaxRetry THEN EndLogin(t) ELSE LoginGoes(t, "create")
    /\ UNCHANGED <<window, captcha, requests, passed, answered>>

\* passwordSuccessScript.
ClearFailures(t) ==
    /\ LoginAt(t, "clear")
    /\ IF failures[login[t].name] >= MaxRetry
       THEN EndLogin(t) /\ UNCHANGED <<failures, guesses>>
       ELSE LoginGoes(t, "create") /\ Reset(login[t].name)
    /\ UNCHANGED <<window, captcha, requests, passed, answered>>

\* The session is created, or not.
Create(t) == LoginAt(t, "create") /\ EndLogin(t) /\ UNCHANGED <<guardKeys, requests, history>>

\* The request ends early: loginPreCheck turns it away, a call of Redis or the
\* database fails, or the process stops.  A failing script may have been run; a
\* guess that fails to be recorded is not counted among those the lock bounds.
Fail(t) ==
    LET name == login[t].name IN
    /\ ~LoginAt(t, "idle") /\ ~LoginAt(t, "limit")
    /\ EndLogin(t)
    /\ \/ captcha' = captcha \/ (LoginAt(t, "captcha") /\ captcha' = Consume(t))
    /\ \/ /\ guesses' = IF LoginAt(t, "record") THEN [guesses EXCEPT ![name] = @ - 1] ELSE guesses
          /\ UNCHANGED failures
       \/ /\ LoginAt(t, "record")
          /\ failures' = [failures EXCEPT ![name] = Increased(t)]
          /\ UNCHANGED guesses
       \/ LoginAt(t, "clear") /\ failures[name] < MaxRetry /\ Reset(name)
    /\ UNCHANGED <<window, requests, passed, answered>>

-----------------------------------------------------------------------------
\* UnlockAccount, the ten minutes of the lock, or the cache monitor.
Unlock(name) ==
    /\ failures[name] > 0
    /\ Reset(name)
    /\ UNCHANGED <<login, window, captcha, requests, passed, answered>>

ExpireCaptcha(c) ==
    /\ captcha[c] = "stored"
    /\ captcha' = [captcha EXCEPT ![c] = "gone"]
    /\ UNCHANGED <<login, window, failures, requests, history>>

EndWindow ==
    /\ window.ttl
    /\ window' = [count |-> 0, ttl |-> FALSE]
    /\ passed' = 0
    /\ UNCHANGED <<login, captcha, failures, requests, answered, guesses>>

Request(t) ==
    \/ \E name \in Names, right, answer \in BOOLEAN, c \in Captchas : Start(t, name, right, c, answer)
    \/ RateLimit(t) \/ VerifyCaptcha(t) \/ ReadCount(t) \/ Compare(t) \/ RecordFailure(t)
    \/ Recheck(t) \/ ClearFailures(t) \/ Create(t) \/ Fail(t)

GuardsNext ==
    \/ \E t \in Logins : Request(t)
    \/ \E c \in Captchas : GenerateCaptcha(c) \/ ExpireCaptcha(c)
    \/ \E name \in Names : Unlock(name)
    \/ EndWindow

GuardsSpec == GuardsInit /\ [][GuardsNext]_loginVars

-----------------------------------------------------------------------------
(* Properties.                                                             *)

\* Whatever logins interleave, those under way can add no more than one guess
\* each to what is left before the lock, and none is lost by two failures at
\* once (login.go:36-44): from one reset of the counter to the next.
GuessesBounded == \A n \in Names : guesses[n] < MaxRetry + Cardinality(Logins)

\* A lock ends with its time or by an unlocking: no login, with the right
\* password or not, takes it away (login.go:46-55).
LockHolds ==
    \A n \in Names : failures[n] >= MaxRetry /\ failures'[n] < MaxRetry => UNCHANGED login

\* A captcha answers one request, right or wrong, of all that use it at once.
CaptchaOnce == \A c \in Captchas : answered[c] <= 1

\* In a window the limit lets no more than RateCount through, those aside
\* that a failing Redis did.
WindowBounded == passed <= RateCount

\* An address is never shut out for good: whatever counts against it expires.
WindowEnds == window.count > 0 => window.ttl

\* What the guards let through stays within what they are for, however many
\* requests meet them at once (captcha.go:19, ratelimit.go:21-25, login.go:84-117).
GuardsHold == GuessesBounded /\ CaptchaOnce /\ WindowBounded /\ WindowEnds

===============================================================================
