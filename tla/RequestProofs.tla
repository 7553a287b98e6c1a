---------------------------- MODULE RequestProofs -----------------------------
(***************************************************************************)
(* What protects a request and what is recorded of it, for any number of   *)
(* requests at once: the limits of guessing and of repeating hold          *)
(* (GuardsHold, RequestsSound), a name that is locked stays locked         *)
(* (LockHolds), and the record of an operation tells what happened.        *)
(* And what a request for a list is answered: all of it, page by page,     *)
(* while others write (OnlineListed, PagesComplete, ExportWhole).          *)
(***************************************************************************)
EXTENDS LoginGuards, WriteRequests, OnlineUsers, ListPages, DataInduction, SequenceTheorems

-----------------------------------------------------------------------------
(***************************************************************************)
(* Logins (LoginGuards).  The guesses of a name are the failures recorded  *)
(* and those in hand; of failures and requests past the count there are    *)
(* never more than the lock allows and one for each request under way.     *)
(***************************************************************************)
Recording(name) == {t \in Logins : login[t].pc = "record" /\ login[t].name = name}
Guessing(name) == {t \in Logins : login[t].pc \in {"compare", "record"} /\ login[t].name = name}

GuessTally ==
    \A n \in Names :
        /\ guesses[n] = failures[n] + Cardinality(Recording(n))
        /\ failures[n] + Cardinality(Guessing(n)) < MaxRetry + Cardinality(Logins)

CaptchaTally == \A c \in Captchas : answered[c] <= 1 /\ (captcha[c] # "gone" => answered[c] = 0)

WindowTally == passed <= window.count /\ passed <= RateCount /\ WindowEnds

GuardsInv == GuardsTypeOK /\ GuessTally /\ CaptchaTally /\ WindowTally

-----------------------------------------------------------------------------
LEMMA GuessSets ==
    ASSUME NEW n
    PROVE  /\ IsFiniteSet(Recording(n)) /\ IsFiniteSet(Guessing(n)) /\ IsFiniteSet(Logins)
           /\ Cardinality(Recording(n)) \in Nat /\ Cardinality(Guessing(n)) \in Nat
           /\ Cardinality(Logins) \in Nat
           /\ Cardinality(Recording(n)) <= Cardinality(Guessing(n))
           /\ Cardinality(Guessing(n)) <= Cardinality(Logins)
           /\ Unrecorded(n) = Cardinality(Recording(n))
<1>1. Recording(n) \subseteq Guessing(n) /\ Guessing(n) \subseteq Logins
  BY DEF Recording, Guessing
<1>2. IsFiniteSet(Guessing(n)) /\ Cardinality(Guessing(n)) <= Cardinality(Logins)
  BY <1>1, LoginGuardsAssumption, FS_Subset
<1>3. IsFiniteSet(Recording(n)) /\ Cardinality(Recording(n)) <= Cardinality(Guessing(n))
  BY <1>1, <1>2, FS_Subset
<1>4. Unrecorded(n) = Cardinality(Recording(n))
  BY DEF Unrecorded, LoginAt, Recording
<1> QED
  BY <1>2, <1>3, <1>4, LoginGuardsAssumption, FS_CardinalityType

\* What a request does to the sets of its name; those of others stay.
LEMMA GuessMoves ==
    ASSUME NEW t \in Logins, NEW n, \A other \in Logins : other # t => login'[other] = login[other]
    PROVE  /\ Cardinality(Recording(n) \ {t}) \in Nat /\ Cardinality(Guessing(n) \ {t}) \in Nat
           /\ Cardinality(Recording(n)) = Cardinality(Recording(n) \ {t}) + (IF t \in Recording(n) THEN 1 ELSE 0)
           /\ Cardinality(Recording(n)') = Cardinality(Recording(n) \ {t}) + (IF t \in Recording(n)' THEN 1 ELSE 0)
           /\ Cardinality(Guessing(n)) = Cardinality(Guessing(n) \ {t}) + (IF t \in Guessing(n) THEN 1 ELSE 0)
           /\ Cardinality(Guessing(n)') = Cardinality(Guessing(n) \ {t}) + (IF t \in Guessing(n)' THEN 1 ELSE 0)
<1>1. Recording(n) \ {t} = Recording(n)' \ {t} /\ Guessing(n) \ {t} = Guessing(n)' \ {t}
  BY DEF Recording, Guessing
<1>2. IsFiniteSet(Recording(n)) /\ IsFiniteSet(Guessing(n))
  BY GuessSets
<1>3. /\ Cardinality(Recording(n) \ {t}) \in Nat
      /\ Cardinality(Recording(n)) = Cardinality(Recording(n) \ {t}) + (IF t \in Recording(n) THEN 1 ELSE 0)
      /\ Cardinality(Recording(n)') = Cardinality(Recording(n) \ {t}) + (IF t \in Recording(n)' THEN 1 ELSE 0)
  BY <1>1, <1>2, OneMoves
<1>4. /\ Cardinality(Guessing(n) \ {t}) \in Nat
      /\ Cardinality(Guessing(n)) = Cardinality(Guessing(n) \ {t}) + (IF t \in Guessing(n) THEN 1 ELSE 0)
      /\ Cardinality(Guessing(n)') = Cardinality(Guessing(n) \ {t}) + (IF t \in Guessing(n)' THEN 1 ELSE 0)
  BY <1>1, <1>2, OneMoves
<1> QED
  BY <1>3, <1>4

\* A step that takes a request neither to nor from a guess.
LEMMA NoGuess ==
    ASSUME GuardsInv, UNCHANGED <<failures, guesses>>, NEW t \in Logins,
           \A other \in Logins : other # t => login'[other] = login[other],
           login[t].pc \notin {"compare", "record"}, login'[t].pc \notin {"compare", "record"}
    PROVE  GuessTally'
<1>1. ASSUME NEW n \in Names
      PROVE  Recording(n)' = Recording(n) /\ Guessing(n)' = Guessing(n)
  BY DEF Recording, Guessing
<1> QED
  BY <1>1 DEF GuardsInv, GuessTally

LEMMA GuardsStart ==
    ASSUME GuardsInit
    PROVE  GuardsInv
<1>1. GuardsTypeOK
  BY LoginGuardsAssumption DEF GuardsInit, GuardsTypeOK
<1>2. \A n \in Names : Recording(n) = {} /\ Guessing(n) = {}
  BY DEF GuardsInit, NoLogin, Recording, Guessing
<1>3. Cardinality({}) = 0
  BY FS_EmptySet
<1>4. GuessTally
  BY <1>2, <1>3, GuessSets, LoginGuardsAssumption DEF GuardsInit, GuessTally
<1>5. CaptchaTally /\ WindowTally
  BY LoginGuardsAssumption DEF GuardsInit, CaptchaTally, WindowTally, WindowEnds
<1> QED
  BY <1>1, <1>4, <1>5 DEF GuardsInv

-----------------------------------------------------------------------------
LEMMA CountedWindow ==
    ASSUME GuardsInv
    PROVE  /\ Counted \in [count: 0..RateCount + 1, ttl: BOOLEAN] /\ Counted.count \in Nat
           /\ Counted.count >= window.count
           /\ Counted.count = window.count => window.count > RateCount
           /\ Counted.count > 0 => Counted.ttl
<1>1. /\ window.count \in 0..RateCount + 1 /\ window.ttl \in BOOLEAN
      /\ window \in [count: 0..RateCount + 1, ttl: BOOLEAN] /\ RateCount \in Nat
      /\ window.count > 0 => window.ttl
  BY LoginGuardsAssumption DEF GuardsInv, GuardsTypeOK, WindowTally, WindowEnds
<1>2. CASE window.count > RateCount
  BY <1>1, <1>2 DEF Counted
<1>3. CASE ~ (window.count > RateCount)
  <2>1. Counted = [count |-> window.count + 1, ttl |-> window.ttl \/ window.count = 0]
    BY <1>3 DEF Counted
  <2>2. Counted.ttl = (window.ttl \/ window.count = 0)
    BY <2>1, Zenon
  <2>3. window.ttl \/ window.count = 0
    BY <1>1
  <2>4. Counted.ttl = TRUE
    BY <2>2, <2>3
  <2>5. Counted.count = window.count + 1 /\ window.count + 1 \in 0..RateCount + 1
    BY <1>1, <1>3, <2>1
  <2>6. Counted = [count |-> window.count + 1, ttl |-> TRUE]
    BY <2>1, <2>2, <2>4
  <2>7. Counted \in [count: 0..RateCount + 1, ttl: BOOLEAN]
    BY <2>5, <2>6
  <2> QED
    BY <1>1, <2>4, <2>5, <2>7
<1> QED
  BY <1>2, <1>3

\* Where a request goes.
LEMMA LoginMoves ==
    ASSUME GuardsTypeOK, NEW t \in Logins, NEW pc, LoginGoes(t, pc), login[t].pc # "idle",
           pc \in {"limit", "captcha", "count", "compare", "record", "recheck", "clear", "create"}
    PROVE  /\ login' \in [Logins -> Login \cup {NoLogin}] /\ login'[t].pc = pc
           /\ login'[t].name = login[t].name /\ login[t].name \in Names /\ login[t].uuid \in Captchas
           /\ \A other \in Logins : other # t => login'[other] = login[other]
<1> DEFINE moved == [login[t] EXCEPT !.pc = pc]
<1>1. login[t] \in Login
  BY DEF GuardsTypeOK, NoLogin
<1>2. moved \in Login /\ moved.pc = pc /\ moved.name = login[t].name
  BY <1>1 DEF Login
<1>3. login' = [login EXCEPT ![t] = moved]
  BY DEF LoginGoes
<1> HIDE DEF moved
<1> QED
  BY <1>1, <1>2, <1>3 DEF GuardsTypeOK, Login

LEMMA LoginEnds ==
    ASSUME GuardsTypeOK, NEW t \in Logins, EndLogin(t)
    PROVE  /\ login' \in [Logins -> Login \cup {NoLogin}] /\ login'[t] = NoLogin /\ login'[t].pc = "idle"
           /\ \A other \in Logins : other # t => login'[other] = login[other]
<1>1. NoLogin.pc = "idle"
  BY DEF NoLogin
<1> QED
  BY <1>1 DEF GuardsTypeOK, EndLogin

LEMMA LoginUnderWay ==
    ASSUME GuardsTypeOK, NEW t \in Logins, login[t].pc # "idle"
    PROVE  login[t] \in Login /\ login[t].name \in Names /\ login[t].uuid \in Captchas
BY DEF GuardsTypeOK, NoLogin, Login

LEMMA StartKeeps ==
    ASSUME GuardsInv, NEW t \in Logins, NEW name \in Names, NEW right \in BOOLEAN, NEW answer \in BOOLEAN,
           NEW c \in Captchas, Start(t, name, right, c, answer)
    PROVE  GuardsInv'
<1> DEFINE start == [pc |-> "limit", name |-> name, right |-> right, uuid |-> c, answer |-> answer]
<1>1. start \in Login /\ start.pc = "limit"
  BY DEF Login
<1>2. login' = [login EXCEPT ![t] = start] /\ login[t].pc = "idle" /\ requests' = requests + 1 /\ requests < MaxRequests
  BY DEF Start, LoginAt
<1> HIDE DEF start
<1>3. UNCHANGED <<window, captcha, failures, passed, answered, guesses>>
  BY DEF Start, guardKeys, history
<1>4. /\ login' \in [Logins -> Login \cup {NoLogin}] /\ login'[t].pc = "limit"
      /\ \A other \in Logins : other # t => login'[other] = login[other]
  BY <1>1, <1>2 DEF GuardsInv, GuardsTypeOK
<1>5. GuardsTypeOK'
  BY <1>2, <1>3, <1>4, LoginGuardsAssumption DEF GuardsInv, GuardsTypeOK
<1>6. GuessTally'
  BY <1>2, <1>3, <1>4, NoGuess
<1> QED
  BY <1>3, <1>5, <1>6 DEF GuardsInv, CaptchaTally, WindowTally, WindowEnds

LEMMA RateLimitKeeps ==
    ASSUME GuardsInv, NEW t \in Logins, RateLimit(t)
    PROVE  GuardsInv'
<1>1. login[t].pc = "limit" /\ UNCHANGED <<captcha, failures, requests, answered, guesses>>
  BY DEF RateLimit, LoginAt
<1>2. EndLogin(t) \/ \E pc \in {"captcha", "count"} : LoginGoes(t, pc)
  BY DEF RateLimit
<1>3. /\ login' \in [Logins -> Login \cup {NoLogin}] /\ login'[t].pc \in {"idle", "captcha", "count"}
      /\ \A other \in Logins : other # t => login'[other] = login[other]
  BY <1>1, <1>2, LoginMoves, LoginEnds DEF GuardsInv
<1>4. /\ window' \in {window, Counted}
      /\ passed' # passed => passed' = passed + 1 /\ window' = Counted /\ Counted.count <= RateCount
  <2>1. CASE window' = Counted /\ Counted.count > RateCount /\ UNCHANGED passed
    BY <2>1
  <2>2. CASE window' = Counted /\ ~ (Counted.count > RateCount) /\ passed' = passed + 1
    BY <2>2, CountedWindow, LoginGuardsAssumption
  <2>3. CASE window' \in {window, Counted} /\ UNCHANGED passed
    BY <2>3
  <2> QED
    BY <2>1, <2>2, <2>3 DEF RateLimit
<1>5. WindowTally' /\ window' \in [count: 0..RateCount + 1, ttl: BOOLEAN] /\ passed' \in Nat
  <2>1. /\ window.count \in 0..RateCount + 1 /\ passed \in Nat /\ RateCount \in Nat
        /\ passed <= window.count /\ passed <= RateCount /\ WindowEnds
        /\ window \in [count: 0..RateCount + 1, ttl: BOOLEAN]
    BY LoginGuardsAssumption DEF GuardsInv, GuardsTypeOK, WindowTally
  <2>2. CASE window' = window
    <3>1. passed' = passed
      BY <1>4, <2>1, <2>2, CountedWindow
    <3> QED
      BY <2>1, <2>2, <3>1 DEF WindowTally, WindowEnds
  <2>3. CASE window' = Counted
    <3>1. passed' <= Counted.count /\ passed' <= RateCount /\ passed' \in Nat
      BY <1>4, <2>1, CountedWindow
    <3> QED
      BY <2>3, <3>1, CountedWindow DEF WindowTally, WindowEnds
  <2> QED
    BY <1>4, <2>2, <2>3
<1>6. GuardsTypeOK'
  BY <1>1, <1>3, <1>5 DEF GuardsInv, GuardsTypeOK
<1>7. GuessTally'
  BY <1>1, <1>3, NoGuess
<1> QED
  BY <1>1, <1>5, <1>6, <1>7 DEF GuardsInv, CaptchaTally

LEMMA VerifyCaptchaKeeps ==
    ASSUME GuardsInv, NEW t \in Logins, VerifyCaptcha(t)
    PROVE  GuardsInv'
<1> DEFINE c == login[t].uuid
<1>1. login[t].pc = "captcha" /\ UNCHANGED <<window, failures, requests, passed, guesses>> /\ c \in Captchas
  BY LoginUnderWay DEF VerifyCaptcha, LoginAt, GuardsInv
<1>2. EndLogin(t) \/ LoginGoes(t, "count")
  BY DEF VerifyCaptcha
<1>3. /\ login' \in [Logins -> Login \cup {NoLogin}] /\ login'[t].pc \in {"idle", "count"}
      /\ \A other \in Logins : other # t => login'[other] = login[other]
  BY <1>1, <1>2, LoginMoves, LoginEnds DEF GuardsInv
<1>4. /\ captcha' = [captcha EXCEPT ![c] = IF captcha[c] = "stored" THEN "gone" ELSE captcha[c]]
      /\ answered' = [answered EXCEPT ![c] = IF captcha[c] = "stored" THEN answered[c] + 1 ELSE answered[c]]
  BY DEF VerifyCaptcha, Consume
<1> HIDE DEF c
<1>5. /\ captcha' \in [Captchas -> {"unborn", "stored", "gone"}] /\ answered' \in [Captchas -> Nat]
      /\ CaptchaTally'
  BY <1>1, <1>4 DEF GuardsInv, GuardsTypeOK, CaptchaTally
<1>6. GuardsTypeOK'
  BY <1>1, <1>3, <1>5 DEF GuardsInv, GuardsTypeOK
<1>7. GuessTally'
  BY <1>1, <1>3, NoGuess
<1> QED
  BY <1>1, <1>5, <1>6, <1>7 DEF GuardsInv, WindowTally, WindowEnds

\* Recheck and Create, and the part of ClearFailures that refuses.
LEMMA PlainStepKeeps ==
    ASSUME GuardsInv, NEW t \in Logins, NEW pc \in {"clear", "create"},
           login[t].pc \in {"recheck", "clear", "create"},
           LoginGoes(t, pc) \/ EndLogin(t), UNCHANGED <<window, captcha, failures, requests, passed, answered, guesses>>
    PROVE  GuardsInv'
<1>1. /\ login' \in [Logins -> Login \cup {NoLogin}] /\ login'[t].pc \in {"idle", pc}
      /\ \A other \in Logins : other # t => login'[other] = login[other]
  BY LoginMoves, LoginEnds DEF GuardsInv
<1>2. GuardsTypeOK'
  BY <1>1 DEF GuardsInv, GuardsTypeOK
<1>3. GuessTally'
  BY <1>1, NoGuess
<1> QED
  BY <1>2, <1>3 DEF GuardsInv, CaptchaTally, WindowTally, WindowEnds

\* A request passes the count while the account is not locked, or ends.
LEMMA ReadCountKeeps ==
    ASSUME GuardsInv, NEW t \in Logins, ReadCount(t)
    PROVE  GuardsInv'
<1> DEFINE name == login[t].name
<1>1. /\ login[t].pc = "count" /\ UNCHANGED <<window, captcha, failures, requests, passed, answered, guesses>>
      /\ name \in Names
  BY LoginUnderWay DEF ReadCount, LoginAt, GuardsInv, guardKeys, history
<1>2. EndLogin(t) \/ (failures[name] < MaxRetry /\ LoginGoes(t, "compare"))
  BY <1>1, LoginGuardsAssumption DEF ReadCount, GuardsInv, GuardsTypeOK
<1>3. /\ login' \in [Logins -> Login \cup {NoLogin}]
      /\ \A other \in Logins : other # t => login'[other] = login[other]
      /\ \/ login'[t].pc = "idle"
         \/ login'[t].pc = "compare" /\ login'[t].name = name /\ failures[name] < MaxRetry
  BY <1>1, <1>2, LoginMoves, LoginEnds DEF GuardsInv
<1>4. GuardsTypeOK'
  BY <1>1, <1>3 DEF GuardsInv, GuardsTypeOK
<1> HIDE DEF name
<1>5. ASSUME NEW n \in Names
      PROVE  /\ guesses'[n] = failures'[n] + Cardinality(Recording(n)')
             /\ failures'[n] + Cardinality(Guessing(n)') < MaxRetry + Cardinality(Logins)
  <2>1. t \notin Recording(n) /\ t \notin Guessing(n) /\ t \notin Recording(n)'
    BY <1>1, <1>3 DEF Recording, Guessing
  <2>2. t \in Guessing(n)' => failures[n] < MaxRetry
    BY <1>1, <1>3 DEF Guessing
  <2>3. /\ guesses[n] = failures[n] + Cardinality(Recording(n))
        /\ failures[n] + Cardinality(Guessing(n)) < MaxRetry + Cardinality(Logins)
        /\ failures[n] \in Nat
    BY DEF GuardsInv, GuessTally, GuardsTypeOK
  <2>4. Cardinality(Guessing(n)') <= Cardinality(Logins) /\ Cardinality(Logins) \in Nat
    <3>1. Guessing(n)' \subseteq Logins
      BY DEF Guessing
    <3> QED
      BY <3>1, FS_Subset, FS_CardinalityType, LoginGuardsAssumption
  <2> QED
    BY <1>1, <1>3, <2>1, <2>2, <2>3, <2>4, GuessMoves, LoginGuardsAssumption
<1> QED
  BY <1>1, <1>4, <1>5 DEF GuardsInv, GuessTally, CaptchaTally, WindowTally, WindowEnds

\* A guess is made, recorded or forgotten: what is counted with what is in hand.
LEMMA GuessStepKeeps ==
    ASSUME GuardsInv, NEW t \in Logins, NEW name, name = login[t].name, login[t].pc \in {"compare", "record"},
           UNCHANGED <<window, captcha, requests, passed, answered>>,
           \/ /\ login[t].pc = "compare" /\ LoginGoes(t, "record") /\ UNCHANGED failures
              /\ guesses' = [guesses EXCEPT ![name] = guesses[name] + 1]
           \/ /\ login[t].pc = "compare" /\ (LoginGoes(t, "recheck") \/ EndLogin(t))
              /\ UNCHANGED <<failures, guesses>>
           \/ /\ login[t].pc = "record" /\ EndLogin(t) /\ UNCHANGED guesses
              /\ failures' = [failures EXCEPT ![name] = failures[name] + 1]
           \/ /\ login[t].pc = "record" /\ EndLogin(t) /\ UNCHANGED failures
              /\ guesses' = [guesses EXCEPT ![name] = guesses[name] - 1]
    PROVE  GuardsInv'
<1>1. name \in Names
  BY LoginUnderWay DEF GuardsInv
<1>2. /\ login' \in [Logins -> Login \cup {NoLogin}]
      /\ \A other \in Logins : other # t => login'[other] = login[other]
      /\ login'[t].pc = "record" => login'[t].name = name
      /\ \/ login[t].pc = "compare" /\ login'[t].pc = "record"
            /\ failures'[name] = failures[name] /\ guesses'[name] = guesses[name] + 1
         \/ login[t].pc = "compare" /\ login'[t].pc \in {"recheck", "idle"}
            /\ failures'[name] = failures[name] /\ guesses'[name] = guesses[name]
         \/ login[t].pc = "record" /\ login'[t].pc = "idle"
            /\ failures'[name] = failures[name] + 1 /\ guesses'[name] = guesses[name]
         \/ login[t].pc = "record" /\ login'[t].pc = "idle"
            /\ failures'[name] = failures[name] /\ guesses'[name] = guesses[name] - 1
  BY <1>1, LoginMoves, LoginEnds DEF GuardsInv, GuardsTypeOK
<1>3. \A n \in Names : n # name => failures'[n] = failures[n] /\ guesses'[n] = guesses[n]
  BY DEF GuardsInv, GuardsTypeOK
<1>4. DOMAIN failures' = Names /\ DOMAIN guesses' = Names
      /\ failures' = [n \in Names |-> failures'[n]] /\ guesses' = [n \in Names |-> guesses'[n]]
  BY DEF GuardsInv, GuardsTypeOK
<1>5. /\ t \in Recording(name) <=> login[t].pc = "record"
      /\ t \in Guessing(name) /\ (t \in Guessing(name)' <=> login'[t].pc = "record")
      /\ (t \in Recording(name)' <=> login'[t].pc = "record")
  BY <1>2 DEF Recording, Guessing
<1>6. /\ guesses[name] = failures[name] + Cardinality(Recording(name)) /\ failures[name] \in Nat
      /\ failures[name] + Cardinality(Guessing(name)) < MaxRetry + Cardinality(Logins)
      /\ guesses[name] \in Nat
  BY <1>1 DEF GuardsInv, GuessTally, GuardsTypeOK
<1>7. /\ guesses'[name] = failures'[name] + Cardinality(Recording(name)')
      /\ failures'[name] + Cardinality(Guessing(name)') < MaxRetry + Cardinality(Logins)
      /\ failures'[name] \in Nat /\ guesses'[name] \in Nat
  <2>1. Cardinality(Logins) \in Nat
    BY GuessSets
  <2>2. /\ Cardinality(Recording(name) \ {t}) \in Nat /\ Cardinality(Guessing(name) \ {t}) \in Nat
        /\ Cardinality(Recording(name)) = Cardinality(Recording(name) \ {t}) + (IF login[t].pc = "record" THEN 1 ELSE 0)
        /\ Cardinality(Recording(name)') = Cardinality(Recording(name) \ {t}) + (IF login'[t].pc = "record" THEN 1 ELSE 0)
        /\ Cardinality(Guessing(name)) = Cardinality(Guessing(name) \ {t}) + 1
        /\ Cardinality(Guessing(name)') = Cardinality(Guessing(name) \ {t}) + (IF login'[t].pc = "record" THEN 1 ELSE 0)
    <3>1. /\ Cardinality(Recording(name) \ {t}) \in Nat /\ Cardinality(Guessing(name) \ {t}) \in Nat
          /\ Cardinality(Recording(name)) = Cardinality(Recording(name) \ {t}) + (IF t \in Recording(name) THEN 1 ELSE 0)
          /\ Cardinality(Recording(name)') = Cardinality(Recording(name) \ {t}) + (IF t \in Recording(name)' THEN 1 ELSE 0)
          /\ Cardinality(Guessing(name)) = Cardinality(Guessing(name) \ {t}) + (IF t \in Guessing(name) THEN 1 ELSE 0)
          /\ Cardinality(Guessing(name)') = Cardinality(Guessing(name) \ {t}) + (IF t \in Guessing(name)' THEN 1 ELSE 0)
      BY <1>2, GuessMoves
    <3>2. (t \in Guessing(name)) = TRUE
      BY <1>5
    <3> QED
      BY <1>5, <3>1, <3>2
  <2> QED
    BY <1>2, <1>6, <2>1, <2>2, LoginGuardsAssumption
<1>8. ASSUME NEW n \in Names, n # name
      PROVE  /\ guesses'[n] = failures'[n] + Cardinality(Recording(n)')
             /\ failures'[n] + Cardinality(Guessing(n)') < MaxRetry + Cardinality(Logins)
  <2>1. Recording(n)' = Recording(n) /\ Guessing(n)' = Guessing(n)
    BY <1>2, <1>8 DEF Recording, Guessing
  <2> QED
    BY <1>3, <1>8, <2>1 DEF GuardsInv, GuessTally
<1>9. failures' \in [Names -> Nat] /\ guesses' \in [Names -> Nat]
  BY <1>3, <1>4, <1>7 DEF GuardsInv, GuardsTypeOK
<1>10. GuardsTypeOK'
  BY <1>2, <1>9 DEF GuardsInv, GuardsTypeOK
<1>11. GuessTally'
  <2>1. ASSUME NEW n \in Names
        PROVE  /\ guesses'[n] = failures'[n] + Cardinality(Recording(n)')
               /\ failures'[n] + Cardinality(Guessing(n)') < MaxRetry + Cardinality(Logins)
    <3>1. CASE n = name
      BY <1>7, <3>1
    <3>2. CASE n # name
      BY <1>8, <3>2
    <3> QED
      BY <3>1, <3>2
  <2> QED
    BY <2>1 DEF GuessTally
<1> QED
  BY <1>10, <1>11 DEF GuardsInv, CaptchaTally, WindowTally, WindowEnds

\* A counter goes, by an unlocking, an expiry or a right password.
LEMMA ResetKeeps ==
    ASSUME GuardsInv, NEW name \in Names, Reset(name), UNCHANGED <<window, captcha, requests, passed, answered>>,
           \/ UNCHANGED login
           \/ \E t \in Logins : login[t].pc = "clear" /\ (LoginGoes(t, "create") \/ EndLogin(t))
    PROVE  GuardsInv'
<1>1. /\ login' \in [Logins -> Login \cup {NoLogin}]
      /\ \A n \in Names : Recording(n)' = Recording(n) /\ Guessing(n)' = Guessing(n)
  <2>1. CASE UNCHANGED login
    BY <2>1 DEF GuardsInv, GuardsTypeOK, Recording, Guessing
  <2>2. ASSUME NEW t \in Logins, login[t].pc = "clear", LoginGoes(t, "create") \/ EndLogin(t)
        PROVE  /\ login' \in [Logins -> Login \cup {NoLogin}]
               /\ \A n \in Names : Recording(n)' = Recording(n) /\ Guessing(n)' = Guessing(n)
    <3>1. /\ login' \in [Logins -> Login \cup {NoLogin}] /\ login'[t].pc \in {"idle", "create"}
          /\ \A other \in Logins : other # t => login'[other] = login[other]
      BY <2>2, LoginMoves, LoginEnds DEF GuardsInv
    <3> QED
      BY <2>2, <3>1 DEF Recording, Guessing
  <2> QED
    BY <2>1, <2>2
<1>2. /\ failures' = [failures EXCEPT ![name] = 0]
      /\ guesses' = [guesses EXCEPT ![name] = Cardinality(Recording(name))]
  BY GuessSets DEF Reset
<1>3. GuardsTypeOK'
  BY <1>1, <1>2, GuessSets DEF GuardsInv, GuardsTypeOK
<1>4. ASSUME NEW n \in Names
      PROVE  /\ guesses'[n] = failures'[n] + Cardinality(Recording(n)')
             /\ failures'[n] + Cardinality(Guessing(n)') < MaxRetry + Cardinality(Logins)
  <2>1. CASE n = name
    <3>1. guesses'[n] = Cardinality(Recording(n)) /\ failures'[n] = 0
      BY <1>2, <2>1 DEF GuardsInv, GuardsTypeOK
    <3> QED
      BY <1>1, <3>1, GuessSets, LoginGuardsAssumption
  <2>2. CASE n # name
    <3>1. guesses'[n] = guesses[n] /\ failures'[n] = failures[n]
      BY <1>2, <2>2 DEF GuardsInv, GuardsTypeOK
    <3> QED
      BY <1>1, <3>1 DEF GuardsInv, GuessTally
  <2> QED
    BY <2>1, <2>2
<1> QED
  BY <1>3, <1>4 DEF GuardsInv, GuessTally, CaptchaTally, WindowTally, WindowEnds

LEMMA GuessesKeep ==
    ASSUME GuardsInv, NEW t \in Logins, Compare(t) \/ RecordFailure(t) \/ ClearFailures(t)
    PROVE  GuardsInv'
<1>1. ASSUME Compare(t) PROVE GuardsInv'
  <2> DEFINE name == login[t].name
             wrong == name \notin Accounts \/ ~login[t].right
  <2>1. /\ login[t].pc = "compare" /\ UNCHANGED <<window, captcha, failures, requests, passed, answered>>
        /\ \/ EndLogin(t) /\ UNCHANGED guesses
           \/ /\ LoginGoes(t, IF wrong THEN "record" ELSE "recheck")
              /\ guesses' = IF wrong THEN [guesses EXCEPT ![name] = @ + 1] ELSE guesses
    BY <1>1 DEF Compare, LoginAt, guardKeys
  <2> HIDE DEF wrong
  <2>2. name \in Names /\ failures[name] \in Nat /\ guesses[name] \in Nat
    BY <2>1, LoginUnderWay DEF GuardsInv, GuardsTypeOK
  <2>3. CASE LoginGoes(t, "record") /\ guesses' = [guesses EXCEPT ![name] = guesses[name] + 1]
    BY <2>1, <2>3, GuessStepKeeps
  <2>4. CASE (LoginGoes(t, "recheck") \/ EndLogin(t)) /\ guesses' = guesses
    BY <2>1, <2>4, GuessStepKeeps
  <2> QED
    BY <2>1, <2>3, <2>4
<1>2. ASSUME RecordFailure(t) PROVE GuardsInv'
  <2> DEFINE name == login[t].name
  <2>1. /\ login[t].pc = "record" /\ UNCHANGED <<window, captcha, requests, passed, answered, guesses>>
        /\ EndLogin(t) /\ failures' = [failures EXCEPT ![name] = failures[name] + 1]
    BY <1>2 DEF RecordFailure, Increased, LoginAt, history
  <2>2. name \in Names /\ failures[name] \in Nat /\ guesses[name] \in Nat
    BY <2>1, LoginUnderWay DEF GuardsInv, GuardsTypeOK
  <2> QED
    BY <2>1, GuessStepKeeps
<1>3. ASSUME ClearFailures(t) PROVE GuardsInv'
  <2>1. login[t].pc = "clear" /\ UNCHANGED <<window, captcha, requests, passed, answered>>
    BY <1>3 DEF ClearFailures, LoginAt
  <2>2. login[t].name \in Names
    BY <2>1, LoginUnderWay DEF GuardsInv
  <2>3. CASE EndLogin(t) /\ UNCHANGED <<failures, guesses>>
    BY <2>1, <2>3, PlainStepKeeps
  <2>4. CASE LoginGoes(t, "create") /\ Reset(login[t].name)
    BY <2>1, <2>2, <2>4, ResetKeeps
  <2> QED
    BY <1>3, <2>3, <2>4 DEF ClearFailures
<1> QED
  BY <1>1, <1>2, <1>3

LEMMA FailKeeps ==
    ASSUME GuardsInv, NEW t \in Logins, Fail(t)
    PROVE  GuardsInv'
<1> DEFINE name == login[t].name
<1>1. /\ login[t].pc \notin {"idle", "limit"} /\ EndLogin(t) /\ UNCHANGED <<window, requests, passed, answered>>
      /\ captcha' = captcha \/ (login[t].pc = "captcha" /\ captcha' = Consume(t))
      /\ \/ /\ guesses' = IF login[t].pc = "record" THEN [guesses EXCEPT ![name] = @ - 1] ELSE guesses
            /\ UNCHANGED failures
         \/ /\ login[t].pc = "record" /\ failures' = [failures EXCEPT ![name] = failures[name] + 1]
            /\ UNCHANGED guesses
         \/ login[t].pc = "clear" /\ Reset(name)
  BY DEF Fail, LoginAt, Increased
<1>2. name \in Names /\ login[t].uuid \in Captchas /\ failures[name] \in Nat /\ guesses[name] \in Nat
  BY <1>1, LoginUnderWay DEF GuardsInv, GuardsTypeOK
<1>3. /\ login' \in [Logins -> Login \cup {NoLogin}] /\ login'[t].pc = "idle"
      /\ \A other \in Logins : other # t => login'[other] = login[other]
  BY <1>1, LoginEnds DEF GuardsInv
<1>4. CASE login[t].pc = "record"
  BY <1>1, <1>4, GuessStepKeeps
<1>7. CASE login[t].pc = "clear" /\ Reset(name)
  BY <1>1, <1>2, <1>7, ResetKeeps
<1>8. CASE login[t].pc = "compare"
  BY <1>1, <1>8, GuessStepKeeps
<1>9. CASE login[t].pc \notin {"compare", "record"} /\ failures' = failures /\ guesses' = guesses
  <2>1. captcha' \in [Captchas -> {"unborn", "stored", "gone"}] /\ CaptchaTally'
    BY <1>1, <1>2 DEF GuardsInv, GuardsTypeOK, CaptchaTally, Consume
  <2>2. GuardsTypeOK'
    BY <1>1, <1>3, <1>9, <2>1 DEF GuardsInv, GuardsTypeOK
  <2>3. GuessTally'
    BY <1>3, <1>9, NoGuess
  <2> QED
    BY <1>1, <2>1, <2>2, <2>3 DEF GuardsInv, WindowTally, WindowEnds
<1> QED
  BY <1>1, <1>4, <1>7, <1>8, <1>9

LEMMA OthersKeep ==
    ASSUME GuardsInv,
           \/ \E c \in Captchas : GenerateCaptcha(c) \/ ExpireCaptcha(c)
           \/ \E name \in Names : Unlock(name)
           \/ EndWindow
           \/ UNCHANGED loginVars
    PROVE  GuardsInv'
<1>1. ASSUME NEW c \in Captchas, GenerateCaptcha(c) \/ ExpireCaptcha(c) PROVE GuardsInv'
  <2>1. UNCHANGED <<login, window, failures, requests, passed, answered, guesses>>
    BY <1>1 DEF GenerateCaptcha, ExpireCaptcha, history
  <2>2. captcha' \in [Captchas -> {"unborn", "stored", "gone"}] /\ CaptchaTally'
    BY <1>1, <2>1 DEF GenerateCaptcha, ExpireCaptcha, GuardsInv, GuardsTypeOK, CaptchaTally
  <2> QED
    BY <2>1, <2>2 DEF GuardsInv, GuardsTypeOK, GuessTally, WindowTally, WindowEnds, Recording, Guessing
<1>2. ASSUME NEW name \in Names, Unlock(name) PROVE GuardsInv'
  BY <1>2, ResetKeeps DEF Unlock
<1>3. ASSUME EndWindow PROVE GuardsInv'
  <2>1. /\ UNCHANGED <<login, captcha, failures, requests, answered, guesses>>
        /\ window' = [count |-> 0, ttl |-> FALSE] /\ passed' = 0
    BY <1>3 DEF EndWindow
  <2>2. window' \in [count: 0..RateCount + 1, ttl: BOOLEAN] /\ passed' \in Nat /\ WindowTally'
    BY <2>1, LoginGuardsAssumption DEF WindowTally, WindowEnds
  <2> QED
    BY <2>1, <2>2 DEF GuardsInv, GuardsTypeOK, GuessTally, CaptchaTally, Recording, Guessing
<1>4. CASE UNCHANGED loginVars
  BY <1>4 DEF loginVars, guardKeys, history, GuardsInv, GuardsTypeOK, GuessTally, CaptchaTally,
     WindowTally, WindowEnds, Recording, Guessing
<1> QED
  BY <1>1, <1>2, <1>3, <1>4

LEMMA GuardsInvAlways == GuardsSpec => []GuardsInv
<1>1. GuardsInv /\ [GuardsNext]_loginVars => GuardsInv'
  <2> SUFFICES ASSUME GuardsInv, [GuardsNext]_loginVars PROVE GuardsInv'
    OBVIOUS
  <2>1. ASSUME NEW t \in Logins, Request(t) PROVE GuardsInv'
    <3>1. CASE Recheck(t) \/ Create(t)
      BY <3>1, PlainStepKeeps DEF Recheck, Create, LoginAt, guardKeys, history
    <3> QED
      BY <2>1, <3>1, StartKeeps, RateLimitKeeps, VerifyCaptchaKeeps, ReadCountKeeps, GuessesKeep,
         FailKeeps DEF Request
  <2> QED
    BY <2>1, OthersKeep DEF GuardsNext
<1> QED
  BY GuardsStart, <1>1, PTL DEF GuardsSpec

THEOREM GuardsTypeCorrect == GuardsSpec => []GuardsTypeOK
<1>1. GuardsInv => GuardsTypeOK
  BY DEF GuardsInv
<1> QED
  BY GuardsInvAlways, <1>1, PTL

\* However many requests meet them at once, the guards let through no more than
\* they are for (captcha.go:19, ratelimit.go:21-25, login.go:84-117).
THEOREM GuardsAlwaysHold == GuardsSpec => []GuardsHold
<1>1. ASSUME GuardsInv PROVE GuardsHold
  <2>1. GuessesBounded
    <3> SUFFICES ASSUME NEW n \in Names PROVE guesses[n] < MaxRetry + Cardinality(Logins)
      BY DEF GuessesBounded
    <3>1. /\ guesses[n] = failures[n] + Cardinality(Recording(n)) /\ failures[n] \in Nat
          /\ failures[n] + Cardinality(Guessing(n)) < MaxRetry + Cardinality(Logins)
      BY <1>1 DEF GuardsInv, GuessTally, GuardsTypeOK
    <3> QED
      BY <3>1, GuessSets, LoginGuardsAssumption
  <2> QED
    BY <1>1, <2>1 DEF GuardsInv, GuardsHold, CaptchaTally, CaptchaOnce, WindowTally, WindowBounded
<1> QED
  BY GuardsInvAlways, <1>1, PTL

\* A lock ends by itself or by an unlocking, never by a login (login.go:46-55).
THEOREM LockAlwaysHolds == GuardsSpec => [][LockHolds]_loginVars
<1>1. ASSUME GuardsInv, GuardsNext PROVE LockHolds
  <2> SUFFICES ASSUME NEW n \in Names, failures[n] >= MaxRetry, failures'[n] < MaxRetry
               PROVE  UNCHANGED login
    BY DEF LockHolds
  <2>1. failures \in [Names -> Nat] /\ MaxRetry \in Nat /\ failures'[n] # failures[n]
    BY <1>1, LoginGuardsAssumption DEF GuardsInv, GuardsTypeOK
  <2>2. ASSUME NEW t \in Logins, RecordFailure(t) PROVE FALSE
    BY <2>1, <2>2 DEF RecordFailure, Increased
  <2>3. ASSUME NEW t \in Logins, ClearFailures(t) PROVE FALSE
    BY <2>1, <2>3 DEF ClearFailures, Reset
  <2>4. ASSUME NEW t \in Logins, Fail(t) PROVE FALSE
    BY <2>1, <2>4 DEF Fail, Increased, Reset
  <2>5. ASSUME NEW name \in Names, Unlock(name) PROVE UNCHANGED login
    BY <2>5 DEF Unlock
  <2> QED
    BY <1>1, <2>1, <2>2, <2>3, <2>4, <2>5 DEF GuardsNext, Request, Start, RateLimit, VerifyCaptcha, ReadCount,
       Compare, Recheck, Create, GenerateCaptcha, ExpireCaptcha, EndWindow, guardKeys
<1> QED
  BY GuardsInvAlways, <1>1, PTL DEF GuardsSpec

-----------------------------------------------------------------------------
(* Texts.                                                                  *)

LEMMA PrefixFacts ==
    ASSUME NEW S, NEW s \in Seq(S), NEW n \in 0..Len(s)
    PROVE  /\ Prefix(s, n) \in Seq(S) /\ Len(Prefix(s, n)) = n /\ DOMAIN Prefix(s, n) = 1..n
           /\ \A i \in 1..n : Prefix(s, n)[i] = s[i]
<1>1. Len(s) \in Nat /\ \A i \in 1..n : s[i] \in S
  BY LenProperties, ElementOfSeq
<1>2. n \in Nat /\ n \in Int /\ 1 \in Int
  BY <1>1
<1>3. /\ SubSeq(s, 1, n) \in Seq(S) /\ Len(SubSeq(s, 1, n)) = IF 1 <= n THEN n - 1 + 1 ELSE 0
      /\ \A i \in 1..n - 1 + 1 : SubSeq(s, 1, n)[i] = s[1 + i - 1]
  BY <1>1, <1>2, SubSeqProperties
<1>4. \A i \in 1..n : i \in 1..n - 1 + 1 /\ 1 + i - 1 = i
  BY <1>2
<1>5. Len(SubSeq(s, 1, n)) = n
  BY <1>2, <1>3
<1>6. DOMAIN SubSeq(s, 1, n) = 1..n
  BY <1>3, <1>5, LenProperties
<1> QED
  BY <1>3, <1>4, <1>5, <1>6 DEF Prefix

LEMMA PrefixWhole ==
    ASSUME NEW S, NEW s \in Seq(S)
    PROVE  Len(s) \in Nat /\ Prefix(s, Len(s)) = s /\ Prefix(s, 0) = << >>
<1>1. Len(s) \in Nat
  BY LenProperties
<1>2. Prefix(s, Len(s)) = s
  BY SubSeqFull DEF Prefix
<1>3. SubSeq(s, 1, 0) = << >>
  BY SubSeqEmpty
<1> QED
  BY <1>1, <1>2, <1>3 DEF Prefix

LEMMA PrefixTwice ==
    ASSUME NEW S, NEW s \in Seq(S), NEW n \in 0..Len(s), NEW m \in 0..n
    PROVE  Prefix(Prefix(s, n), m) = Prefix(s, m)
<1>1. Len(s) \in Nat /\ m \in 0..Len(s)
  BY LenProperties
<1>2. /\ Prefix(s, n) \in Seq(S) /\ Len(Prefix(s, n)) = n /\ \A i \in 1..n : Prefix(s, n)[i] = s[i]
  BY PrefixFacts
<1>3. m \in 0..Len(Prefix(s, n))
  BY <1>2
<1>4. /\ Prefix(Prefix(s, n), m) \in Seq(S) /\ Len(Prefix(Prefix(s, n), m)) = m
      /\ \A i \in 1..m : Prefix(Prefix(s, n), m)[i] = Prefix(s, n)[i]
  BY <1>2, <1>3, PrefixFacts
<1>5. /\ Prefix(s, m) \in Seq(S) /\ Len(Prefix(s, m)) = m
      /\ \A i \in 1..m : Prefix(s, m)[i] = s[i]
  BY <1>1, PrefixFacts
<1>6. \A i \in 1..m : Prefix(Prefix(s, n), m)[i] = Prefix(s, m)[i]
  BY <1>1, <1>2, <1>4, <1>5
<1> QED
  BY <1>4, <1>5, <1>6, SeqEqual

LEMMA PrefixOfJoined ==
    ASSUME NEW S, NEW s \in Seq(S), NEW t \in Seq(S), NEW n \in 0..Len(s) + Len(t)
    PROVE  /\ n <= Len(s) => Prefix(s \o t, n) = Prefix(s, n)
           /\ n >= Len(s) => Prefix(s \o t, n) = s \o Prefix(t, n - Len(s))
<1>1. Len(s) \in Nat /\ Len(t) \in Nat /\ n \in Nat
  BY LenProperties
<1>2. /\ s \o t \in Seq(S) /\ Len(s \o t) = Len(s) + Len(t)
      /\ \A i \in 1..Len(s) + Len(t) : (s \o t)[i] = IF i <= Len(s) THEN s[i] ELSE t[i - Len(s)]
  BY ConcatProperties
<1>3. n \in 0..Len(s \o t)
  BY <1>2
<1>4. /\ Prefix(s \o t, n) \in Seq(S) /\ Len(Prefix(s \o t, n)) = n
      /\ \A i \in 1..n : Prefix(s \o t, n)[i] = (s \o t)[i]
  BY <1>2, <1>3, PrefixFacts
<1>5. ASSUME n <= Len(s)
      PROVE  Prefix(s \o t, n) = Prefix(s, n)
  <2>1. n \in 0..Len(s)
    BY <1>1, <1>5
  <2>2. /\ Prefix(s, n) \in Seq(S) /\ Len(Prefix(s, n)) = n /\ \A i \in 1..n : Prefix(s, n)[i] = s[i]
    BY <2>1, PrefixFacts
  <2>3. \A i \in 1..n : (s \o t)[i] = s[i]
    BY <1>1, <1>2, <1>5
  <2>4. \A i \in 1..n : Prefix(s \o t, n)[i] = Prefix(s, n)[i]
    BY <1>4, <2>2, <2>3
  <2> QED
    BY <1>4, <2>2, <2>4, SeqEqual
<1>6. ASSUME n >= Len(s)
      PROVE  Prefix(s \o t, n) = s \o Prefix(t, n - Len(s))
  <2> DEFINE rest == n - Len(s)
  <2>1. rest \in 0..Len(t) /\ rest \in Nat /\ n = Len(s) + rest
    BY <1>1, <1>6
  <2> HIDE DEF rest
  <2>2. /\ Prefix(t, rest) \in Seq(S) /\ Len(Prefix(t, rest)) = rest
        /\ \A i \in 1..rest : Prefix(t, rest)[i] = t[i]
    BY <2>1, PrefixFacts
  <2>3. /\ s \o Prefix(t, rest) \in Seq(S) /\ Len(s \o Prefix(t, rest)) = Len(s) + rest
        /\ \A i \in 1..Len(s) + rest : (s \o Prefix(t, rest))[i] = IF i <= Len(s) THEN s[i] ELSE Prefix(t, rest)[i - Len(s)]
    BY <2>2, ConcatProperties
  <2>4. ASSUME NEW i \in 1..n
        PROVE  Prefix(s \o t, n)[i] = (s \o Prefix(t, rest))[i]
    <3>1. CASE i <= Len(s)
      BY <1>1, <1>2, <1>4, <2>1, <2>3, <3>1
    <3>2. CASE ~ (i <= Len(s))
      <4>1. i - Len(s) \in 1..rest /\ i \in 1..Len(s) + rest /\ i \in 1..Len(s) + Len(t)
        BY <1>1, <2>1, <3>2
      <4>2. (s \o Prefix(t, rest))[i] = Prefix(t, rest)[i - Len(s)]
        BY <2>3, <3>2, <4>1
      <4>3. Prefix(s \o t, n)[i] = t[i - Len(s)]
        BY <1>2, <1>4, <3>2, <4>1
      <4> QED
        BY <2>2, <4>1, <4>2, <4>3
    <3> QED
      BY <3>1, <3>2
  <2>5. Prefix(s \o t, n) = s \o Prefix(t, rest)
    BY <1>4, <2>1, <2>3, <2>4, SeqEqual
  <2> QED
    BY <2>5 DEF rest
<1> QED
  BY <1>5, <1>6

\* What a copy of MaxResult bytes keeps.
CutText(text) == Prefix(text, IF Len(text) > MaxResult THEN MaxResult ELSE Len(text))
Fits(text, kept) == IF Len(text) > MaxResult - Len(kept) THEN MaxResult - Len(kept) ELSE Len(text)

LEMMA CutFacts ==
    ASSUME NEW S, NEW s \in Seq(S)
    PROVE  /\ CutText(s) \in Seq(S) /\ Len(CutText(s)) <= MaxResult
           /\ Len(CutText(s)) = IF Len(s) > MaxResult THEN MaxResult ELSE Len(s)
           /\ CutText(s) = Prefix(s, Len(CutText(s))) /\ Len(CutText(s)) \in 0..Len(s)
<1> DEFINE n == IF Len(s) > MaxResult THEN MaxResult ELSE Len(s)
<1>1. n \in 0..Len(s) /\ n <= MaxResult
  BY LenProperties, RequestsAssumption
<1> HIDE DEF n
<1>2. Prefix(s, n) \in Seq(S) /\ Len(Prefix(s, n)) = n
  BY <1>1, PrefixFacts
<1>3. CutText(s) = Prefix(s, n)
  BY DEF CutText, n
<1> QED
  BY <1>1, <1>2, <1>3 DEF n

\* Cutting what is joined is to join, to what was cut, what still fits.
LEMMA CutJoined ==
    ASSUME NEW S, NEW s \in Seq(S), NEW t \in Seq(S)
    PROVE  CutText(s) \o Prefix(t, Fits(t, CutText(s))) = CutText(s \o t)
<1>1. Len(s) \in Nat /\ Len(t) \in Nat /\ MaxResult \in Nat
  BY LenProperties, RequestsAssumption
<1>2. Len(s \o t) = Len(s) + Len(t)
  BY ConcatProperties
<1>3. CASE Len(s) > MaxResult
  <2>1. Len(CutText(s)) = MaxResult
    BY <1>3, CutFacts
  <2>2. Fits(t, CutText(s)) = 0
    BY <1>1, <2>1 DEF Fits
  <2>3. Prefix(t, Fits(t, CutText(s))) = << >>
    BY <2>2, PrefixWhole
  <2>4. CutText(s) \o Prefix(t, Fits(t, CutText(s))) = CutText(s)
    BY <2>3, CutFacts, ConcatEmptySeq
  <2>5. CutText(s) = Prefix(s, MaxResult) /\ CutText(s \o t) = Prefix(s \o t, MaxResult)
    BY <1>1, <1>2, <1>3 DEF CutText
  <2>6. MaxResult \in 0..Len(s) + Len(t) /\ MaxResult <= Len(s)
    BY <1>1, <1>3
  <2>7. Prefix(s \o t, MaxResult) = Prefix(s, MaxResult)
    BY <2>6, PrefixOfJoined
  <2> QED
    BY <2>4, <2>5, <2>7
<1>4. CASE ~ (Len(s) > MaxResult)
  <2> DEFINE n == IF Len(s) + Len(t) > MaxResult THEN MaxResult ELSE Len(s) + Len(t)
  <2>1. CutText(s) = s
    BY <1>4, PrefixWhole DEF CutText
  <2>2. Fits(t, s) = n - Len(s) /\ n \in 0..Len(s) + Len(t) /\ n >= Len(s)
    BY <1>1, <1>4 DEF Fits
  <2>3. CutText(s \o t) = Prefix(s \o t, n)
    BY <1>2 DEF CutText
  <2> HIDE DEF n
  <2>4. Prefix(s \o t, n) = s \o Prefix(t, n - Len(s))
    BY <2>2, PrefixOfJoined
  <2> QED
    BY <2>1, <2>2, <2>3, <2>4
<1> QED
  BY <1>3, <1>4

\* What is written so far, write by write; and what of it is kept.
Closed(V, parts, size) == size \in Nat /\ << >> \in V /\ \A n \in 1..size, v \in V : v \o parts[n] \in V
Joins(joined, parts, size, V) ==
    /\ joined \in [0..size -> V] /\ joined[0] = << >>
    /\ \A n \in 1..size : joined[n] = joined[n - 1] \o parts[n]

More(parts, n, v) == v \o Prefix(parts[n], Fits(parts[n], v))
Capturable(V, parts, size) == size \in Nat /\ << >> \in V /\ \A n \in 1..size, v \in V : More(parts, n, v) \in V
Keeps(kept, parts, size, V) ==
    /\ kept \in [0..size -> V] /\ kept[0] = << >>
    /\ \A n \in 1..size : kept[n] = More(parts, n, kept[n - 1])

LEMMA JoinedWrites ==
    ASSUME NEW V, NEW parts, NEW size, Closed(V, parts, size)
    PROVE  \E joined : Joins(joined, parts, size, V)
<1> DEFINE Adds == [n \in 1..size |-> [v \in V |-> v \o parts[n]]]
<1>1. Adds \in Steps(size, V) /\ size \in Nat /\ << >> \in V
  BY DEF Steps, Closed
<1>2. ASSUME NEW n \in 1..size, NEW v \in V
      PROVE  Adds[n][v] = v \o parts[n]
  OBVIOUS
<1> HIDE DEF Adds
<1>3. PICK g \in [0..size -> V] : Iterated(g, << >>, size, Adds)
  BY <1>1, Iterates
<1>4. ASSUME NEW n \in 1..size
      PROVE  g[n] = g[n - 1] \o parts[n]
  <2>1. g[n] = Adds[n][g[n - 1]] /\ g[n - 1] \in V
    BY <1>1, <1>3 DEF Iterated
  <2> QED
    BY <1>2, <2>1
<1> QED
  BY <1>3, <1>4 DEF Joins, Iterated

LEMMA KeptWrites ==
    ASSUME NEW V, NEW parts, NEW size, Capturable(V, parts, size)
    PROVE  \E kept : Keeps(kept, parts, size, V)
<1> DEFINE Adds == [n \in 1..size |-> [v \in V |-> More(parts, n, v)]]
<1>1. Adds \in Steps(size, V) /\ size \in Nat /\ << >> \in V
  BY DEF Steps, Capturable
<1>2. ASSUME NEW n \in 1..size, NEW v \in V
      PROVE  Adds[n][v] = More(parts, n, v)
  OBVIOUS
<1> HIDE DEF Adds
<1>3. PICK g \in [0..size -> V] : Iterated(g, << >>, size, Adds)
  BY <1>1, Iterates
<1>4. ASSUME NEW n \in 1..size
      PROVE  g[n] = More(parts, n, g[n - 1])
  <2>1. g[n] = Adds[n][g[n - 1]] /\ g[n - 1] \in V
    BY <1>1, <1>3 DEF Iterated
  <2> QED
    BY <1>2, <2>1
<1> QED
  BY <1>3, <1>4 DEF Keeps, Iterated

LEMMA FlattenedWrites ==
    ASSUME NEW S, NEW size, NEW writes \in Seq(Seq(S)), size = Len(writes), 
           NEW joined, Joins(joined, writes, size, Seq(S))
    PROVE  FlattenSeq(writes) = joined[size]
<1> USE DEF Joins
<1>1. size \in Nat /\ \A n \in 1..size : writes[n] \in Seq(S)
  BY LenProperties, ElementOfSeq
<1>2. CASE size = 0
  <2>1. writes = << >>
    BY <1>2, EmptySeq
  <2> QED
    BY <1>2, <2>1 DEF FlattenSeq
<1>3. CASE size # 0
  <2> DEFINE Step(f) == [i \in 1..Len(writes) |-> IF i = 1 THEN writes[i] ELSE f[i - 1] \o writes[i]]
             flatten == CHOOSE f : f = Step(f)
             sofar == [i \in 1..Len(writes) |-> joined[i]]
  <2>1. sofar = Step(sofar)
    <3>1. ASSUME NEW i \in 1..size
          PROVE  joined[i] = IF i = 1 THEN writes[i] ELSE sofar[i - 1] \o writes[i]
      <4>1. CASE i = 1
        <5>1. joined[i] = joined[i - 1] \o writes[i]
          OBVIOUS
        <5>2. i - 1 = 0
          BY <4>1
        <5>3. joined[i - 1] = << >>
          BY <5>2
        <5>4. << >> \o writes[i] = writes[i]
          BY <1>1, ConcatEmptySeq
        <5> QED
          BY <4>1, <5>1, <5>3, <5>4
      <4>2. CASE i # 1
        <5>1. i - 1 \in 1..size
          BY <1>1, <4>2
        <5> QED
          BY <4>2, <5>1
      <4> QED
        BY <4>1, <4>2
    <3> QED
      BY <3>1
  <2>2. flatten = Step(flatten)
    <3> HIDE DEF sofar, Step
    <3> QED
      BY <2>1, Zenon
  <2>3. Len(writes) # 0
    BY <1>3
  <2>4. FlattenSeq(writes) = flatten[Len(writes)]
    BY <2>3, Zenon DEF FlattenSeq
  <2> HIDE DEF flatten
  <2> DEFINE Same == {n \in Nat : n + 1 <= size => flatten[n + 1] = joined[n + 1]}
  <2>5. 0 \in Same
    <3>1. 1 \in 1..size
      BY <1>1, <1>3
    <3>2. flatten[1] = writes[1] /\ sofar[1] = joined[1] /\ sofar[1] = writes[1]
      BY <2>1, <2>2, <3>1
    <3> QED
      BY <3>2
  <2>6. ASSUME NEW n \in Nat, n \in Same
        PROVE  n + 1 \in Same
    <3>1. SUFFICES ASSUME (n + 1) + 1 <= size
                   PROVE  flatten[(n + 1) + 1] = joined[(n + 1) + 1]
      BY <2>6
    <3> DEFINE i == (n + 1) + 1
    <3>2. i \in 1..size /\ i # 1 /\ i - 1 = n + 1 /\ n + 1 <= size
      BY <1>1, <3>1
    <3> HIDE DEF i
    <3>3. flatten[i - 1] = joined[i - 1]
      BY <2>6, <3>2
    <3>4. flatten[i] = flatten[i - 1] \o writes[i]
      BY <2>2, <3>2
    <3>5. flatten[i] = joined[i]
      BY <3>2, <3>3, <3>4
    <3> QED
      BY <3>5 DEF i
  <2> HIDE DEF Same
  <2>7. Nat \subseteq Same
    BY <2>5, <2>6, NatInduct
  <2>8. size - 1 \in Nat /\ (size - 1) + 1 = size
    BY <1>1, <1>3
  <2>9. size - 1 \in Same
    BY <2>7, <2>8
  <2>10. flatten[size] = joined[size]
    BY <2>8, <2>9 DEF Same
  <2> QED
    BY <2>4, <2>10
<1> QED
  BY <1>2, <1>3

\* What is captured of an answer, in however many writes, is as much of it as there
\* is room for.
LEMMA CapturedWrites ==
    ASSUME NEW S, NEW size, NEW writes \in Seq(Seq(S)), size = Len(writes), 
           NEW joined, Joins(joined, writes, size, Seq(S))
    PROVE  Captured(writes) = CutText(joined[size])
<1>1. size \in Nat /\ \A n \in 1..size : writes[n] \in Seq(S)
  BY LenProperties, ElementOfSeq
<1>2. ASSUME NEW n \in 1..size, NEW v \in Seq(S)
      PROVE  More(writes, n, v) \in Seq(S)
  <2>1. Len(v) \in Nat /\ Len(writes[n]) \in Nat /\ MaxResult \in Nat
    BY <1>1, LenProperties, RequestsAssumption
  <2>2. Fits(writes[n], v) \in Int /\ Fits(writes[n], v) <= Len(writes[n])
    BY <2>1 DEF Fits
  <2>3. \A i \in 1..Fits(writes[n], v) : i \in 1..Len(writes[n])
    BY <2>1, <2>2
  <2>4. \A i \in 1..Fits(writes[n], v) : writes[n][i] \in S
    BY <1>1, <2>3, ElementOfSeq
  <2>5. Prefix(writes[n], Fits(writes[n], v)) \in Seq(S)
    BY <2>2, <2>4, SubSeqProperties DEF Prefix
  <2> QED
    BY <2>5, ConcatProperties DEF More
<1>3. PICK some : Keeps(some, writes, size, Seq(S))
  <2>1. << >> \in Seq(S)
    BY EmptySeq
  <2>2. Capturable(Seq(S), writes, size)
    BY <1>1, <1>2, <2>1 DEF Capturable
  <2> QED
    BY <2>2, KeptWrites
<1> DEFINE Grow(k) ==
        [n \in 0..Len(writes) |->
            IF n = 0 THEN << >>
            ELSE LET room == MaxResult - Len(k[n - 1])
                 IN k[n - 1] \o Prefix(writes[n], IF Len(writes[n]) > room THEN room ELSE Len(writes[n]))]
           Grown(k) == [n \in 0..size |-> IF n = 0 THEN << >> ELSE More(writes, n, k[n - 1])]
           kept == CHOOSE k : k = Grow(k)
<1>4. \A k : Grow(k) = Grown(k)
  BY DEF More, Fits
<1>5. kept = Grow(kept)
  <2>1. some = Grown(some)
    BY <1>1, <1>3 DEF Keeps
  <2>2. some = Grow(some)
    BY <1>4, <2>1
  <2> HIDE DEF Grow, Grown
  <2> QED
    BY <2>2, Zenon
<1>6. Captured(writes) = kept[Len(writes)]
  BY Zenon DEF Captured
<1> HIDE DEF kept
<1>7. kept = Grown(kept)
  BY <1>4, <1>5
<1> HIDE DEF Grow
<1>8. kept[0] = << >> /\ \A n \in 1..size : kept[n] = More(writes, n, kept[n - 1])
  BY <1>1, <1>7
<1> HIDE DEF Grown
<1> DEFINE Agree == {n \in Nat : n <= size => kept[n] = CutText(joined[n])}
<1>9. 0 \in Agree
  <2>1. Len(<< >>) = 0 /\ << >> \in Seq(S)
    BY EmptySeq
  <2>2. CutText(<< >>) = Prefix(<< >>, 0)
    BY <2>1, RequestsAssumption DEF CutText
  <2>3. CutText(<< >>) = << >>
    BY <2>1, <2>2, PrefixWhole
  <2> QED
    BY <1>8, <2>3 DEF Joins
<1>10. ASSUME NEW n \in Nat, n \in Agree
       PROVE  n + 1 \in Agree
  <2>1. SUFFICES ASSUME n + 1 <= size
                 PROVE  kept[n + 1] = CutText(joined[n + 1])
    BY <1>10
  <2>2. n + 1 \in 1..size /\ (n + 1) - 1 = n /\ n \in 0..size /\ n <= size
    BY <1>1, <2>1
  <2>3. kept[n] = CutText(joined[n]) /\ joined[n] \in Seq(S) /\ writes[n + 1] \in Seq(S)
    BY <1>1, <1>10, <2>2 DEF Joins
  <2>4. kept[n + 1] = More(writes, n + 1, kept[n])
    BY <1>8, <2>2
  <2>5. joined[n + 1] = joined[n] \o writes[n + 1]
    BY <2>2 DEF Joins
  <2>6. CutText(joined[n]) \o Prefix(writes[n + 1], Fits(writes[n + 1], CutText(joined[n]))) = CutText(joined[n] \o writes[n + 1])
    BY <2>3, CutJoined
  <2>7. More(writes, n + 1, CutText(joined[n])) = CutText(joined[n] \o writes[n + 1])
    BY <2>6 DEF More
  <2> QED
    BY <2>3, <2>4, <2>5, <2>7
<1> HIDE DEF Agree
<1>11. Nat \subseteq Agree
  BY <1>9, <1>10, NatInduct
<1>12. size \in Agree
  BY <1>1, <1>11
<1>13. kept[size] = CutText(joined[size])
  BY <1>1, <1>12 DEF Agree
<1> QED
  BY <1>6, <1>13

LEMMA CapturedAnswer ==
    ASSUME NEW S, NEW writes \in Seq(Seq(S))
    PROVE  FlattenSeq(writes) \in Seq(S) /\ Captured(writes) = CutText(FlattenSeq(writes))
<1>1. Len(writes) \in Nat /\ \A n \in 1..Len(writes) : writes[n] \in Seq(S)
  BY LenProperties, ElementOfSeq
<1>2. \A n \in 1..Len(writes), v \in Seq(S) : v \o writes[n] \in Seq(S)
  BY <1>1, ConcatProperties
<1>3. Closed(Seq(S), writes, Len(writes))
  BY <1>1, <1>2, EmptySeq DEF Closed
<1>4. PICK joined : Joins(joined, writes, Len(writes), Seq(S))
  BY <1>3, JoinedWrites
<1>5. FlattenSeq(writes) = joined[Len(writes)]
  BY <1>4, FlattenedWrites
<1>6. Captured(writes) = CutText(joined[Len(writes)])
  BY <1>4, CapturedWrites
<1>7. joined[Len(writes)] \in Seq(S)
  BY <1>1, <1>4 DEF Joins
<1> QED
  BY <1>5, <1>6, <1>7

\* Text that has no more bytes than there is room for is cut where the last whole
\* character ends.
LEMMA TruncatedText ==
    ASSUME NEW S, NEW text \in Seq(S), Len(text) <= MaxResult
    PROVE  \E stop \in 0..Len(text) :
             /\ truncate(text, MaxResult) = Prefix(text, stop) /\ ValidString(Prefix(text, stop))
             /\ \A n \in 0..Len(text) : ValidString(Prefix(text, n)) => n <= stop
<1> DEFINE start == IF Len(text) > MaxResult THEN MaxResult ELSE Len(text)
           begins(n) == n = 0 \/ n >= Len(text) \/ text[n + 1] # "_"
           back == CHOOSE n \in 0..start : begins(n) /\ \A k \in (n + 1)..start : ~begins(k)
           stop == CHOOSE n \in 0..back : ValidString(Prefix(text, n))
                                          /\ \A k \in (n + 1)..back : ~ValidString(Prefix(text, k))
<1>1. truncate(text, MaxResult) = Prefix(text, stop)
  BY Zenon DEF truncate
<1>2. Len(text) \in Nat /\ MaxResult \in Nat /\ start = Len(text)
  BY LenProperties, RequestsAssumption
<1>3. back = Len(text)
  <2>1. begins(start) /\ start \in 0..start /\ (start + 1)..start = {}
    <3>1. start \in Nat /\ start >= Len(text)
      BY <1>2
    <3> HIDE DEF start
    <3>2. start \in 0..start /\ (start + 1)..start = {}
      BY <3>1
    <3>3. begins(start)
      BY <3>1
    <3> QED
      BY <3>2, <3>3
  <2>2. back \in 0..start /\ begins(back) /\ \A k \in (back + 1)..start : ~begins(k)
    <3> HIDE DEF begins, start
    <3>1. \E n \in 0..start : begins(n) /\ \A k \in (n + 1)..start : ~begins(k)
      BY <2>1
    <3> QED
      BY <3>1, Zenon
  <2> HIDE DEF begins, start, back
  <2>3. start \notin (back + 1)..start
    BY <2>1, <2>2
  <2> QED
    BY <1>2, <2>2, <2>3
<1> HIDE DEF back, begins, start
<1> DEFINE whole == {n \in 0..back : ValidString(Prefix(text, n))}
<1>4. stop \in 0..back /\ ValidString(Prefix(text, stop)) /\ \A k \in (stop + 1)..back : ~ValidString(Prefix(text, k))
  <2>1. 0 \in whole
    <3>1. Prefix(text, 0) = << >>
      BY PrefixWhole
    <3>2. DOMAIN << >> = {}
      OBVIOUS
    <3>3. ValidString(<< >>)
      BY <3>2 DEF ValidString
    <3>4. ValidString(Prefix(text, 0))
      BY <3>1, <3>3
    <3> QED
      BY <1>2, <1>3, <3>4
  <2>2. back \in Nat /\ whole \subseteq 0..back
    BY <1>2, <1>3
  <2> HIDE DEF whole
  <2>3. PICK most \in whole : \A n \in whole : n <= most
    BY <2>1, <2>2, NatMax
  <2> USE DEF whole
  <2>4. \A k \in (most + 1)..back : ~ValidString(Prefix(text, k))
    <3>1. ASSUME NEW k \in (most + 1)..back, ValidString(Prefix(text, k))
          PROVE  FALSE
      <4>1. most \in 0..back /\ k \in 0..back /\ ~ (k <= most)
        BY <2>2
      <4> QED
        BY <2>3, <3>1, <4>1
    <3> QED
      BY <3>1
  <2>5. \E n \in 0..back : ValidString(Prefix(text, n)) /\ \A k \in (n + 1)..back : ~ValidString(Prefix(text, k))
    BY <2>3, <2>4
  <2> QED
    BY <2>5, Zenon
<1> HIDE DEF stop
<1>5. ASSUME NEW n \in 0..Len(text), ValidString(Prefix(text, n))
      PROVE  n <= stop
  BY <1>2, <1>3, <1>4, <1>5
<1> QED
  BY <1>1, <1>3, <1>4, <1>5

\* What a record keeps of an answer.
LEMMA ResultKept ==
    ASSUME NEW S, NEW writes \in Seq(Seq(S))
    PROVE  \E answer, result :
             /\ answer = FlattenSeq(writes) /\ result = truncate(Captured(writes), MaxResult)
             /\ ValidString(result) /\ Len(result) <= MaxResult
             /\ result = Prefix(answer, Len(result))
             /\ \A n \in 0..Len(answer) : n <= MaxResult /\ ValidString(Prefix(answer, n)) => n <= Len(result)
             /\ Len(answer) <= MaxResult => Captured(writes) = answer
<1> DEFINE answer == FlattenSeq(writes)
           result == truncate(Captured(writes), MaxResult)
           text == CutText(answer)
<1>1. answer \in Seq(S) /\ Captured(writes) = text
  BY CapturedAnswer
<1>2. result = truncate(text, MaxResult)
  BY <1>1
<1> HIDE DEF answer, result
<1>3. /\ text \in Seq(S) /\ Len(text) <= MaxResult /\ Len(text) \in 0..Len(answer)
      /\ Len(text) = IF Len(answer) > MaxResult THEN MaxResult ELSE Len(answer)
      /\ text = Prefix(answer, Len(text))
  BY <1>1, CutFacts
<1> HIDE DEF text
<1>4. PICK stop \in 0..Len(text) :
             /\ truncate(text, MaxResult) = Prefix(text, stop) /\ ValidString(Prefix(text, stop))
             /\ \A n \in 0..Len(text) : ValidString(Prefix(text, n)) => n <= stop
  BY <1>3, TruncatedText
<1>5. Len(answer) \in Nat /\ Len(text) \in Nat /\ MaxResult \in Nat
  BY <1>1, <1>3, LenProperties, RequestsAssumption
<1>6. \A n \in 0..Len(text) : Prefix(text, n) = Prefix(answer, n)
  BY <1>1, <1>3, PrefixTwice
<1>7. result = Prefix(answer, stop) /\ Len(result) = stop /\ ValidString(result)
  <2>1. result = Prefix(text, stop) /\ Len(Prefix(text, stop)) = stop
    BY <1>2, <1>3, <1>4, PrefixFacts
  <2> QED
    BY <1>4, <1>6, <2>1
<1>8. ASSUME NEW n \in 0..Len(answer), n <= MaxResult, ValidString(Prefix(answer, n))
      PROVE  n <= stop
  <2>1. n \in 0..Len(text)
    BY <1>3, <1>5, <1>8
  <2>2. ValidString(Prefix(text, n))
    BY <1>6, <1>8, <2>1
  <2> QED
    BY <1>4, <2>1, <2>2
<1>9. Len(answer) <= MaxResult => text = answer
  <2>1. ASSUME Len(answer) <= MaxResult
        PROVE  text = answer
    <3>1. Len(text) = Len(answer)
      BY <1>3, <1>5, <2>1
    <3>2. text = Prefix(answer, Len(answer))
      BY <1>3, <3>1
    <3> QED
      BY <1>1, <3>2, PrefixWhole
  <2> QED
    BY <2>1
<1>10. stop <= MaxResult
  BY <1>3, <1>4, <1>5
<1> QED
  BY <1>1, <1>7, <1>8, <1>9, <1>10 DEF answer, result

-----------------------------------------------------------------------------
(* Requests.                                                               *)

RequestPlaces == {"idle", "check", "wait", "permission", "handler"}
RequestState ==
    {q \in [at: RequestPlaces, kind: {"create", "edit", "export"}, print: Prints \cup {Unsaid}] :
        (q.at = "check" => q.kind = "create") /\ (q.at = "wait" => q.kind = "export")}
AtWork(q) == q.kind = "export" /\ q.at \in {"permission", "handler"}
Exporting == {r \in Requests : AtWork(request[r])}

RequestsInv ==
    /\ request \in [Requests -> RequestState]
    /\ RequestsTypeOK /\ latest = letPast.print /\ letPast.times \in 0..1
    /\ RequestsSound

LEMMA NothingRecorded ==
    ASSUME record = NoRecord
    PROVE  RecordSound /\ ValidString(record.answer)
<1>1. /\ record.answer = << >> /\ record.fails = FALSE /\ record.secret = FALSE
      /\ record.log.result = << >> /\ record.log.fails = FALSE
  BY DEF NoRecord
<1>2. Len(<< >>) = 0 /\ DOMAIN << >> = {} /\ 0..0 = {0}
  OBVIOUS
<1>3. ValidString(<< >>)
  BY <1>2 DEF ValidString
<1>4. << >> = Prefix(<< >>, 0)
  BY PrefixWhole, EmptySeq
<1> QED
  BY <1>1, <1>2, <1>3, <1>4, RequestsAssumption DEF RecordSound

\* The record of an operation.
LEMMA RecordKept ==
    ASSUME NEW r \in Requests, NEW outcome \in Outcomes, OperLog(r, outcome)
    PROVE  RecordSound' /\ ValidString(record'.answer)
<1> DEFINE writes == IF request[r].kind = "export" /\ ~outcome.fails THEN << >> ELSE outcome.writes
           log == buildOperLog(writes, outcome.fails, outcome.body, outcome.secret)
           params == desensitizeBody(outcome.body, outcome.secret)
<1>1. writes \in Seq(Seq(Byte)) /\ ValidString(FlattenSeq(writes))
  <2>1. CASE request[r].kind = "export" /\ ~outcome.fails
    <3>1. << >> \in Seq(Seq(Byte)) /\ Len(<< >>) = 0
      BY EmptySeq
    <3>2. FlattenSeq(<< >>) = << >>
      BY <3>1 DEF FlattenSeq
    <3>3. DOMAIN << >> = {}
      OBVIOUS
    <3>4. ValidString(<< >>)
      BY <3>3 DEF ValidString
    <3> QED
      BY <2>1, <3>1, <3>2, <3>4
  <2>2. CASE ~ (request[r].kind = "export" /\ ~outcome.fails)
    BY <2>2, OutcomesAssumption
  <2> QED
    BY <2>1, <2>2
<1>2. PICK answer, result :
          /\ answer = FlattenSeq(writes) /\ result = truncate(Captured(writes), MaxResult)
          /\ ValidString(result) /\ Len(result) <= MaxResult
          /\ result = Prefix(answer, Len(result))
          /\ \A n \in 0..Len(answer) : n <= MaxResult /\ ValidString(Prefix(answer, n)) => n <= Len(result)
          /\ Len(answer) <= MaxResult => Captured(writes) = answer
  <2> HIDE DEF writes
  <2> QED
    BY <1>1, ResultKept
<1>3. record' = [answer |-> answer, fails |-> outcome.fails, secret |-> outcome.secret, log |-> log]
  BY <1>2 DEF OperLog
<1>4. log = [result |-> result, fails |-> extractCode(writes, outcome.fails), params |-> params]
  BY <1>2 DEF buildOperLog
<1> HIDE DEF writes, log
<1>5. /\ log.result = result /\ log.params = params
      /\ log.fails = (outcome.fails /\ Captured(writes) = answer)
  <2>1. log.result = result /\ log.params = params /\ log.fails = extractCode(writes, outcome.fails)
    BY <1>4, Zenon
  <2>2. extractCode(writes, outcome.fails) = (outcome.fails /\ Captured(writes) = answer)
    BY <1>2, Zenon DEF extractCode
  <2> QED
    BY <2>1, <2>2, Zenon
<1>6. /\ record'.answer = answer /\ record'.fails = outcome.fails /\ record'.secret = outcome.secret
      /\ record'.log = log
  BY <1>3, Zenon
<1>7. outcome.fails \in BOOLEAN /\ outcome.secret \in BOOLEAN
  BY OutcomesAssumption
<1>8. (record.log.fails => record.fails)'
  BY <1>5, <1>6, <1>7
<1>9. (record.fails /\ Len(record.answer) <= MaxResult => record.log.fails)'
  BY <1>2, <1>5, <1>6, <1>7
<1>10. (record.secret => record.log.params # "whole")'
  BY <1>5, <1>6, <1>7 DEF desensitizeBody
<1> HIDE DEF params
<1> QED
  BY <1>1, <1>2, <1>5, <1>6, <1>8, <1>9, <1>10 DEF RecordSound

\* A request moves, and takes a slot, gives it back or does neither.
LEMMA SlotsMove ==
    ASSUME RequestsInv, NEW r \in Requests, NEW to \in RequestState, request' = [request EXCEPT ![r] = to],
           \/ AtWork(to) /\ AtWork(request[r]) /\ exportSlots' = exportSlots
           \/ AtWork(to) /\ ~AtWork(request[r]) /\ exportSlots' = exportSlots + 1 /\ exportSlots < MaxExports
           \/ ~AtWork(to) /\ AtWork(request[r]) /\ exportSlots' = exportSlots - 1
           \/ ~AtWork(to) /\ ~AtWork(request[r]) /\ exportSlots' = exportSlots
    PROVE  /\ request' \in [Requests -> RequestState] /\ SlotsKept' /\ exportSlots' \in 0..MaxExports
           /\ \A q \in Requests : /\ request'[q].at \in RequestPlaces /\ request'[q].kind \in {"create", "edit", "export"}
                                  /\ request'[q].print \in Prints \cup {Unsaid}
<1>1. request' \in [Requests -> RequestState] /\ request'[r] = to /\ \A q \in Requests : q # r => request'[q] = request[q]
  BY DEF RequestsInv
<1>2. Exporting \ {r} = Exporting' \ {r} /\ (r \in Exporting <=> AtWork(request[r])) /\ (r \in Exporting' <=> AtWork(to))
  BY <1>1 DEF Exporting
<1>3. IsFiniteSet(Exporting)
  <2>1. Exporting \subseteq Requests
    BY DEF Exporting
  <2> QED
    BY <2>1, RequestsAssumption, FS_Subset
<1>4. /\ Cardinality(Exporting \ {r}) \in Nat
      /\ Cardinality(Exporting) = Cardinality(Exporting \ {r}) + (IF r \in Exporting THEN 1 ELSE 0)
      /\ Cardinality(Exporting') = Cardinality(Exporting \ {r}) + (IF r \in Exporting' THEN 1 ELSE 0)
  BY <1>2, <1>3, OneMoves
<1>5. exportSlots = Cardinality(Exporting) /\ exportSlots \in 0..MaxExports /\ MaxExports \in Nat
  BY RequestsAssumption DEF RequestsInv, RequestsTypeOK, RequestsSound, SlotsKept, Exporting, AtWork
<1> DEFINE others == Cardinality(Exporting \ {r})
<1>6. exportSlots' = Cardinality(Exporting') /\ exportSlots' \in 0..MaxExports
  <2>1. CASE AtWork(to) /\ AtWork(request[r]) /\ exportSlots' = exportSlots
    <3>1. Cardinality(Exporting) = others + 1 /\ Cardinality(Exporting') = others + 1
      BY <1>2, <1>4, <2>1
    <3> QED
      BY <1>5, <2>1, <3>1
  <2>2. CASE AtWork(to) /\ ~AtWork(request[r]) /\ exportSlots' = exportSlots + 1 /\ exportSlots < MaxExports
    <3>1. Cardinality(Exporting) = others /\ Cardinality(Exporting') = others + 1
      BY <1>2, <1>4, <2>2
    <3> QED
      BY <1>5, <2>2, <3>1
  <2>3. CASE ~AtWork(to) /\ AtWork(request[r]) /\ exportSlots' = exportSlots - 1
    <3>1. Cardinality(Exporting) = others + 1 /\ Cardinality(Exporting') = others /\ others \in Nat
      BY <1>2, <1>4, <2>3
    <3> HIDE DEF others
    <3> QED
      BY <1>5, <2>3, <3>1
  <2>4. CASE ~AtWork(to) /\ ~AtWork(request[r]) /\ exportSlots' = exportSlots
    <3>1. Cardinality(Exporting) = others /\ Cardinality(Exporting') = others
      BY <1>2, <1>4, <2>4
    <3> QED
      BY <1>5, <2>4, <3>1
  <2> QED
    BY <2>1, <2>2, <2>3, <2>4
<1>7. SlotsKept'
  BY <1>6 DEF SlotsKept, Exporting, AtWork
<1>8. \A q \in Requests : /\ request'[q].at \in RequestPlaces /\ request'[q].kind \in {"create", "edit", "export"}
                          /\ request'[q].print \in Prints \cup {Unsaid}
  BY <1>1 DEF RequestState
<1> QED
  BY <1>1, <1>6, <1>7, <1>8

LEMMA RequestsStart ==
    ASSUME RequestsInit
    PROVE  RequestsInv
<1>1. latest = Unsaid /\ letPast = Nothing /\ exportSlots = 0 /\ record = NoRecord
      /\ request = [r \in Requests |-> NoRequest]
  BY DEF RequestsInit
<1>2. NoRequest \in RequestState /\ NoRequest.at = "idle" /\ NoRequest.kind = "edit"
      /\ NoRequest.print = Unsaid
  BY DEF NoRequest, RequestState, RequestPlaces
<1>3. letPast.print = Unsaid /\ letPast.times = 0
  BY <1>1 DEF Nothing
<1>4. \A r \in Requests : request[r] = NoRequest
  BY <1>1
<1>5. {r \in Requests : request[r].kind = "export" /\ request[r].at \in {"permission", "handler"}} = {}
  BY <1>2, <1>4
<1>6. Cardinality({}) = 0
  BY FS_EmptySet
<1>7. SlotsKept
  BY <1>1, <1>5, <1>6 DEF SlotsKept
<1>8. request \in [Requests -> RequestState]
  BY <1>1, <1>2
<1>9. RequestsTypeOK
  BY <1>1, <1>2, <1>3, <1>4, NothingRecorded, RequestsAssumption DEF RequestsTypeOK
<1> QED
  BY <1>1, <1>3, <1>7, <1>8, <1>9, NothingRecorded DEF RequestsInv, RequestsSound, RepeatsRefused

\* A request that goes elsewhere, and one that ends.
LEMMA RequestSteps ==
    ASSUME RequestsInv, NEW r \in Requests
    PROVE  /\ \A place \in {"permission", "handler"} : RequestGoes(r, place) =>
                \E to \in RequestState : /\ request' = [request EXCEPT ![r] = to] /\ to.at = place
                                         /\ to.kind = request[r].kind
           /\ EndRequest(r) => \E to \in RequestState : request' = [request EXCEPT ![r] = to] /\ ~AtWork(to)
<1>1. ASSUME NEW place \in {"permission", "handler"}, RequestGoes(r, place)
      PROVE  \E to \in RequestState : /\ request' = [request EXCEPT ![r] = to] /\ to.at = place
                                      /\ to.kind = request[r].kind
  <2> DEFINE to == [request[r] EXCEPT !.at = place]
  <2>1. request[r] \in RequestState
    BY DEF RequestsInv
  <2>2. to \in RequestState /\ to.at = place /\ to.kind = request[r].kind
    BY <2>1 DEF RequestState, RequestPlaces
  <2>3. request' = [request EXCEPT ![r] = to]
    BY <1>1 DEF RequestGoes
  <2> HIDE DEF to
  <2> QED
    BY <2>2, <2>3
<1>2. ASSUME EndRequest(r)
      PROVE  \E to \in RequestState : request' = [request EXCEPT ![r] = to] /\ ~AtWork(to)
  <2>1. NoRequest \in RequestState /\ ~AtWork(NoRequest)
    BY DEF NoRequest, RequestState, RequestPlaces, AtWork
  <2> QED
    BY <1>2, <2>1 DEF EndRequest
<1> QED
  BY <1>1, <1>2

\* What holds of fingerprints and records carries over.
LEMMA RequestsRest ==
    ASSUME RequestsInv, SlotsKept', request' \in [Requests -> RequestState], exportSlots' \in 0..MaxExports,
           \A q \in Requests : /\ request'[q].at \in RequestPlaces /\ request'[q].kind \in {"create", "edit", "export"}
                               /\ request'[q].print \in Prints \cup {Unsaid},
           latest' \in Prints \cup {Unsaid}, letPast'.print = latest', letPast'.times \in 0..1,
           RecordSound', ValidString(record'.answer)
    PROVE  RequestsInv'
<1>1. RequestsTypeOK'
  BY DEF RequestsTypeOK, RequestPlaces
<1>2. RepeatsRefused'
  BY DEF RepeatsRefused
<1> QED
  BY <1>1, <1>2 DEF RequestsInv, RequestsSound

LEMMA NoRecordNext ==
    ASSUME record' = NoRecord
    PROVE  RecordSound' /\ ValidString(record'.answer)
<1>1. record' = NoRecord => RecordSound' /\ ValidString(record'.answer)
  <2>1. (record = NoRecord => RecordSound /\ ValidString(record.answer))'
    BY NothingRecorded, PTL
  <2> QED
    BY <2>1 DEF NoRecord
<1> QED
  BY <1>1

\* A request moves without a slot or a fingerprint being taken.
LEMMA RequestElsewhere ==
    ASSUME RequestsInv, NEW r \in Requests, NEW to \in RequestState, request' = [request EXCEPT ![r] = to],
           AtWork(to) <=> AtWork(request[r]), record' = NoRecord, exportSlots' = exportSlots,
           latest' \in Prints \cup {Unsaid}, letPast'.print = latest', letPast'.times \in 0..1
    PROVE  RequestsInv'
<1>1. \/ AtWork(to) /\ AtWork(request[r])
      \/ ~AtWork(to) /\ ~AtWork(request[r])
  OBVIOUS
<1> QED
  BY <1>1, SlotsMove, RequestsRest, NoRecordNext

LEMMA PrintsTyped ==
    ASSUME RequestsInv
    PROVE  /\ latest \in Prints \cup {Unsaid} /\ latest = letPast.print /\ letPast.times \in 0..1
           /\ \A r \in Requests : request[r] \in RequestState /\ request[r].print \in Prints \cup {Unsaid}
BY DEF RequestsInv, RequestsTypeOK, RequestState

LEMMA ArriveKeeps ==
    ASSUME RequestsInv, NEW r \in Requests, NEW kind \in {"create", "edit", "export"},
           NEW print \in Prints \cup {Unsaid}, Arrive(r, kind, print)
    PROVE  RequestsInv'
<1> DEFINE place == CASE kind = "create" -> "check" [] kind = "export" -> "wait" [] OTHER -> "permission"
           to == [kind |-> kind, print |-> print, at |-> place]
<1>1. to \in RequestState /\ ~AtWork(to)
  BY DEF RequestState, RequestPlaces, AtWork
<1>2. /\ request' = [request EXCEPT ![r] = to] /\ request[r].at = "idle" /\ record' = NoRecord
      /\ UNCHANGED <<latest, letPast, exportSlots>>
  BY DEF Arrive, RequestAt
<1> HIDE DEF to
<1>3. ~AtWork(request[r])
  BY <1>2 DEF AtWork
<1>4. AtWork(to) <=> AtWork(request[r])
  BY <1>1, <1>3 DEF AtWork
<1> QED
  BY <1>1, <1>2, <1>4, PrintsTyped, RequestElsewhere

LEMMA RepeatSubmitKeeps ==
    ASSUME RequestsInv, NEW r \in Requests, RepeatSubmit(r)
    PROVE  RequestsInv'
<1> DEFINE print == request[r].print
<1>1. request[r].at = "check" /\ record' = NoRecord /\ UNCHANGED exportSlots /\ ~AtWork(request[r])
  BY DEF RepeatSubmit, RequestAt, AtWork
<1>2. EndRequest(r) \/ RequestGoes(r, "permission")
  BY DEF RepeatSubmit
<1>3. latest' \in Prints \cup {Unsaid} /\ letPast'.print = latest' /\ letPast'.times \in 0..1
  <2>1. CASE UNCHANGED <<latest, letPast>>
    BY <2>1, PrintsTyped
  <2>2. CASE /\ latest # print /\ latest' = print
             /\ letPast' = [print |-> print, times |-> IF letPast.print = print THEN letPast.times + 1 ELSE 1]
    <3>1. letPast' = [print |-> print, times |-> 1]
      BY <2>2, PrintsTyped
    <3> QED
      BY <2>2, <3>1, PrintsTyped
  <2> QED
    BY <2>1, <2>2 DEF RepeatSubmit
<1>4. ASSUME NEW to \in RequestState, request' = [request EXCEPT ![r] = to], ~AtWork(to)
      PROVE  RequestsInv'
  <2>1. AtWork(to) <=> AtWork(request[r])
    BY <1>1, <1>4 DEF AtWork
  <2> QED
    BY <1>1, <1>3, <1>4, <2>1, RequestElsewhere
<1>5. CASE EndRequest(r)
  BY <1>4, <1>5, RequestSteps
<1>6. CASE RequestGoes(r, "permission")
  <2>1. PICK to \in RequestState : request' = [request EXCEPT ![r] = to] /\ to.kind = request[r].kind
    BY <1>6, RequestSteps
  <2>2. request[r].kind = "create"
    BY <1>1, PrintsTyped DEF RequestState
  <2>3. ~AtWork(to)
    BY <2>1, <2>2 DEF AtWork
  <2> QED
    BY <1>4, <2>1, <2>3
<1> QED
  BY <1>2, <1>5, <1>6

LEMMA TakeSlotKeeps ==
    ASSUME RequestsInv, NEW r \in Requests, TakeSlot(r)
    PROVE  RequestsInv'
<1>1. /\ request[r].at = "wait" /\ exportSlots < MaxExports /\ exportSlots' = exportSlots + 1
      /\ RequestGoes(r, "permission") /\ record' = NoRecord /\ UNCHANGED <<latest, letPast>>
  BY DEF TakeSlot, RequestAt
<1>2. PICK to \in RequestState : /\ request' = [request EXCEPT ![r] = to] /\ to.at = "permission"
                                 /\ to.kind = request[r].kind
  BY <1>1, RequestSteps
<1>3. AtWork(to) /\ ~AtWork(request[r])
  BY <1>1, <1>2, PrintsTyped DEF AtWork, RequestState
<1> QED
  BY <1>1, <1>2, <1>3, SlotsMove, PrintsTyped, RequestsRest, NoRecordNext

LEMMA StopWaitingKeeps ==
    ASSUME RequestsInv, NEW r \in Requests, StopWaiting(r)
    PROVE  RequestsInv'
<1>1. /\ request[r].at = "wait" /\ EndRequest(r) /\ record' = NoRecord
      /\ UNCHANGED <<latest, letPast, exportSlots>>
  BY DEF StopWaiting, RequestAt
<1>2. PICK to \in RequestState : request' = [request EXCEPT ![r] = to] /\ ~AtWork(to)
  BY <1>1, RequestSteps
<1>3. AtWork(to) <=> AtWork(request[r])
  BY <1>1, <1>2 DEF AtWork
<1> QED
  BY <1>1, <1>2, <1>3, PrintsTyped, RequestElsewhere

\* A request that has passed everything ends, and gives back its slot if it has one.
LEMMA EndKeeps ==
    ASSUME RequestsInv, NEW r \in Requests, request[r].at \in {"permission", "handler"}, EndRequest(r),
           exportSlots' = Released(r), UNCHANGED <<latest, letPast>>, RecordSound', ValidString(record'.answer)
    PROVE  RequestsInv'
<1>1. PICK to \in RequestState : request' = [request EXCEPT ![r] = to] /\ ~AtWork(to)
  BY RequestSteps
<1>2. \/ AtWork(request[r]) /\ exportSlots' = exportSlots - 1
      \/ ~AtWork(request[r]) /\ exportSlots' = exportSlots
  BY DEF Released, AtWork
<1> QED
  BY <1>1, <1>2, SlotsMove, PrintsTyped, RequestsRest

LEMMA HasPermissionKeeps ==
    ASSUME RequestsInv, NEW r \in Requests, HasPermission(r)
    PROVE  RequestsInv'
<1>1. /\ request[r].at = "permission" /\ record' = NoRecord /\ UNCHANGED <<latest, letPast>>
      /\ \/ RequestGoes(r, "handler") /\ UNCHANGED exportSlots
         \/ EndRequest(r) /\ exportSlots' = Released(r)
  BY DEF HasPermission, RequestAt
<1>2. CASE RequestGoes(r, "handler") /\ UNCHANGED exportSlots
  <2>1. PICK to \in RequestState : /\ request' = [request EXCEPT ![r] = to] /\ to.at = "handler"
                                   /\ to.kind = request[r].kind
    BY <1>2, RequestSteps
  <2>2. AtWork(to) <=> AtWork(request[r])
    BY <1>1, <2>1 DEF AtWork
  <2> QED
    BY <1>1, <1>2, <2>1, <2>2, PrintsTyped, RequestElsewhere
<1>3. CASE EndRequest(r) /\ exportSlots' = Released(r)
  BY <1>1, <1>3, EndKeeps, NoRecordNext
<1> QED
  BY <1>1, <1>2, <1>3

LEMMA ForgetPrintKeeps ==
    ASSUME RequestsInv, ForgetPrint
    PROVE  RequestsInv'
<1>1. /\ latest' = Unsaid /\ letPast' = Nothing /\ record' = NoRecord /\ UNCHANGED <<exportSlots, request>>
  BY DEF ForgetPrint
<1>2. letPast'.print = Unsaid /\ letPast'.times = 0
  BY <1>1 DEF Nothing
<1>3. SlotsKept' /\ request' \in [Requests -> RequestState] /\ exportSlots' \in 0..MaxExports
  BY <1>1 DEF RequestsInv, RequestsSound, SlotsKept, RequestsTypeOK
<1>4. \A q \in Requests : /\ request'[q].at \in RequestPlaces /\ request'[q].kind \in {"create", "edit", "export"}
                          /\ request'[q].print \in Prints \cup {Unsaid}
  BY <1>1, PrintsTyped DEF RequestState
<1> QED
  BY <1>1, <1>2, <1>3, <1>4, RequestsRest, NoRecordNext

LEMMA RequestsNextKeeps ==
    ASSUME RequestsInv, [RequestsNext]_requestVars
    PROVE  RequestsInv'
<1>1. CASE UNCHANGED requestVars
  <2>1. UNCHANGED <<latest, letPast, exportSlots, request, record>>
    BY <1>1 DEF requestVars
  <2>2. RequestsTypeOK'
    BY <2>1 DEF RequestsInv, RequestsTypeOK
  <2>3. SlotsKept'
    BY <2>1 DEF RequestsInv, RequestsSound, SlotsKept
  <2>4. RecordSound'
    BY <2>1 DEF RequestsInv, RequestsSound, RecordSound
  <2> QED
    BY <2>1, <2>2, <2>3, <2>4 DEF RequestsInv, RequestsSound, RepeatsRefused
<1>2. ASSUME NEW r \in Requests, NEW outcome \in Outcomes, OperLog(r, outcome)
      PROVE  RequestsInv'
  <2>1. /\ request[r].at = "handler" /\ EndRequest(r) /\ exportSlots' = Released(r)
        /\ UNCHANGED <<latest, letPast>>
    BY <1>2 DEF OperLog, RequestAt
  <2>2. RecordSound' /\ ValidString(record'.answer)
    BY <1>2, RecordKept
  <2> QED
    BY <2>1, <2>2, EndKeeps
<1>3. ASSUME NEW r \in Requests, Recovery(r)
      PROVE  RequestsInv'
  <2>1. /\ request[r].at = "handler" /\ EndRequest(r) /\ exportSlots' = Released(r)
        /\ UNCHANGED <<latest, letPast>> /\ record' = NoRecord
    BY <1>3 DEF Recovery, RequestAt
  <2> QED
    BY <2>1, NoRecordNext, EndKeeps
<1>4. CASE RequestsNext
  BY <1>2, <1>3, <1>4, ArriveKeeps, RepeatSubmitKeeps, TakeSlotKeeps, StopWaitingKeeps, HasPermissionKeeps,
     ForgetPrintKeeps DEF RequestsNext
<1> QED
  BY <1>1, <1>4

\* Slots of exports, fingerprints and records are well-formed.
THEOREM RequestsTypeCorrect == RequestsSpec => []RequestsTypeOK
<1>1. RequestsInit => RequestsInv
  BY RequestsStart
<1>2. RequestsInv /\ [RequestsNext]_requestVars => RequestsInv'
  BY RequestsNextKeeps
<1>3. RequestsInv => RequestsTypeOK
  BY DEF RequestsInv
<1> QED
  BY <1>1, <1>2, <1>3, PTL DEF RequestsSpec

\* As many slots are taken as exports are at work, no request to create is let
\* through twice in a row, and a record is the longest text of the answer there is
\* room for (exportlimit.go:29, repeatsubmit.go:44, operlog.go:140).
THEOREM RequestsAlwaysSound == RequestsSpec => []RequestsSound
<1>1. RequestsInit => RequestsInv
  BY RequestsStart
<1>2. RequestsInv /\ [RequestsNext]_requestVars => RequestsInv'
  BY RequestsNextKeeps
<1>3. RequestsInv => RequestsSound
  BY DEF RequestsInv
<1> QED
  BY <1>1, <1>2, <1>3, PTL DEF RequestsSpec

-----------------------------------------------------------------------------
\* A finite set put in some order: each position holds one of its elements,
\* each element has one position.
LEMMA OrderIsBijection ==
    ASSUME NEW S, IsFiniteSet(S)
    PROVE  /\ Cardinality(S) \in Nat
           /\ SetToSeq(S) \in [1..Cardinality(S) -> S]
           /\ IsInjective(SetToSeq(S))
           /\ \A x \in S : \E i \in 1..Cardinality(S) : SetToSeq(S)[i] = x
<1> DEFINE n == Cardinality(S)
           inOrder == SetToSeq(S)
<1>1. n \in Nat /\ ExistsBijection(1..n, S)
  BY FS_CardinalityType
<1>2. \E f \in [1..n -> S] : IsInjective(f)
  BY <1>1 DEF ExistsBijection, Bijection, Injection, IsInjective
<1>3. inOrder \in [1..n -> S] /\ IsInjective(inOrder)
  BY <1>2 DEF SetToSeq
<1>4. inOrder \in Injection(1..n, S)
  BY <1>3 DEF Injection
<1>5. Cardinality(1..n) = n
  BY <1>1, FS_Interval
<1>6. inOrder \in Surjection(1..n, S)
  <2> HIDE DEF inOrder, n
  <2>1. Cardinality(1..n) = Cardinality(S)
    BY <1>5 DEF n
  <2> QED
    BY <1>4, <2>1, FS_Injection
<1> QED
  BY <1>1, <1>3, <1>6 DEF Surjection

\* A set in some order.
LEMMA EnumerationIs ==
    ASSUME NEW S, IsFiniteSet(S), NEW s \in SetToSeqs(S)
    PROVE  /\ s \in Seq(S) /\ ToSet(s) = S
           /\ Len(s) = Cardinality(S) /\ DOMAIN s = 1..Cardinality(S) /\ Cardinality(S) \in Nat
           /\ \A i \in 1..Cardinality(S) : s[i] \in S
<1> DEFINE n == Cardinality(S)
<1>1. n \in Nat
  BY FS_CardinalityType
<1>2. s \in [1..n -> S] /\ \A i, j \in 1..n : i # j => s[i] # s[j]
  BY DEF SetToSeqs
<1> HIDE DEF n
<1>3. s \in Seq(S) /\ Len(s) = n /\ DOMAIN s = 1..n
  BY <1>1, <1>2
<1>4. s \in Injection(1..n, S)
  BY <1>2 DEF Injection, IsInjective
<1>5. Cardinality(1..n) = n
  BY <1>1, FS_Interval
<1>6. s \in Surjection(1..n, S)
  <2>1. Cardinality(1..n) = Cardinality(S)
    BY <1>5 DEF n
  <2> QED
    BY <1>4, <2>1, FS_Injection
<1>7. ToSet(s) = S
  BY <1>2, <1>3, <1>6 DEF Surjection, ToSet
<1> QED
  BY <1>1, <1>2, <1>3, <1>7 DEF n

-----------------------------------------------------------------------------
(***************************************************************************)
(* The online users (OnlineUsers).  As long as nothing is cut off, whoever  *)
(* was there all the time and has been returned is on the list, or about    *)
(* to be read; and cutting what is in order into pages loses nothing.       *)
(***************************************************************************)
\* Cutting a sequence into pages and joining them gives it back.
PageOf(s, n, size) ==
    LET offset == (n - 1) * size
    IN SubSeq(s, offset + 1, IF offset + size > Len(s) THEN Len(s) ELSE offset + size)

Least(a, b) == IF a > b THEN b ELSE a

LEMMA PageCount ==
    ASSUME NEW len \in Nat, NEW size \in Nat \ {0}, NEW n \in Nat, n = (len + size - 1) \div size
    PROVE  n * size >= len /\ (n > 0 => (n - 1) * size < len)
<1>1. len + size - 1 \in Nat
  OBVIOUS
<1>2. size * n <= len + size - 1 /\ len + size - 1 < size * n + size
  BY <1>1, SMT
<1> QED
  BY <1>2, SMT

LEMMA OnePageOn ==
    ASSUME NEW S, NEW s \in Seq(S), NEW size \in Nat \ {0}, NEW n \in Nat \ {0}, (n - 1) * size <= Len(s)
    PROVE  /\ PageOf(s, n, size) \in Seq(S)
           /\ SubSeq(s, 1, (n - 1) * size) \o PageOf(s, n, size) = SubSeq(s, 1, Least(n * size, Len(s)))
           /\ n = 1 => PageOf(s, n, size) = SubSeq(s, 1, Least(n * size, Len(s)))
<1> DEFINE k == (n - 1) * size
           m == Least(n * size, Len(s))
<1>1. k \in Nat /\ n * size = k + size /\ Len(s) \in Nat /\ n * size \in Nat
  BY SMT
<1>2. m \in k..Len(s)
  BY <1>1 DEF Least
<1>3. PageOf(s, n, size) = SubSeq(s, k + 1, m)
  BY <1>1 DEF PageOf, Least
<1>4. n = 1 => k = 0
  OBVIOUS
<1> HIDE DEF k, m
<1>5. SubSeq(s, 1, k) \o SubSeq(s, k + 1, m) = SubSeq(s, 1, m)
  <2>1. 1 \in 1..Len(s) + 1 /\ k \in 1 - 1..Len(s) /\ m \in k..Len(s)
    BY <1>1, <1>2
  <2> QED
    BY <2>1, ConcatAdjacentSubSeq
<1>6. SubSeq(s, k + 1, m) \in Seq(S)
  <2>1. \A i \in (k + 1)..m : s[i] \in S
    BY <1>1, <1>2
  <2>2. k + 1 \in Int /\ m \in Int
    BY <1>1, <1>2
  <2> QED
    BY <2>1, <2>2, SubSeqProperties
<1> QED
  BY <1>3, <1>4, <1>5, <1>6 DEF k, m

LEMMA PagesJoin ==
    ASSUME NEW S, NEW s \in Seq(S), NEW size \in Nat \ {0}, NEW last \in Nat,
           last * size >= Len(s), last > 0 => (last - 1) * size < Len(s)
    PROVE  FlattenSeq([n \in 1..last |-> PageOf(s, n, size)]) = s
<1> DEFINE pages == [n \in 1..last |-> PageOf(s, n, size)]
           Upto(n) == SubSeq(s, 1, Least(n * size, Len(s)))
           Cumulative(f) == f = [n \in 1..last |-> IF n = 1 THEN pages[n] ELSE f[n - 1] \o pages[n]]
           upto == [n \in 1..last |-> Upto(n)]
           flatten == CHOOSE f : Cumulative(f)
<1>1. \A n \in 1..last : (n - 1) * size < Len(s)
  <2> TAKE n \in 1..last
  <2>1. n - 1 <= last - 1 /\ n - 1 \in Nat /\ last - 1 \in Nat /\ Len(s) \in Nat
    OBVIOUS
  <2>2. (n - 1) * size <= (last - 1) * size
    BY <2>1, SMT
  <2>3. (n - 1) * size \in Int /\ (last - 1) * size \in Int
    BY <2>1, SMT
  <2> QED
    BY <2>1, <2>2, <2>3
<1>2. ASSUME NEW n \in 1..last
      PROVE  /\ n = 1 => pages[n] = Upto(n)
             /\ n > 1 => /\ Upto(n - 1) = SubSeq(s, 1, (n - 1) * size)
                         /\ Upto(n - 1) \o pages[n] = Upto(n)
             /\ pages[n] \in Seq(S)
  <2>1. (n - 1) * size < Len(s) /\ (n - 1) * size \in Int /\ Len(s) \in Nat
    BY <1>1, SMT
  <2>2. Least((n - 1) * size, Len(s)) = (n - 1) * size
    BY <2>1 DEF Least
  <2>3. n \in Nat \ {0} /\ (n - 1) * size <= Len(s)
    BY <2>1
  <2> QED
    BY <2>2, <2>3, OnePageOn
<1>3. Cumulative(upto)
  <2>1. ASSUME NEW n \in 1..last
        PROVE  upto[n] = IF n = 1 THEN pages[n] ELSE upto[n - 1] \o pages[n]
    <3>1. CASE n = 1
      BY <1>2, <3>1
    <3>2. CASE n # 1
      <4>1. n > 1 /\ n - 1 \in 1..last
        BY <3>2
      <4> HIDE DEF pages, Upto
      <4>2. upto[n - 1] = Upto(n - 1) /\ upto[n] = Upto(n)
        BY <4>1
      <4> QED
        BY <1>2, <3>2, <4>1, <4>2
    <3> QED
      BY <3>1, <3>2
  <2> HIDE DEF pages, Upto
  <2> QED
    BY <2>1
<1>4. Cumulative(flatten)
  <2>1. \E f : Cumulative(f)
    BY <1>3
  <2> HIDE DEF Cumulative
  <2> QED
    BY <2>1, Zenon
<1>5. ASSUME NEW n \in Nat, n \in 1..last => flatten[n] = Upto(n), n + 1 \in 1..last
      PROVE  flatten[n + 1] = Upto(n + 1)
  <2> DEFINE k == n + 1
  <2>1. k \in 1..last /\ k - 1 = n
    BY <1>5
  <2> HIDE DEF k
  <2>2. flatten[k] = IF k = 1 THEN pages[k] ELSE flatten[k - 1] \o pages[k]
    <3> HIDE DEF pages, flatten
    <3>1. \A m \in 1..last : flatten[m] = IF m = 1 THEN pages[m] ELSE flatten[m - 1] \o pages[m]
      BY <1>4
    <3> QED
      BY <2>1, <3>1
  <2>3. /\ k = 1 => pages[k] = Upto(k)
        /\ k > 1 => Upto(k - 1) \o pages[k] = Upto(k)
    <3> HIDE DEF pages, Upto
    <3> QED
      BY <1>2, <2>1
  <2>4. k # 1 => k > 1 /\ flatten[k - 1] = Upto(k - 1)
    <3>1. k # 1 => k > 1 /\ n \in 1..last
      BY <2>1
    <3> HIDE DEF pages, Upto, flatten
    <3> QED
      BY <1>5, <2>1, <3>1
  <2>5. flatten[k] = Upto(k)
    <3> HIDE DEF pages, Upto, flatten
    <3> QED
      BY <2>2, <2>3, <2>4
  <2> QED
    BY <2>5 DEF k
<1>6. \A n \in 1..last : flatten[n] = Upto(n)
  <2> DEFINE Right == {n \in Nat : n \in 1..last => flatten[n] = Upto(n)}
  <2> HIDE DEF pages, Upto, flatten
  <2>1. 0 \in Right
    OBVIOUS
  <2>2. \A n \in Nat : n \in Right => n + 1 \in Right
    BY <1>5
  <2> HIDE DEF Right
  <2>3. Nat \subseteq Right
    BY <2>1, <2>2, NatInduct
  <2> QED
    BY <2>3 DEF Right
<1>7. Len(pages) = last
  OBVIOUS
<1>8. CASE last = 0
  <2>1. Len(s) = 0
    <3>1. last * size = 0
      BY <1>8, SMT
    <3> QED
      BY <3>1
  <2>2. s = << >> /\ pages = << >>
    BY <1>8, <2>1
  <2> QED
    BY <1>7, <1>8, <2>2 DEF FlattenSeq
<1>9. CASE last # 0
  <2>1. FlattenSeq(pages) = flatten[last]
    BY <1>7, <1>9 DEF FlattenSeq
  <2>2. last \in 1..last
    BY <1>9
  <2>3. Least(last * size, Len(s)) = Len(s)
    <3>1. last * size \in Int /\ Len(s) \in Nat
      BY SMT
    <3> QED
      BY <3>1 DEF Least
  <2> HIDE DEF pages, flatten
  <2>4. FlattenSeq(pages) = SubSeq(s, 1, Len(s))
    BY <1>6, <2>1, <2>2, <2>3
  <2> QED
    BY <2>4, SubSeqFull DEF pages
<1> QED
  BY <1>8, <1>9

\* Putting a sequence in order changes neither its length nor where it is defined.
LEMMA InOrderIs ==
    ASSUME NEW s, Len(s) \in Nat
    PROVE  \E S : newestFirst(s) \in Seq(S) /\ Len(newestFirst(s)) = Len(s)
<1> DEFINE at(k) == CHOOSE x \in ToSet(s) : /\ Cardinality({i \in DOMAIN s : s[i] < x}) < k
                                            /\ Cardinality({i \in DOMAIN s : s[i] <= x}) >= k
           sorted == newestFirst(s)
           S == {at(k) : k \in 1..Len(s)}
<1>1. sorted = [k \in 1..Len(s) |-> at(k)]
  BY DEF newestFirst
<1> HIDE DEF sorted, at
<1>2. sorted \in [1..Len(s) -> S]
  BY <1>1
<1>3. sorted \in Seq(S) /\ Len(sorted) = Len(s)
  BY <1>2
<1> QED
  BY <1>3 DEF sorted

\* sort.Slice: what newestFirst finds is in order, and everything as often as before.
Fewer(s, x) == {i \in DOMAIN s : s[i] < x}
NoMore(s, x) == {i \in DOMAIN s : s[i] <= x}

LEMMA CountsRise ==
    ASSUME NEW s \in Seq(Int), NEW x \in Int, NEW y \in Int
    PROVE  /\ Cardinality(Fewer(s, x)) \in Nat /\ Cardinality(NoMore(s, x)) \in Nat
           /\ Cardinality(Fewer(s, x)) <= Cardinality(NoMore(s, x))
           /\ Cardinality({i \in DOMAIN s : s[i] = x}) = Cardinality(NoMore(s, x)) - Cardinality(Fewer(s, x))
           /\ x < y => Cardinality(NoMore(s, x)) <= Cardinality(Fewer(s, y))
           /\ Cardinality(NoMore(s, x)) <= Len(s)
<1> DEFINE same == {i \in DOMAIN s : s[i] = x}
<1>1. Len(s) \in Nat /\ DOMAIN s = 1..Len(s) /\ \A i \in DOMAIN s : s[i] \in Int
  OBVIOUS
<1>2. IsFiniteSet(DOMAIN s) /\ Cardinality(DOMAIN s) = Len(s)
  BY <1>1, FS_Interval
<1>3. /\ Fewer(s, x) \subseteq DOMAIN s /\ NoMore(s, x) \subseteq DOMAIN s /\ Fewer(s, y) \subseteq DOMAIN s
      /\ same \subseteq DOMAIN s
  BY DEF Fewer, NoMore
<1>4. IsFiniteSet(Fewer(s, x)) /\ IsFiniteSet(NoMore(s, x)) /\ IsFiniteSet(Fewer(s, y)) /\ IsFiniteSet(same)
  BY <1>2, <1>3, FS_Subset
<1>5. NoMore(s, x) = Fewer(s, x) \cup same /\ Fewer(s, x) \cap same = {}
  BY <1>1 DEF Fewer, NoMore
<1>6. x < y => NoMore(s, x) \subseteq Fewer(s, y)
  BY <1>1 DEF Fewer, NoMore
<1> HIDE DEF same
<1>7. /\ Cardinality(Fewer(s, x)) \in Nat /\ Cardinality(NoMore(s, x)) \in Nat /\ Cardinality(same) \in Nat
  BY <1>4, FS_CardinalityType
<1>8. Cardinality(NoMore(s, x)) = Cardinality(Fewer(s, x)) + Cardinality(same)
  <2>1. Cardinality(Fewer(s, x) \cup same) = Cardinality(Fewer(s, x)) + Cardinality(same) - Cardinality(Fewer(s, x) \cap same)
    BY <1>4, FS_Union
  <2>2. Cardinality(Fewer(s, x) \cap same) = 0
    BY <1>5, FS_EmptySet
  <2> QED
    BY <1>5, <1>7, <2>1, <2>2
<1>9. x < y => Cardinality(NoMore(s, x)) <= Cardinality(Fewer(s, y))
  BY <1>4, <1>6, FS_Subset
<1>10. Cardinality(NoMore(s, x)) <= Len(s)
  BY <1>2, <1>3, FS_Subset
<1> QED
  BY <1>7, <1>8, <1>9, <1>10 DEF same

\* Among any positions there is a highest session.
LEMMA HighestExists ==
    ASSUME NEW s \in Seq(Int), NEW S \in SUBSET DOMAIN s, S # {}
    PROVE  \E j \in S : \A i \in S : s[i] <= s[j]
<1> DEFINE many(i) == Cardinality(NoMore(s, s[i]))
<1>1. \A i \in DOMAIN s : s[i] \in Int /\ many(i) \in 0..Len(s) /\ Len(s) \in Nat
  <2> TAKE i \in DOMAIN s
  <2>1. s[i] \in Int /\ Len(s) \in Nat
    OBVIOUS
  <2>2. many(i) \in Nat /\ many(i) <= Len(s)
    BY <2>1, CountsRise
  <2> QED
    BY <2>1, <2>2
<1>2. \A i \in DOMAIN s, j \in DOMAIN s : s[i] < s[j] => many(i) < many(j)
  <2> TAKE i \in DOMAIN s, j \in DOMAIN s
  <2>1. HAVE s[i] < s[j]
  <2>2. s[i] \in Int /\ s[j] \in Int
    OBVIOUS
  <2>3. many(i) <= Cardinality(Fewer(s, s[j])) /\ Cardinality(Fewer(s, s[j])) < many(j)
    <3>1. /\ many(i) <= Cardinality(Fewer(s, s[j])) /\ Cardinality(Fewer(s, s[j])) \in Nat
          /\ Cardinality(Fewer(s, s[j])) <= many(j) /\ many(j) \in Nat
      BY <2>1, <2>2, CountsRise
    <3>2. Fewer(s, s[j]) \subseteq NoMore(s, s[j]) /\ j \in NoMore(s, s[j]) /\ j \notin Fewer(s, s[j])
          /\ NoMore(s, s[j]) \subseteq 1..Len(s)
      BY <2>2 DEF Fewer, NoMore
    <3>3. IsFiniteSet(NoMore(s, s[j]))
      <4>1. IsFiniteSet(1..Len(s))
        BY FS_Interval
      <4> QED
        BY <3>2, <4>1, FS_Subset
    <3>4. Cardinality(Fewer(s, s[j])) # many(j)
      BY <3>2, <3>3, FS_Subset
    <3> QED
      BY <3>1, <3>4
  <2>4. many(i) \in Nat /\ many(j) \in Nat /\ Cardinality(Fewer(s, s[j])) \in Nat
    BY <2>2, CountsRise
  <2> QED
    BY <2>3, <2>4
<1> HIDE DEF many
<1>3. PICK n \in {many(i) : i \in S} : \A m \in {many(i) : i \in S} : m <= n
  <2>1. {many(i) : i \in S} \subseteq 0..Len(s) /\ {many(i) : i \in S} # {} /\ Len(s) \in Nat
    BY <1>1
  <2> QED
    BY <2>1, NatMax
<1>4. PICK j \in S : n = many(j)
  BY <1>3
<1>5. ASSUME NEW i \in S PROVE s[i] <= s[j]
  <2>1. many(i) <= many(j) /\ many(i) \in Nat /\ many(j) \in Nat /\ s[i] \in Int /\ s[j] \in Int
    BY <1>1, <1>3, <1>4
  <2>2. s[j] < s[i] => many(j) < many(i)
    BY <1>2
  <2> QED
    BY <2>1, <2>2
<1> QED
  BY <1>5

\* At every position there is one such session.
LEMMA PositionIs ==
    ASSUME NEW s \in Seq(Int), NEW k \in 1..Len(s)
    PROVE  LET x == newestFirst(s)[k]
           IN x \in ToSet(s) /\ x \in Int /\ Cardinality(Fewer(s, x)) < k /\ Cardinality(NoMore(s, x)) >= k
<1> DEFINE many(i) == Cardinality(NoMore(s, s[i]))
           Enough == {i \in DOMAIN s : many(i) >= k}
<1>1. Len(s) \in Nat /\ DOMAIN s = 1..Len(s) /\ \A i \in DOMAIN s : s[i] \in Int
  OBVIOUS
<1>2. \E x \in ToSet(s) : Cardinality(Fewer(s, x)) < k /\ Cardinality(NoMore(s, x)) >= k
  <2>1. \A i \in DOMAIN s : s[i] \in Int /\ many(i) \in Nat /\ Cardinality(Fewer(s, s[i])) \in Nat
    BY <1>1, CountsRise
  <2>2. Enough # {}
    <3>1. PICK j \in DOMAIN s : \A i \in DOMAIN s : s[i] <= s[j]
      <4>1. DOMAIN s \in SUBSET DOMAIN s /\ DOMAIN s # {}
        BY <1>1
      <4> QED
        BY <4>1, HighestExists
    <3>2. NoMore(s, s[j]) = 1..Len(s)
      BY <1>1, <3>1 DEF NoMore
    <3>3. many(j) = Len(s)
      <4>1. 1 \in Int /\ Len(s) \in Int /\ Len(s) >= 1
        BY <1>1
      <4>2. Cardinality(1..Len(s)) = IF 1 > Len(s) THEN 0 ELSE Len(s) - 1 + 1
        BY <4>1, FS_Interval
      <4> QED
        BY <3>2, <4>1, <4>2
    <3> QED
      BY <1>1, <3>3
  <2>3. PICK n \in {many(i) : i \in Enough} : \A m \in {many(i) : i \in Enough} : n <= m
    <3>1. {many(i) : i \in Enough} \subseteq Nat /\ {many(i) : i \in Enough} # {}
      <4> HIDE DEF many
      <4> QED
        BY <2>1, <2>2
    <3> HIDE DEF many, Enough
    <3> QED
      BY <3>1, NatMin
  <2>4. PICK i \in Enough : n = many(i)
    BY <2>3
  <2>5. i \in DOMAIN s /\ many(i) >= k /\ \A j \in DOMAIN s : many(j) >= k => many(i) <= many(j)
    BY <2>3, <2>4
  <2>6. Cardinality(Fewer(s, s[i])) < k
    <3>1. SUFFICES ASSUME Cardinality(Fewer(s, s[i])) >= k PROVE FALSE
      BY <2>1, <2>5
    <3>2. Fewer(s, s[i]) # {}
      <4>1. Cardinality({}) = 0
        BY FS_EmptySet
      <4>2. k > 0
        BY <1>1
      <4>3. Fewer(s, s[i]) = {} => Cardinality(Fewer(s, s[i])) = 0
        BY <4>1, Zenon
      <4> QED
        BY <3>1, <4>2, <4>3
    <3>3. Fewer(s, s[i]) \in SUBSET DOMAIN s
      BY DEF Fewer
    <3>4. PICK j \in Fewer(s, s[i]) : \A l \in Fewer(s, s[i]) : s[l] <= s[j]
      BY <3>2, <3>3, HighestExists
    <3>5. j \in DOMAIN s /\ s[j] < s[i] /\ s[j] \in Int /\ s[i] \in Int
      BY <2>1, <2>5, <3>4 DEF Fewer
    <3>6. Fewer(s, s[i]) = NoMore(s, s[j])
      BY <1>1, <3>4, <3>5 DEF Fewer, NoMore
    <3>7. many(i) <= many(j) /\ many(j) = Cardinality(Fewer(s, s[i]))
      BY <2>5, <3>1, <3>5, <3>6
    <3>8. Cardinality(Fewer(s, s[i])) < many(i)
      <4>1. i \in NoMore(s, s[i]) /\ i \notin Fewer(s, s[i]) /\ Fewer(s, s[i]) \subseteq NoMore(s, s[i])
            /\ NoMore(s, s[i]) \subseteq 1..Len(s)
        BY <1>1, <2>5, <3>5 DEF Fewer, NoMore
      <4>2. IsFiniteSet(1..Len(s))
        BY <1>1, FS_Interval
      <4>3. IsFiniteSet(NoMore(s, s[i]))
        BY <4>1, <4>2, FS_Subset
      <4>4. Cardinality(Fewer(s, s[i])) <= many(i) /\ Cardinality(Fewer(s, s[i])) # many(i)
        BY <4>1, <4>3, FS_Subset
      <4> QED
        BY <2>1, <2>5, <4>4
    <3> QED
      BY <2>1, <2>5, <3>5, <3>7, <3>8
  <2>7. s[i] \in ToSet(s)
    BY <2>5 DEF ToSet
  <2> QED
    BY <2>5, <2>6, <2>7
<1>3. newestFirst(s)[k] = CHOOSE x \in ToSet(s) : /\ Cardinality(Fewer(s, x)) < k
                                                  /\ Cardinality(NoMore(s, x)) >= k
  BY DEF newestFirst, Fewer, NoMore
<1>4. ToSet(s) \subseteq Int
  BY <1>1 DEF ToSet
<1> QED
  BY <1>2, <1>3, <1>4

\* Sorted, with everyone as often as before.
LEMMA NewestFirstSorts ==
    ASSUME NEW s \in Seq(Int)
    PROVE  /\ \A k, l \in 1..Len(s) : k < l => newestFirst(s)[k] <= newestFirst(s)[l]
           /\ \A x \in Int : Cardinality({k \in 1..Len(s) : newestFirst(s)[k] = x}) = Cardinality({i \in DOMAIN s : s[i] = x})
<1> DEFINE at(k) == newestFirst(s)[k]
<1>1. Len(s) \in Nat
  OBVIOUS
<1>2. \A k \in 1..Len(s) : at(k) \in Int /\ Cardinality(Fewer(s, at(k))) < k /\ Cardinality(NoMore(s, at(k))) >= k
  BY PositionIs
<1> HIDE DEF at
<1>3. ASSUME NEW k \in 1..Len(s), NEW l \in 1..Len(s), k < l PROVE at(k) <= at(l)
  <2>1. SUFFICES ASSUME at(l) < at(k) PROVE FALSE
    BY <1>2
  <2>2. Cardinality(NoMore(s, at(l))) <= Cardinality(Fewer(s, at(k))) /\ Cardinality(Fewer(s, at(k))) \in Nat
        /\ Cardinality(NoMore(s, at(l))) \in Nat
    BY <1>2, <2>1, CountsRise
  <2> QED
    BY <1>2, <1>3, <2>2
<1>4. ASSUME NEW x \in Int
      PROVE  Cardinality({k \in 1..Len(s) : at(k) = x}) = Cardinality({i \in DOMAIN s : s[i] = x})
  <2> DEFINE a == Cardinality(Fewer(s, x))
             b == Cardinality(NoMore(s, x))
  <2>1. a \in Nat /\ b \in Nat /\ a <= b /\ b <= Len(s) /\ Cardinality({i \in DOMAIN s : s[i] = x}) = b - a
    BY CountsRise
  <2>2. ASSUME NEW k \in 1..Len(s), k \in (a + 1)..b PROVE at(k) = x
    <3>1. at(k) < x => Cardinality(NoMore(s, at(k))) <= a
      BY <1>2, CountsRise
    <3>2. x < at(k) => b <= Cardinality(Fewer(s, at(k)))
      BY <1>2, CountsRise
    <3>3. at(k) \in Int /\ Cardinality(Fewer(s, at(k))) \in Nat /\ Cardinality(NoMore(s, at(k))) \in Nat
      BY <1>2, CountsRise
    <3> HIDE DEF a, b
    <3> QED
      BY <1>2, <2>1, <2>2, <3>1, <3>2, <3>3
  <2>3. ASSUME NEW k \in 1..Len(s), at(k) = x PROVE k \in (a + 1)..b
    BY <1>2, <2>1, <2>3
  <2> HIDE DEF a, b
  <2>4. {k \in 1..Len(s) : at(k) = x} = (a + 1)..b
    BY <1>1, <2>1, <2>2, <2>3
  <2>5. Cardinality((a + 1)..b) = b - a
    <3>1. a + 1 \in Int /\ b \in Int
      BY <2>1
    <3>2. Cardinality((a + 1)..b) = IF a + 1 > b THEN 0 ELSE b - (a + 1) + 1
      BY <3>1, FS_Interval
    <3> QED
      BY <2>1, <3>2
  <2> QED
    BY <2>1, <2>4, <2>5
<1> QED
  BY <1>3, <1>4 DEF at

\* The pages of the list of online users.
LEMMA PagesAreTheList ==
    ASSUME NEW s, Len(s) \in Nat, NEW size \in Nat \ {0}
    PROVE  FlattenSeq([n \in 1..(Len(s) + size - 1) \div size |-> paginateOnlineUsers(s, n, size)]) = newestFirst(s)
<1> DEFINE sorted == newestFirst(s)
           last == (Len(s) + size - 1) \div size
<1>1. PICK S : sorted \in Seq(S) /\ Len(sorted) = Len(s)
  BY InOrderIs
<1>2. last \in Nat
  BY SMT
<1>3. last * size >= Len(s) /\ (last > 0 => (last - 1) * size < Len(s))
  BY <1>2, PageCount
<1>4. \A n : paginateOnlineUsers(s, n, size) = PageOf(sorted, n, size)
  BY Zenon DEF paginateOnlineUsers, PageOf
<1> HIDE DEF sorted, last
<1>5. [n \in 1..last |-> paginateOnlineUsers(s, n, size)] = [n \in 1..last |-> PageOf(sorted, n, size)]
  BY <1>4
<1>6. FlattenSeq([n \in 1..last |-> PageOf(sorted, n, size)]) = sorted
  BY <1>1, <1>2, <1>3, PagesJoin
<1> QED
  BY <1>5, <1>6, Zenon DEF sorted, last

Listing == [at : {"rest", "scan", "read", "complete", "truncated"}, wanted : SUBSET Sessions, batch : SUBSET Sessions,
            next : {"scan", "complete", "truncated"}, processed : 0..MaxScan, list : Seq(Sessions),
            throughout : SUBSET Sessions, returned : SUBSET Sessions]

\* What is not cut off: whoever was there all the time and has been returned is on
\* the list or about to be read.
NoneMissed(l) == l.throughout \cap l.returned \cap l.wanted \subseteq ToSet(l.list) \cup l.batch
Whole(l) == l.at \in {"scan", "complete"} \/ (l.at = "read" /\ l.next # "truncated")

ListingSound(l) ==
    /\ l \in Listing
    /\ Len(l.list) + Cardinality(l.batch) <= l.processed
    /\ l.at # "read" => l.batch = {}
    /\ l.at \in {"scan", "complete"} => l.next = l.at
    /\ l.next = "complete" => l.throughout \subseteq l.returned
    /\ Whole(l) => NoneMissed(l)

OnlineInv == live \subseteq Sessions /\ listing.throughout \subseteq live /\ ListingSound(listing)

LEMMA SessionSets ==
    /\ IsFiniteSet({}) /\ Cardinality({}) = 0
    /\ \A S \in SUBSET Sessions : IsFiniteSet(S) /\ Cardinality(S) \in Nat
<1>1. IsFiniteSet(Sessions)
  BY OnlineAssumption
<1>2. \A S \in SUBSET Sessions : IsFiniteSet(S)
  BY <1>1, FS_Subset
<1> QED
  BY <1>2, FS_EmptySet, FS_CardinalityType

LEMMA NewListing == ASSUME NEW asked \in SUBSET Sessions, NEW there \in SUBSET Sessions, NEW l,
                           \/ l = NoListing
                           \/ l = [NoListing EXCEPT !.at = "scan", !.wanted = asked, !.throughout = there]
                    PROVE  ListingSound(l) /\ l.throughout \subseteq there
<1>1. l \in Listing /\ l.list = << >> /\ l.batch = {} /\ l.processed = 0 /\ l.next = "scan" /\ l.returned = {}
      /\ l.at \in {"rest", "scan"} /\ l.throughout \subseteq there
  <2>1. 0 \in 0..MaxScan /\ << >> \in Seq(Sessions)
    BY OnlineAssumption
  <2>2. CASE l = NoListing
    BY <2>1, <2>2 DEF NoListing, Listing
  <2>3. CASE l = [NoListing EXCEPT !.at = "scan", !.wanted = asked, !.throughout = there]
    <3>1. l = [at |-> "scan", wanted |-> asked, batch |-> {}, next |-> "scan", processed |-> 0,
               list |-> << >>, throughout |-> there, returned |-> {}]
      BY <2>3 DEF NoListing
    <3> QED
      BY <2>1, <3>1 DEF Listing
  <2> QED
    BY <2>2, <2>3
<1>2. Len(<< >>) = 0 /\ Cardinality({}) = 0
  BY SessionSets
<1> QED
  BY <1>1, <1>2 DEF ListingSound, NoneMissed, Whole

LEMMA OnlineStart == OnlineInit => OnlineInv
<1> SUFFICES ASSUME OnlineInit PROVE OnlineInv
  OBVIOUS
<1>1. live \in SUBSET Sessions /\ listing = NoListing /\ {} \in SUBSET Sessions
  BY DEF OnlineInit
<1> QED
  BY <1>1, NewListing DEF OnlineInv

\* A batch: what is beyond the limit is left out, and then the list counts as cut.
LEMMA BatchTaken ==
    ASSUME OnlineInv, NEW keys \in SUBSET live, NEW last \in BOOLEAN, scanKeyBatchesBounded(keys, last)
    PROVE  OnlineInv'
<1> DEFINE remaining == MaxScan - listing.processed
<1>1. PICK kept \in SUBSET keys, next \in {"scan", "complete", "truncated"} :
        /\ IF Cardinality(keys) > remaining THEN Cardinality(kept) = remaining ELSE kept = keys
        /\ kept # keys => next = "truncated"
        /\ next = "complete" => last
        /\ listing' = [listing EXCEPT !.at = "read", !.batch = kept, !.next = next,
                                      !.processed = listing.processed + Cardinality(kept),
                                      !.returned = listing.returned \cup keys]
  <2> DEFINE After(kept) ==
               LET processed == listing.processed + Cardinality(kept)
               IN CASE kept # keys \/ (processed >= MaxScan /\ ~last) -> "truncated"
                    [] last /\ kept = keys -> "complete"
                    [] OTHER -> "scan"
  <2>1. PICK kept \in SUBSET keys :
          /\ IF Cardinality(keys) > remaining THEN Cardinality(kept) = remaining ELSE kept = keys
          /\ listing' = [listing EXCEPT !.at = "read", !.batch = kept, !.next = After(kept),
                                        !.processed = listing.processed + Cardinality(kept),
                                        !.returned = listing.returned \cup keys]
    BY Zenon DEF scanKeyBatchesBounded, ListingGoes
  <2>2. /\ After(kept) \in {"scan", "complete", "truncated"}
        /\ kept # keys => After(kept) = "truncated"
        /\ After(kept) = "complete" => last
    <3>1. CASE kept # keys \/ (listing.processed + Cardinality(kept) >= MaxScan /\ ~last)
      BY <3>1
    <3>2. CASE kept = keys /\ ~(listing.processed + Cardinality(kept) >= MaxScan /\ ~last) /\ last
      BY <3>2
    <3>3. CASE kept = keys /\ ~(listing.processed + Cardinality(kept) >= MaxScan /\ ~last) /\ ~last
      BY <3>3
    <3> QED
      BY <3>1, <3>2, <3>3
  <2> HIDE DEF After
  <2> QED
    BY <2>1, <2>2
<1>2. /\ listing.at = "scan" /\ live' = live
      /\ last => listing.throughout \subseteq listing.returned \cup keys
  BY DEF scanKeyBatchesBounded
<1>3. listing \in Listing /\ listing.batch = {} /\ NoneMissed(listing) /\ Len(listing.list) <= listing.processed
  <2>1. Cardinality({}) = 0 /\ listing \in Listing
    BY SessionSets DEF OnlineInv, ListingSound
  <2>2. Len(listing.list) \in Nat
    BY <2>1 DEF Listing
  <2>3. listing.batch = {} /\ NoneMissed(listing)
    BY <1>2 DEF OnlineInv, ListingSound, Whole
  <2>4. Len(listing.list) + Cardinality(listing.batch) <= listing.processed
    BY DEF OnlineInv, ListingSound
  <2> QED
    BY <2>1, <2>2, <2>3, <2>4
<1>4. keys \in SUBSET Sessions /\ kept \in SUBSET Sessions
  BY DEF OnlineInv
<1>5. Cardinality(kept) \in Nat /\ Cardinality(keys) \in Nat
  BY <1>4, SessionSets
<1>6. listing.processed \in 0..MaxScan /\ MaxScan \in Nat
  BY <1>3, OnlineAssumption DEF Listing
<1>7. listing.processed + Cardinality(kept) \in 0..MaxScan
  BY <1>1, <1>5, <1>6
<1> DEFINE k == [l |-> listing']
<1>8. /\ listing' \in Listing
      /\ listing'.at = "read" /\ listing'.batch = kept /\ listing'.next = next /\ listing'.list = listing.list
      /\ listing'.processed = listing.processed + Cardinality(kept)
      /\ listing'.returned = listing.returned \cup keys
      /\ listing'.wanted = listing.wanted /\ listing'.throughout = listing.throughout
  BY <1>1, <1>3, <1>4, <1>7 DEF Listing
<1>9. Len(listing.list) \in Nat
  BY <1>3 DEF Listing
<1>10. next # "truncated" => NoneMissed(listing')
  BY <1>1, <1>3, <1>8 DEF NoneMissed
<1>11. ListingSound(listing')
  BY <1>1, <1>2, <1>3, <1>5, <1>6, <1>8, <1>9, <1>10 DEF ListingSound, Whole
<1> QED
  BY <1>2, <1>8, <1>11 DEF OnlineInv

LEMMA BatchRead == ASSUME OnlineInv, collectOnlineUsers PROVE OnlineInv'
<1> DEFINE found == (listing.batch \cap live) \cap listing.wanted
           more == SetToSeq(found)
<1>1. /\ listing.at = "read" /\ live' = live
      /\ listing' = [listing EXCEPT !.at = listing.next, !.batch = {}, !.list = listing.list \o more]
  BY DEF collectOnlineUsers, scanLoginUserEntries, ListingGoes
<1>2. listing \in Listing
  BY DEF OnlineInv, ListingSound
<1>3. listing.list \in Seq(Sessions) /\ listing.batch \in SUBSET Sessions /\ found \in SUBSET listing.batch
  BY <1>2 DEF Listing
<1>4. IsFiniteSet(listing.batch) /\ IsFiniteSet(found)
  BY <1>3, SessionSets
<1>5. /\ Cardinality(found) \in Nat /\ Cardinality(listing.batch) \in Nat
      /\ Cardinality(found) <= Cardinality(listing.batch)
  BY <1>3, <1>4, FS_Subset, FS_CardinalityType
<1>6. /\ more \in [1..Cardinality(found) -> found]
      /\ \A x \in found : \E i \in 1..Cardinality(found) : more[i] = x
  BY <1>4, OrderIsBijection
<1>7. more \in Seq(Sessions) /\ Len(more) = Cardinality(found)
  <2> HIDE DEF more
  <2>1. found \subseteq Sessions
    BY <1>3
  <2> HIDE DEF found
  <2>2. more \in [1..Cardinality(found) -> Sessions]
    BY <1>6, <2>1
  <2> QED
    BY <1>5, <2>2
<1>8. /\ listing.list \o more \in Seq(Sessions)
      /\ Len(listing.list \o more) = Len(listing.list) + Cardinality(found)
      /\ \A x \in ToSet(listing.list) \cup found : x \in ToSet(listing.list \o more)
  <2> HIDE DEF more, found
  <2>1. /\ listing.list \o more \in Seq(Sessions) /\ Len(listing.list) \in Nat /\ Len(more) \in Nat
        /\ Len(listing.list \o more) = Len(listing.list) + Len(more)
        /\ \A i \in 1..Len(listing.list) : (listing.list \o more)[i] = listing.list[i]
        /\ \A i \in 1..Len(more) : (listing.list \o more)[Len(listing.list) + i] = more[i]
    BY <1>3, <1>7
  <2>2. ASSUME NEW x \in ToSet(listing.list) PROVE x \in ToSet(listing.list \o more)
    <3>1. PICK i \in 1..Len(listing.list) : listing.list[i] = x
      BY <1>3, <2>2 DEF ToSet
    <3>2. i \in DOMAIN (listing.list \o more) /\ (listing.list \o more)[i] = x
      BY <2>1, <3>1
    <3> QED
      BY <3>2, Zenon DEF ToSet
  <2>3. ASSUME NEW x \in found PROVE x \in ToSet(listing.list \o more)
    <3>1. PICK i \in 1..Len(more) : more[i] = x
      BY <1>6, <1>7
    <3>2. Len(listing.list) + i \in 1..Len(listing.list \o more)
      BY <2>1
    <3>3. DOMAIN (listing.list \o more) = 1..Len(listing.list \o more)
      BY <2>1
    <3> QED
      BY <2>1, <3>1, <3>2, <3>3, Zenon DEF ToSet
  <2> QED
    BY <1>7, <2>1, <2>2, <2>3
<1> HIDE DEF more
<1>9. /\ listing' \in Listing
      /\ listing'.at = listing.next /\ listing'.batch = {} /\ listing'.next = listing.next
      /\ listing'.list = listing.list \o more /\ listing'.processed = listing.processed
      /\ listing'.returned = listing.returned
      /\ listing'.wanted = listing.wanted /\ listing'.throughout = listing.throughout
  BY <1>1, <1>2, <1>8 DEF Listing
<1>10. listing.next # "truncated" => NoneMissed(listing')
  <2>1. SUFFICES ASSUME listing.next # "truncated" PROVE NoneMissed(listing')
    OBVIOUS
  <2>2. NoneMissed(listing) /\ listing.throughout \subseteq live
    BY <1>1, <2>1 DEF OnlineInv, ListingSound, Whole
  <2>3. \A x \in listing.throughout \cap listing.returned \cap listing.wanted : x \in ToSet(listing.list) \cup found
    BY <2>2 DEF NoneMissed
  <2> QED
    BY <1>8, <1>9, <2>3 DEF NoneMissed
<1>11. Len(listing.list) + Cardinality(listing.batch) <= listing.processed /\ Len(listing.list) \in Nat
       /\ listing.processed \in Nat /\ Cardinality({}) = 0
       /\ (listing.next = "complete" => listing.throughout \subseteq listing.returned)
  BY <1>2, <1>3, SessionSets DEF OnlineInv, ListingSound, Listing
<1>12. Len(listing'.list) + Cardinality(listing'.batch) <= listing'.processed
  BY <1>5, <1>8, <1>9, <1>11
<1>13. ListingSound(listing')
  BY <1>9, <1>10, <1>11, <1>12 DEF ListingSound, Whole
<1> QED
  BY <1>1, <1>9, <1>13 DEF OnlineInv

LEMMA OnlineKeeps == OnlineInv /\ [OnlineNext]_onlineVars => OnlineInv'
<1> SUFFICES ASSUME OnlineInv, [OnlineNext]_onlineVars PROVE OnlineInv'
  OBVIOUS
<1>1. ASSUME NEW asked \in SUBSET Sessions, ListOnlineUsers(asked) PROVE OnlineInv'
  <2>1. live' = live /\ live \in SUBSET Sessions
        /\ listing' = [NoListing EXCEPT !.at = "scan", !.wanted = asked, !.throughout = live]
    BY <1>1 DEF ListOnlineUsers, ListingGoes, OnlineInv
  <2> QED
    BY <2>1, NewListing DEF OnlineInv
<1>2. CASE FailListing
  <2>1. live' = live /\ live \in SUBSET Sessions /\ listing' = NoListing
    BY <1>2 DEF FailListing, ListingGoes, OnlineInv
  <2> QED
    BY <2>1, NewListing DEF OnlineInv
<1>3. ASSUME NEW s \in Sessions, LogIn(s) PROVE OnlineInv'
  BY <1>3 DEF LogIn, OnlineInv
<1>4. ASSUME NEW s \in Sessions, ForceLogout(s) PROVE OnlineInv'
  <2>1. live' = live \ {s} /\ listing' = [listing EXCEPT !.throughout = listing.throughout \ {s}]
    BY <1>4 DEF ForceLogout, ListingGoes
  <2>2. listing \in Listing
    BY DEF OnlineInv, ListingSound
  <2>3. /\ listing' \in Listing /\ listing'.throughout = listing.throughout \ {s}
        /\ listing'.at = listing.at /\ listing'.batch = listing.batch /\ listing'.next = listing.next
        /\ listing'.list = listing.list /\ listing'.processed = listing.processed
        /\ listing'.returned = listing.returned /\ listing'.wanted = listing.wanted
    BY <2>1, <2>2 DEF Listing
  <2>4. ListingSound(listing')
    BY <2>3 DEF OnlineInv, ListingSound, Whole, NoneMissed
  <2> QED
    BY <2>1, <2>3, <2>4 DEF OnlineInv
<1>5. CASE UNCHANGED onlineVars
  BY <1>5 DEF onlineVars, OnlineInv
<1> QED
  BY <1>1, <1>2, <1>3, <1>4, <1>5, BatchTaken, BatchRead DEF OnlineNext

LEMMA OnlineFollows == OnlineInv => OnlineTypeOK /\ OnlineListed
<1> SUFFICES ASSUME OnlineInv PROVE OnlineTypeOK /\ OnlineListed
  OBVIOUS
<1>1. listing \in Listing
  BY DEF OnlineInv, ListingSound
<1>2. listing.list \in Seq(Sessions) /\ Len(listing.list) \in Nat /\ listing.processed \in 0..MaxScan /\ MaxScan \in Nat
  BY <1>1, OnlineAssumption DEF Listing
<1>3. Cardinality(listing.batch) \in Nat
  BY <1>1, SessionSets DEF Listing
<1>4. Len(listing.list) <= MaxScan
  BY <1>2, <1>3 DEF OnlineInv, ListingSound
<1>5. listing.list \in BoundedSeq(Sessions, MaxScan)
  <2>1. listing.list \in [1..Len(listing.list) -> Sessions] /\ Len(listing.list) \in 0..MaxScan
    BY <1>2, <1>4
  <2> QED
    BY <2>1 DEF BoundedSeq, SeqOf
<1>6. OnlineTypeOK
  BY <1>1, <1>5 DEF OnlineTypeOK, OnlineInv, Listing
<1>7. listing.at = "complete" => listing.throughout \cap listing.wanted \subseteq ToSet(listing.list)
  BY DEF OnlineInv, ListingSound, NoneMissed, Whole
<1>8. ASSUME NEW size \in OnlineSizes
      PROVE  FlattenSeq([n \in 1..(Len(listing.list) + size - 1) \div size |->
                           paginateOnlineUsers(listing.list, n, size)]) = newestFirst(listing.list)
  <2>1. size \in Nat \ {0}
    BY OnlineAssumption
  <2> QED
    BY <1>2, <2>1, PagesAreTheList
<1> QED
  BY <1>4, <1>6, <1>7, <1>8 DEF OnlineListed

LEMMA OnlineSound == OnlineSpec => [](OnlineTypeOK /\ OnlineListed)
BY OnlineStart, OnlineKeeps, OnlineFollows, PTL DEF OnlineSpec

\* Types, for any sessions, limit and sizes of pages.
THEOREM OnlineTypeCorrect == OnlineSpec => []OnlineTypeOK
BY OnlineSound, PTL

\* A list that does not say it is cut has everyone who was online throughout, its
\* pages joined are the whole list, and it never exceeds the limit (online.go).
THEOREM OnlineAlwaysListed == OnlineSpec => []OnlineListed
BY OnlineSound, PTL

-----------------------------------------------------------------------------
(***************************************************************************)
(* The lists (ListPages).  Every page's order ends in the primary key, so no  *)
(* rows tie and each row has a rank, its place in every answer.  Rows that  *)
(* come only raise it: a row that comes before the next page has been seen.  *)
(***************************************************************************)
Columned == {"id", "key"}
SortBy == [column : Columned, desc : BOOLEAN]
ById == [column : {"id"}, desc : BOOLEAN]

\* Orders that end in the primary key.
Deciding == {<<x>> : x \in ById} \cup {<<x, y>> : x \in SortBy, y \in ById}

RowsOK ==
    /\ list \in Lists
    /\ lastRow \in 0..MaxListed
    /\ DOMAIN listed \subseteq 1..lastRow /\ \A id \in DOMAIN listed : listed[id] \in SortKeys

LEMMA PagesAreOrdered ==
    ASSUME NEW l \in Lists
    PROVE  l.page \in Deciding
<1>1. /\ <<Asc("id")>> \in Deciding /\ <<Desc("id")>> \in Deciding
      /\ <<Asc("key"), Asc("id")>> \in Deciding /\ <<Desc("key"), Asc("id")>> \in Deciding
  <2>1. Asc("id") \in ById /\ Desc("id") \in ById /\ Asc("key") \in SortBy /\ Desc("key") \in SortBy
    BY DEF ById, SortBy, Columned, Asc, Desc
  <2> QED
    BY <2>1 DEF Deciding
<1>2. l.page \in {<<Asc("id")>>, <<Desc("id")>>, <<Asc("key"), Asc("id")>>, <<Desc("key"), Asc("id")>>}
  <2> USE DEF List
  <2>1. CASE l \in {SelectLogininforPage, SelectOperLogPage, SelectJobLogPage, SelectNoticePage}
    BY <2>1 DEF SelectLogininforPage, SelectOperLogPage, SelectJobLogPage, SelectNoticePage
  <2>2. CASE l \in {SelectJobPage, SelectPostPage, SelectConfigPage, SelectDictTypePage, SelectUserPage}
    BY <2>2 DEF SelectJobPage, SelectPostPage, SelectConfigPage, SelectDictTypePage, SelectUserPage
  <2>3. CASE l \in {SelectDictDataPage, SelectGenTablePage, SelectDBTablePage}
    BY <2>3 DEF SelectDictDataPage, SelectGenTablePage, SelectDBTablePage
  <2>4. CASE l = SelectRolePage
    BY <2>4 DEF SelectRolePage
  <2>5. CASE l = SelectAuthUserPage
    BY <2>5 DEF SelectAuthUserPage
  <2> QED
    BY <2>1, <2>2, <2>3, <2>4, <2>5 DEF Lists
<1> QED
  BY <1>1, <1>2

\* A page's order decides, whatever the client sorts by.
Query == [number : 1..MaxInt, size : 1..MaxPageSize, orderBy : {<< >>} \cup {<<x>> : x \in SortBy}]

LEMMA StableDecides ==
    ASSUME list \in Lists, NEW query \in Query
    PROVE  Stable(query) \in Deciding
<1>1. CASE query.orderBy = << >>
  BY <1>1, PagesAreOrdered DEF Stable
<1>2. CASE query.orderBy # << >>
  <2>1. PICK x \in SortBy : query.orderBy = <<x>>
    BY <1>2 DEF Query
  <2>2. Stable(query) = <<x, Asc("id")>>
    <3>1. Stable(query) = <<x>> \o <<Asc("id")>>
      BY <1>2, <2>1, Zenon DEF Stable
    <3> DEFINE y == Asc("id")
               S == {x, y}
    <3> HIDE DEF y
    <3>2. <<x>> \in Seq(S) /\ <<y>> \in Seq(S) /\ <<x, y>> \in Seq(S)
          /\ Len(<<x>>) = 1 /\ Len(<<y>>) = 1 /\ Len(<<x, y>>) = 2
      OBVIOUS
    <3>3. /\ <<x>> \o <<y>> \in Seq(S) /\ Len(<<x>> \o <<y>>) = 2
          /\ (<<x>> \o <<y>>)[1] = x /\ (<<x>> \o <<y>>)[2] = y
      <4> HIDE DEF S
      <4> QED
        BY <3>2, ConcatProperties
    <3>4. <<x>> \o <<y>> = <<x, y>>
      <4>1. \A i \in 1..2 : (<<x>> \o <<y>>)[i] = <<x, y>>[i]
        BY <3>3
      <4> HIDE DEF S
      <4> QED
        BY <3>2, <3>3, <4>1, SeqEqual
    <3> QED
      BY <3>1, <3>4 DEF y
  <2>3. Asc("id") \in ById
    BY DEF Asc, ById
  <2> QED
    BY <2>2, <2>3 DEF Deciding
<1> QED
  BY <1>1, <1>2

LEMMA MatchingIs == Matching = DOMAIN listed
<1>1. \A id : id \in Distinct(Joined) <=> id \in DOMAIN listed
  <2>1. ASSUME NEW id \in DOMAIN listed PROVE id \in Distinct(Joined)
    <3>1. <<id, 1>> \in Joined /\ <<id, 1>>[1] = id
      BY DEF Joined
    <3> QED
      BY <3>1, Zenon DEF Distinct
  <2>2. ASSUME NEW id \in Distinct(Joined) PROVE id \in DOMAIN listed
    <3>1. PICK pair \in Joined : id = pair[1]
      BY <2>2 DEF Distinct
    <3> QED
      BY <3>1 DEF Joined
  <2> QED
    BY <2>1, <2>2
<1> QED
  BY <1>1 DEF Matching

\* No two rows tie in such an order.
LEMMA NoTies ==
    ASSUME RowsOK, NEW o \in Deciding, NEW a \in DOMAIN listed, NEW b \in DOMAIN listed
    PROVE  /\ ~ Precedes(listed, a, a, o)
           /\ a # b => Precedes(listed, a, b, o) \/ Precedes(listed, b, a, o)
<1>1. a \in Int /\ b \in Int /\ listed[a] \in Int /\ listed[b] \in Int
  <2>1. lastRow \in Int /\ SortKeys \subseteq Int
    BY ListsAssumption DEF RowsOK
  <2>2. DOMAIN listed \subseteq 1..lastRow
    BY DEF RowsOK
  <2>3. a \in Int /\ b \in Int
    BY <2>1, <2>2
  <2> QED
    BY <2>1, <2>3 DEF RowsOK
<1>2. \A c \in Columned : Value(listed, a, c) \in Int /\ Value(listed, b, c) \in Int
  BY <1>1 DEF Value, Columned
<1>3. Value(listed, a, "id") = a /\ Value(listed, b, "id") = b
  BY DEF Value
<1>4. \A i \in DOMAIN o : o[i].column \in Columned
  BY DEF Deciding, SortBy, ById, Columned
<1>5. ~ Precedes(listed, a, a, o)
  BY <1>2, <1>4 DEF Precedes
<1>6. CASE \E x \in ById : o = <<x>>
  <2>1. PICK x \in ById : o = <<x>>
    BY <1>6
  <2>2. 1 \in DOMAIN o /\ o[1] = x /\ x.column = "id" /\ 1..(1 - 1) = {}
    BY <2>1 DEF ById
  <2>3. a # b => a < b \/ b < a
    BY <1>1
  <2> QED
    BY <1>3, <1>5, <2>2, <2>3 DEF Precedes
<1>7. CASE \E x \in SortBy, y \in ById : o = <<x, y>>
  <2>1. PICK x \in SortBy, y \in ById : o = <<x, y>>
    BY <1>7
  <2>2. 1 \in DOMAIN o /\ 2 \in DOMAIN o /\ o[1] = x /\ o[2] = y /\ y.column = "id" /\ 1..(1 - 1) = {} /\ 1..(2 - 1) = {1}
    BY <2>1 DEF ById
  <2>3. a # b => a < b \/ b < a
    BY <1>1
  <2>4. Value(listed, a, x.column) \in Int /\ Value(listed, b, x.column) \in Int
    BY <1>2 DEF SortBy
  <2>5. CASE Value(listed, a, x.column) = Value(listed, b, x.column)
    BY <1>3, <1>5, <2>2, <2>3, <2>5 DEF Precedes
  <2>6. CASE Value(listed, a, x.column) # Value(listed, b, x.column)
    <3>1. Value(listed, a, x.column) < Value(listed, b, x.column) \/ Value(listed, b, x.column) < Value(listed, a, x.column)
      BY <2>4, <2>6
    <3> QED
      BY <1>5, <2>2, <3>1 DEF Precedes
  <2> QED
    BY <2>5, <2>6
<1> QED
  BY <1>6, <1>7 DEF Deciding

\* How many rows come before one.
Before(rows, r, o) == {x \in DOMAIN rows : Precedes(rows, x, r, o)}
Rank(rows, r, o) == Cardinality(Before(rows, r, o))

LEMMA RowsFinite ==
    ASSUME RowsOK
    PROVE  /\ IsFiniteSet(DOMAIN listed) /\ Cardinality(DOMAIN listed) \in 0..MaxListed
           /\ DOMAIN listed \subseteq 1..MaxListed
<1>1. lastRow \in Nat /\ MaxListed \in Nat /\ lastRow <= MaxListed
  BY ListsAssumption DEF RowsOK
<1>2. DOMAIN listed \subseteq 1..MaxListed
  BY <1>1 DEF RowsOK
<1>3. IsFiniteSet(1..MaxListed) /\ Cardinality(1..MaxListed) = MaxListed
  BY <1>1, FS_Interval
<1>4. IsFiniteSet(DOMAIN listed) /\ Cardinality(DOMAIN listed) <= MaxListed
  BY <1>2, <1>3, FS_Subset
<1>5. Cardinality(DOMAIN listed) \in Nat
  BY <1>4, FS_CardinalityType
<1> QED
  BY <1>1, <1>2, <1>4, <1>5

\* An answer in an order that decides has every row at its rank.
LEMMA AnswerRanks ==
    ASSUME RowsOK, NEW o \in Deciding, NEW answer \in Answers(o), NEW i \in 1..Cardinality(DOMAIN listed)
    PROVE  Rank(listed, answer[i], o) = i - 1
<1> DEFINE n == Cardinality(DOMAIN listed)
           P == Before(listed, answer[i], o)
<1>1. n \in Nat /\ IsFiniteSet(DOMAIN listed)
  BY RowsFinite, FS_CardinalityType
<1>2. /\ answer \in SetToSeqs(DOMAIN listed)
      /\ \A j, k \in DOMAIN answer : j < k => ~Precedes(listed, answer[k], answer[j], o)
  BY MatchingIs DEF Answers
<1>3. /\ answer \in [1..n -> DOMAIN listed] /\ DOMAIN answer = 1..n
      /\ \A j, k \in 1..n : j # k => answer[j] # answer[k]
  BY <1>2 DEF SetToSeqs
<1>4. ToSet(answer) = DOMAIN listed
  BY <1>1, <1>2, EnumerationIs
<1> HIDE DEF n
<1>5. i \in 1..n
  BY DEF n
<1>6. ASSUME NEW j \in 1..n
      PROVE  Precedes(listed, answer[j], answer[i], o) <=> j < i
  <2>1. answer[j] \in DOMAIN listed /\ answer[i] \in DOMAIN listed /\ i \in Int /\ j \in Int
    BY <1>3, <1>5, <1>1
  <2>2. CASE j < i
    <3>1. ~Precedes(listed, answer[i], answer[j], o) /\ answer[j] # answer[i]
      BY <1>2, <1>3, <1>5, <2>1, <2>2
    <3> QED
      BY <2>1, <2>2, <3>1, NoTies
  <2>3. CASE j = i
    BY <2>1, <2>3, NoTies
  <2>4. CASE i < j
    BY <1>2, <1>3, <1>5, <2>1, <2>4
  <2> QED
    BY <2>1, <2>2, <2>3, <2>4
<1> DEFINE g == [j \in 1..(i - 1) |-> answer[j]]
<1>7. g \in Bijection(1..(i - 1), P)
  <2>1. \A j \in 1..(i - 1) : j \in 1..n /\ j < i
    BY <1>1, <1>5
  <2>2. \A j \in 1..(i - 1) : g[j] \in P
    BY <1>3, <1>6, <2>1 DEF Before
  <2>3. \A j, k \in 1..(i - 1) : g[j] = g[k] => j = k
    BY <1>3, <2>1
  <2>4. ASSUME NEW x \in P PROVE \E j \in 1..(i - 1) : g[j] = x
    <3>1. x \in DOMAIN listed /\ Precedes(listed, x, answer[i], o)
      BY <2>4 DEF Before
    <3>2. PICK j \in 1..n : x = answer[j]
      BY <1>3, <1>4, <3>1 DEF ToSet
    <3>3. j < i
      BY <1>6, <3>1, <3>2
    <3>4. j \in 1..(i - 1)
      BY <1>1, <1>5, <3>3
    <3> QED
      BY <3>2, <3>4
  <2> HIDE DEF P
  <2>5. g \in [1..(i - 1) -> P]
    BY <2>2
  <2> QED
    BY <2>3, <2>4, <2>5 DEF Bijection, Injection, Surjection, IsInjective
<1>8. IsFiniteSet(1..(i - 1)) /\ Cardinality(1..(i - 1)) = i - 1
  <2>1. i - 1 \in Int /\ 1 \in Int /\ i >= 1
    BY <1>1, <1>5
  <2> QED
    BY <2>1, FS_Interval
<1>9. ExistsBijection(1..(i - 1), P)
  <2> HIDE DEF g, P
  <2> QED
    BY <1>7 DEF ExistsBijection
<1> QED
  BY <1>8, <1>9, FS_Bijection DEF Rank

LEMMA AnswerIs ==
    ASSUME RowsOK, NEW o, NEW answer \in Answers(o)
    PROVE  /\ answer \in Seq(DOMAIN listed) /\ answer \in Seq(1..MaxListed)
           /\ Len(answer) = Cardinality(DOMAIN listed) /\ ToSet(answer) = DOMAIN listed
<1>1. answer \in SetToSeqs(DOMAIN listed) /\ IsFiniteSet(DOMAIN listed) /\ DOMAIN listed \subseteq 1..MaxListed
  BY MatchingIs, RowsFinite DEF Answers
<1>2. answer \in Seq(DOMAIN listed) /\ ToSet(answer) = DOMAIN listed /\ Len(answer) = Cardinality(DOMAIN listed)
  BY <1>1, EnumerationIs
<1> QED
  BY <1>1, <1>2, SeqMonotonic

\* A row that comes leaves the others where they are, or moves them back.
LEMMA RanksGrow ==
    ASSUME RowsOK, NEW o \in Deciding, NEW key \in SortKeys, Insert(key), NEW r \in DOMAIN listed
    PROVE  /\ Rank(listed, r, o) \in Nat /\ Rank(listed', r, o) \in Nat
           /\ Rank(listed, r, o) <= Rank(listed', r, o)
<1>1. RowsOK'
  <2>1. /\ lastRow' = lastRow + 1 /\ lastRow < MaxListed /\ list' = list
        /\ listed' = [id \in DOMAIN listed \cup {lastRow'} |-> IF id = lastRow' THEN key ELSE listed[id]]
    BY DEF Insert
  <2>2. lastRow \in Nat /\ MaxListed \in Nat
    BY ListsAssumption DEF RowsOK
  <2> QED
    BY <2>1, <2>2 DEF RowsOK
<1>2. DOMAIN listed' = DOMAIN listed \cup {lastRow'} /\ \A id \in DOMAIN listed : listed'[id] = listed[id]
  <2>1. lastRow' \notin DOMAIN listed
    BY ListsAssumption DEF Insert, RowsOK
  <2> QED
    BY <2>1 DEF Insert
<1>3. \A i \in DOMAIN o : o[i].column \in Columned
  BY DEF Deciding, SortBy, ById, Columned
<1>4. ASSUME NEW x \in DOMAIN listed
      PROVE  Precedes(listed', x, r, o) <=> Precedes(listed, x, r, o)
  <2>1. \A c : Value(listed', x, c) = Value(listed, x, c) /\ Value(listed', r, c) = Value(listed, r, c)
    BY <1>2 DEF Value
  <2> QED
    BY <2>1 DEF Precedes
<1>5. Before(listed, r, o) \subseteq Before(listed', r, o)
  BY <1>2, <1>4 DEF Before
<1>6. IsFiniteSet(DOMAIN listed) /\ IsFiniteSet((DOMAIN listed)')
  <2>1. IsFiniteSet(DOMAIN listed) /\ DOMAIN listed' = DOMAIN listed \cup {lastRow'}
    BY <1>2, RowsFinite
  <2> QED
    BY <2>1, FS_AddElement
<1>7. IsFiniteSet(Before(listed, r, o)) /\ IsFiniteSet(Before(listed', r, o))
  <2>1. Before(listed, r, o) \in SUBSET DOMAIN listed /\ Before(listed', r, o) \in SUBSET (DOMAIN listed)'
    BY DEF Before
  <2> QED
    BY <1>6, <2>1, FS_Subset
<1> QED
  BY <1>5, <1>7, FS_Subset, FS_CardinalityType DEF Rank

-----------------------------------------------------------------------------
Walk == [at : {"rest", "count", "select", "done", "exported", "refused"}, query : Query, first : {1, MaxInt},
         total : 0..MaxListed, seen : Seq(1..MaxListed), start : SUBSET (1..MaxListed), grown : BOOLEAN, between : BOOLEAN]

\* The rows on the pages so far.
From(w) == (w.query.number - 1) * w.query.size

\* Between two pages: a client that began with the first one has seen every row
\* of its start that comes before the next page; if none came, as many as there
\* are on the pages so far.
SeenSoFar(w, rows, o) ==
    /\ w.start \subseteq DOMAIN rows
    /\ w.first # 1 => w.query.number = MaxInt /\ w.seen = << >>
    /\ w.first = 1 => From(w) <= MaxListed
    /\ w.first = 1 /\ ~w.between =>
         \A r \in w.start : Rank(rows, r, o) < From(w) => r \in ToSet(w.seen)
    /\ w.first = 1 /\ ~w.grown =>
         /\ w.start = DOMAIN rows /\ ToSet(w.seen) \subseteq w.start
         /\ Len(w.seen) = From(w) /\ From(w) <= Cardinality(DOMAIN rows)

InTotal(w, rows) == ~w.between => w.total = Cardinality(DOMAIN rows)

WalkSound(w, rows, o) ==
    /\ w \in Walk
    /\ w.between => w.grown
    /\ w.at \in {"count", "select"} => SeenSoFar(w, rows, o)
    /\ w.at = "select" => InTotal(w, rows)

ListInv == RowsOK /\ WalkSound(walk, listed, Stable(walk.query)) /\ PagesComplete /\ ExportWhole

LEMMA NoWalkSound == (\A rows, o : WalkSound(NoWalk, rows, o)) /\ NoWalk.at = "rest" /\ NoWalk \in Walk
<1>1. /\ << >> \in Seq(1..MaxListed) /\ 0 \in 0..MaxListed /\ 1 \in 1..MaxInt /\ 1 \in 1..MaxPageSize
      /\ {} \in SUBSET (1..MaxListed)
  BY ListsAssumption
<1>2. NoQuery \in Query
  BY <1>1 DEF NoQuery, Query
<1>3. NoWalk \in Walk /\ NoWalk.at = "rest" /\ NoWalk.between = FALSE
  BY <1>1, <1>2 DEF NoWalk, Walk
<1> QED
  BY <1>3 DEF WalkSound

\* The page that a number and a size stand for, as long as that is no overflow.
LEMMA OffsetIs ==
    ASSUME NEW query \in Query, (query.number - 1) * query.size <= MaxListed
    PROVE  Offset(query) = (query.number - 1) * query.size
<1> DEFINE pages == query.number - 1
           size == query.size
<1>1. pages \in Nat /\ size \in Nat \ {0} /\ MaxInt \in Nat /\ MaxListed \in Nat /\ MaxListed < MaxInt
  BY ListsAssumption DEF Query
<1>2. ~ (pages > MaxInt \div size)
  <2>1. pages * size <= MaxInt
    <3>1. pages * size \in Int
      BY <1>1, SMT
    <3> HIDE DEF pages, size
    <3>2. pages * size <= MaxListed
      BY DEF pages, size
    <3> QED
      BY <1>1, <3>1, <3>2
  <2> HIDE DEF pages, size
  <2>2. MaxInt \div size \in Nat /\ MaxInt < size * (MaxInt \div size) + size
    BY <1>1, SMT
  <2>3. ASSUME pages > MaxInt \div size PROVE FALSE
    <3> DEFINE q == MaxInt \div size
    <3>1. q \in Nat
      BY <2>2
    <3> HIDE DEF q
    <3>2. pages >= q + 1
      BY <1>1, <2>3, <3>1 DEF q
    <3>3. pages * size >= (q + 1) * size
      BY <1>1, <3>1, <3>2, SMT
    <3>4. (q + 1) * size = size * q + size
      BY <1>1, <3>1, SMT
    <3>5. pages * size \in Int /\ size * q \in Int
      BY <1>1, <3>1, SMT
    <3> QED
      BY <1>1, <2>1, <2>2, <3>3, <3>4, <3>5 DEF q
  <2> QED
    BY <2>3
<1> HIDE DEF pages, size
<1>3. Offset(query) = IF pages > MaxInt \div size THEN MaxInt ELSE pages * size
  BY DEF Offset, pages, size
<1> QED
  BY <1>2, <1>3 DEF pages, size

\* The last number there is leads beyond all rows.
LEMMA OffsetBeyond ==
    ASSUME NEW query \in Query, query.number = MaxInt
    PROVE  Offset(query) \in Nat /\ Offset(query) >= MaxListed
<1> DEFINE pages == query.number - 1
           size == query.size
<1>1. pages \in Nat /\ size \in Nat \ {0} /\ MaxInt \in Nat /\ MaxListed \in Nat /\ pages >= MaxListed /\ MaxListed < MaxInt
  BY ListsAssumption DEF Query
<1>2. Offset(query) = IF pages > MaxInt \div size THEN MaxInt ELSE pages * size
  BY DEF Offset
<1> HIDE DEF pages, size
<1>3. pages * size \in Nat /\ pages * size >= pages
  BY <1>1, SMT
<1> QED
  BY <1>1, <1>2, <1>3

\* A piece of an answer.
LEMMA CutIs ==
    ASSUME NEW S, NEW answer \in Seq(S), NEW offset \in Nat, NEW limit \in Nat
    PROVE  /\ Cut(answer, offset, limit) \in Seq(S)
           /\ Len(answer) <= offset => Cut(answer, offset, limit) = << >>
           /\ offset <= Len(answer) =>
                Len(Cut(answer, offset, limit)) = (IF offset + limit > Len(answer) THEN Len(answer) ELSE offset + limit) - offset
           /\ \A i \in 1..Len(answer) : offset < i /\ i <= offset + limit => answer[i] \in ToSet(Cut(answer, offset, limit))
           /\ ToSet(Cut(answer, offset, limit)) \subseteq ToSet(answer)
<1> DEFINE m == offset + 1
           n == IF offset + limit > Len(answer) THEN Len(answer) ELSE offset + limit
           cut == Cut(answer, offset, limit)
<1>1. Len(answer) \in Nat /\ m \in Int /\ n \in Int /\ cut = SubSeq(answer, m, n) /\ m >= 1 /\ n <= Len(answer)
  BY DEF Cut
<1>2. \A i \in m..n : answer[i] \in S
  BY <1>1
<1> DEFINE k == n - m + 1
<1> HIDE DEF m, n, cut
<1>3. /\ cut \in Seq(S) /\ Len(cut) = IF m <= n THEN n - m + 1 ELSE 0
      /\ \A i \in 1..n - m + 1 : cut[i] = answer[m + i - 1]
  BY <1>1, <1>2, SubSeqProperties
<1>4. n < m => cut = << >>
  BY <1>1, SubSeqEmpty
<1>5. ASSUME NEW i \in 1..Len(answer), offset < i, i <= offset + limit
      PROVE  answer[i] \in ToSet(cut)
  <2>1. m <= i /\ i <= n
    BY <1>1, <1>5 DEF m, n
  <2>2. i - m + 1 \in 1..n - m + 1 /\ m + (i - m + 1) - 1 = i /\ Len(cut) = n - m + 1
    BY <1>1, <1>3, <2>1
  <2>3. cut[i - m + 1] = answer[i] /\ i - m + 1 \in DOMAIN cut
    BY <1>3, <2>2
  <2> QED
    BY <2>3, Zenon DEF ToSet
<1>6. ToSet(cut) \subseteq ToSet(answer)
  <2>1. SUFFICES ASSUME NEW j \in 1..Len(cut) PROVE cut[j] \in ToSet(answer)
    BY <1>3 DEF ToSet
  <2>2. j \in 1..n - m + 1 /\ m + j - 1 \in 1..Len(answer)
    BY <1>1, <1>3
  <2> QED
    BY <1>3, <2>2 DEF ToSet
<1>7. Len(answer) <= offset => n < m
  BY <1>1 DEF m, n
<1>8. offset <= Len(answer) => Len(cut) = n - offset
  BY <1>1, <1>3 DEF m, n
<1> QED
  BY <1>3, <1>4, <1>5, <1>6, <1>7, <1>8 DEF cut, n

LEMMA ListStart == ListInit => ListInv
<1> SUFFICES ASSUME ListInit PROVE ListInv
  OBVIOUS
<1>1. RowsOK
  <2>1. lastRow \in 0..MaxListed
    BY ListsAssumption DEF ListInit
  <2> QED
    BY <2>1 DEF ListInit, RowsOK
<1>2. walk = NoWalk
  BY DEF ListInit
<1> QED
  BY <1>1, <1>2, NoWalkSound DEF ListInv, PagesComplete, ExportWhole

\* A walk that is not over promises nothing yet.
LEMMA NothingPromised ==
    ASSUME RowsOK', WalkSound(walk', listed', Stable(walk.query)'), walk'.at \notin {"done", "exported"}
    PROVE  ListInv'
BY DEF ListInv, PagesComplete, ExportWhole

LEMMA RowsStay == ASSUME RowsOK, UNCHANGED <<list, listed, lastRow>> PROVE RowsOK' /\ \A q : Stable(q)' = Stable(q)
BY DEF RowsOK, Stable

LEMMA BrowseKeeps ==
    ASSUME ListInv, NEW number \in {0, MaxInt}, NEW size \in ListSizes, NEW column \in {"id", "key", "other"},
           NEW desc \in BOOLEAN, Browse(number, size, column, desc)
    PROVE  ListInv'
<1> DEFINE query == Parse(number, size, column, desc)
<1>1. /\ walk' = [NoWalk EXCEPT !.at = "count", !.query = query, !.first = query.number, !.start = DOMAIN listed]
      /\ UNCHANGED <<list, listed, lastRow>>
  BY DEF Browse
<1>2. RowsOK /\ RowsOK'
  BY <1>1, RowsStay DEF ListInv
<1>3. query \in Query /\ query.number \in {1, MaxInt}
  <2>1. query.number \in {1, MaxInt} /\ query.number \in 1..MaxInt
    BY ListsAssumption DEF Parse
  <2>2. query.size \in 1..MaxPageSize
    BY ListsAssumption DEF Parse
  <2>3. query.orderBy \in {<< >>} \cup {<<x>> : x \in SortBy}
    <3>1. CASE list.sortable /\ column \in {"id", "key"}
      <4>1. [column |-> column, desc |-> desc] \in SortBy
        BY <3>1 DEF SortBy, Columned
      <4>2. query.orderBy = <<[column |-> column, desc |-> desc]>>
        BY <3>1 DEF Parse
      <4> QED
        BY <4>1, <4>2
    <3>2. CASE ~(list.sortable /\ column \in {"id", "key"})
      BY <3>2 DEF Parse
    <3> QED
      BY <3>1, <3>2
  <2>4. query = [number |-> query.number, size |-> query.size, orderBy |-> query.orderBy]
    BY DEF Parse
  <2> HIDE DEF query
  <2> QED
    BY <2>1, <2>2, <2>3, <2>4 DEF Query
<1> HIDE DEF query
<1>4. /\ walk' \in Walk /\ walk'.at = "count" /\ walk'.query = query /\ walk'.first = query.number
      /\ walk'.start = DOMAIN listed /\ walk'.seen = << >> /\ walk'.between = FALSE /\ walk'.grown = FALSE
  <2>1. DOMAIN listed \in SUBSET (1..MaxListed)
    BY <1>2, RowsFinite
  <2>2. walk' = [at |-> "count", query |-> query, first |-> query.number, total |-> 0, seen |-> << >>,
                 start |-> DOMAIN listed, grown |-> FALSE, between |-> FALSE]
    BY <1>1 DEF NoWalk
  <2>3. 0 \in 0..MaxListed /\ << >> \in Seq(1..MaxListed)
    BY ListsAssumption
  <2> QED
    BY <1>3, <2>1, <2>2, <2>3 DEF Walk
<1>5. ASSUME NEW o PROVE SeenSoFar(walk', listed, o)
  <2>1. walk'.first # 1 => walk'.query.number = MaxInt
    BY <1>3, <1>4
  <2>2. ASSUME walk'.first = 1
        PROVE  From(walk') = 0
    <3>1. query.size \in Nat
      BY <1>3 DEF Query
    <3> QED
      BY <1>4, <2>2, <3>1 DEF From
  <2>3. \A r : ~ (Rank(listed, r, o) < 0)
    <3> TAKE r
    <3>1. Before(listed, r, o) \in SUBSET DOMAIN listed
      BY DEF Before
    <3>2. Rank(listed, r, o) \in Nat
      BY <1>2, <3>1, RowsFinite, FS_Subset, FS_CardinalityType DEF Rank
    <3> QED
      BY <3>2
  <2>4. Cardinality(DOMAIN listed) \in Nat /\ MaxListed \in Nat
    BY <1>2, RowsFinite, ListsAssumption
  <2>5. Len(<< >>) = 0 /\ ToSet(<< >>) = {}
    BY DEF ToSet
  <2> QED
    BY <1>4, <2>1, <2>2, <2>3, <2>4, <2>5 DEF SeenSoFar
<1> QED
  BY <1>1, <1>2, <1>4, <1>5, NothingPromised DEF WalkSound

LEMMA CountKeeps == ASSUME ListInv, CountRows PROVE ListInv'
<1> DEFINE o == Stable(walk.query)
           n == Cardinality(DOMAIN listed)
<1>1. /\ walk.at = "count" /\ UNCHANGED <<list, listed, lastRow>>
      /\ walk' = [walk EXCEPT !.total = n, !.at = IF DOMAIN listed = {} THEN "done" ELSE "select"]
  BY MatchingIs DEF CountRows
<1>2. RowsOK /\ RowsOK' /\ walk \in Walk
  BY <1>1, RowsStay DEF ListInv, WalkSound
<1>3. n \in 0..MaxListed
  BY <1>2, RowsFinite
<1>4. /\ walk' \in Walk /\ walk'.total = n /\ walk'.query = walk.query /\ walk'.first = walk.first /\ walk'.seen = walk.seen
      /\ walk'.start = walk.start /\ walk'.grown = walk.grown /\ walk'.between = walk.between
      /\ walk'.at = IF DOMAIN listed = {} THEN "done" ELSE "select"
  <2> HIDE DEF n
  <2> QED
    BY <1>1, <1>2, <1>3 DEF Walk
<1>5. Stable(walk.query)' = o
  BY <1>1, <1>4 DEF Stable
<1> HIDE DEF o, n
<1>6. SeenSoFar(walk, listed, o) /\ (walk.between => walk.grown)
  BY <1>1 DEF ListInv, WalkSound, o
<1>7. SeenSoFar(walk', listed, o)
  BY <1>4, <1>6 DEF SeenSoFar, From
<1>8. WalkSound(walk', listed', Stable(walk.query)')
  <2>1. InTotal(walk', listed)
    BY <1>4 DEF InTotal, n
  <2> QED
    BY <1>1, <1>4, <1>5, <1>6, <1>7, <2>1 DEF WalkSound
<1>9. CASE DOMAIN listed # {}
  <2>1. walk'.at = "select"
    BY <1>4, <1>9
  <2> QED
    BY <1>2, <1>8, <2>1, NothingPromised
<1>10. CASE DOMAIN listed = {}
  <2>1. walk'.at = "done" /\ walk.start = {} /\ n = 0
    BY <1>4, <1>6, <1>10, FS_EmptySet DEF SeenSoFar, n
  <2>2. walk.first = MaxInt => walk.seen = << >>
    BY <1>6, ListsAssumption DEF SeenSoFar
  <2>3. ASSUME walk.first = 1, ~walk.grown
        PROVE  Len(walk.seen) = 0 /\ ToSet(walk.seen) = {}
    <3>1. Len(walk.seen) = From(walk) /\ From(walk) <= n /\ ToSet(walk.seen) \subseteq {}
      BY <1>6, <2>1, <2>3 DEF SeenSoFar, n
    <3>2. Len(walk.seen) \in Nat
      BY <1>2 DEF Walk
    <3> QED
      BY <2>1, <3>1, <3>2
  <2>4. Cardinality({}) = 0
    BY FS_EmptySet
  <2>5. PagesComplete'
    BY <1>4, <2>1, <2>2, <2>3, <2>4 DEF PagesComplete, EachOnce
  <2>6. ExportWhole'
    BY <2>1 DEF ExportWhole
  <2> QED
    BY <1>2, <1>8, <2>5, <2>6 DEF ListInv
<1> QED
  BY <1>9, <1>10

LEMMA LeaveKeeps == ASSUME ListInv, Leave PROVE ListInv'
<1>1. walk' = NoWalk /\ UNCHANGED <<list, listed, lastRow>>
  BY DEF Leave
<1> QED
  BY <1>1, RowsStay, NoWalkSound, NothingPromised DEF ListInv

LEMMA ExportKeeps == ASSUME ListInv, Export PROVE ListInv'
<1>1. PICK answer \in Answers(list.export) :
        LET file == Cut(answer, 0, MaxExportRows + 1) IN
        walk' = [NoWalk EXCEPT !.at = IF checkExportSize(file) THEN "exported" ELSE "refused",
                               !.seen = IF checkExportSize(file) THEN file ELSE << >>, !.start = DOMAIN listed]
  BY DEF Export
<1> DEFINE file == Cut(answer, 0, MaxExportRows + 1)
<1>2. UNCHANGED <<list, listed, lastRow>>
  BY DEF Export
<1>3. RowsOK /\ RowsOK' /\ DOMAIN listed \in SUBSET (1..MaxListed)
  BY <1>2, RowsStay, RowsFinite DEF ListInv
<1>4. /\ answer \in Seq(1..MaxListed) /\ Len(answer) = Cardinality(DOMAIN listed) /\ ToSet(answer) = DOMAIN listed
      /\ Len(answer) \in Nat /\ MaxExportRows \in Nat
  BY <1>3, AnswerIs, ListsAssumption
<1>5. file \in Seq(1..MaxListed)
  BY <1>4, CutIs
<1>6. checkExportSize(file) => file = answer
  <2>1. ASSUME 0 + (MaxExportRows + 1) <= Len(answer)
        PROVE  Len(file) = MaxExportRows + 1
    <3>1. file = SubSeq(answer, 1, MaxExportRows + 1)
      BY <1>4, <2>1 DEF Cut
    <3>2. ASSUME NEW i \in 1..(MaxExportRows + 1) PROVE answer[i] \in 1..MaxListed
      <4>1. i \in 1..Len(answer)
        BY <1>4, <2>1
      <4> QED
        BY <1>4, <4>1, ElementOfSeq
    <3>3. 1 \in Int /\ MaxExportRows + 1 \in Int /\ 1 <= MaxExportRows + 1
      BY <1>4
    <3>4. Len(SubSeq(answer, 1, MaxExportRows + 1)) = (MaxExportRows + 1) - 1 + 1
      BY <3>2, <3>3, SubSeqProperties
    <3> QED
      BY <3>1, <3>3, <3>4
  <2>2. checkExportSize(file) => ~(0 + (MaxExportRows + 1) <= Len(answer))
    BY <1>4, <2>1 DEF checkExportSize
  <2>3. 0 + (MaxExportRows + 1) > Len(answer) => file = SubSeq(answer, 1, Len(answer))
    BY <1>4 DEF Cut
  <2>4. SubSeq(answer, 1, Len(answer)) = answer
    BY <1>4, SubSeqFull
  <2> QED
    BY <1>4, <2>2, <2>3, <2>4
<1> HIDE DEF file
<1>7. /\ walk' \in Walk /\ walk'.between = FALSE /\ walk'.start = DOMAIN listed
      /\ walk'.at = (IF checkExportSize(file) THEN "exported" ELSE "refused")
      /\ checkExportSize(file) => walk'.seen = answer
  <2>1. walk' = [NoWalk EXCEPT !.at = IF checkExportSize(file) THEN "exported" ELSE "refused",
                               !.seen = IF checkExportSize(file) THEN file ELSE << >>, !.start = DOMAIN listed]
    BY <1>1 DEF file
  <2>2. << >> \in Seq(1..MaxListed) /\ NoWalk \in Walk
    BY NoWalkSound
  <2>3. /\ walk' \in Walk /\ walk'.between = NoWalk.between /\ walk'.start = DOMAIN listed
        /\ walk'.at = (IF checkExportSize(file) THEN "exported" ELSE "refused")
        /\ walk'.seen = IF checkExportSize(file) THEN file ELSE << >>
    BY <1>3, <1>5, <2>1, <2>2 DEF Walk
  <2>4. NoWalk.between = FALSE
    BY DEF NoWalk
  <2> QED
    BY <1>6, <2>3, <2>4
<1>8. WalkSound(walk', listed', Stable(walk.query)')
  BY <1>7 DEF WalkSound
<1>9. ExportWhole'
  BY <1>4, <1>7 DEF ExportWhole, EachOnce
<1>10. PagesComplete'
  BY <1>7 DEF PagesComplete
<1> QED
  BY <1>3, <1>8, <1>9, <1>10 DEF ListInv

\* A row that comes: whoever was there keeps his rank or moves back.
LEMMA InsertKeeps == ASSUME ListInv, NEW key \in SortKeys, Insert(key) PROVE ListInv'
<1> DEFINE o == Stable(walk.query)
<1>1. /\ lastRow < MaxListed /\ lastRow' = lastRow + 1 /\ list' = list
      /\ listed' = [id \in DOMAIN listed \cup {lastRow'} |-> IF id = lastRow' THEN key ELSE listed[id]]
      /\ walk.at \notin {"done", "exported", "refused"}
      /\ walk' = IF walk.at = "rest" THEN walk
                 ELSE [walk EXCEPT !.grown = TRUE, !.between = walk.between \/ walk.at = "select"]
  BY DEF Insert, During, Ended
<1>2. RowsOK /\ walk \in Walk
  BY DEF ListInv, WalkSound
<1>3. RowsOK'
  <2>1. lastRow \in Nat /\ MaxListed \in Nat
    BY <1>2, ListsAssumption DEF RowsOK
  <2> QED
    BY <1>1, <1>2, <2>1 DEF RowsOK
<1>4. CASE walk.at = "rest"
  <2>1. walk' = walk
    BY <1>1, <1>4
  <2>2. WalkSound(walk', listed', Stable(walk.query)')
    BY <1>4, <2>1 DEF ListInv, WalkSound
  <2> QED
    BY <1>3, <1>4, <2>1, <2>2, NothingPromised
<1>5. CASE walk.at \in {"count", "select"}
  <2>1. /\ walk' \in Walk /\ walk'.at = walk.at /\ walk'.query = walk.query /\ walk'.first = walk.first
        /\ walk'.total = walk.total /\ walk'.seen = walk.seen /\ walk'.start = walk.start /\ walk'.grown = TRUE
        /\ walk'.between = (walk.between \/ walk.at = "select")
    <3>1. walk' = [walk EXCEPT !.grown = TRUE, !.between = walk.between \/ walk.at = "select"]
      BY <1>1, <1>5
    <3>2. (walk.between \/ walk.at = "select") \in BOOLEAN
      BY <1>2, Zenon DEF Walk
    <3> DEFINE b == walk.between \/ walk.at = "select"
    <3> HIDE DEF b
    <3>3. walk' = [walk EXCEPT !.grown = TRUE, !.between = b] /\ b \in BOOLEAN
      BY <3>1, <3>2 DEF b
    <3>4. /\ walk' \in Walk /\ walk'.at = walk.at /\ walk'.query = walk.query /\ walk'.first = walk.first
          /\ walk'.total = walk.total /\ walk'.seen = walk.seen /\ walk'.start = walk.start /\ walk'.grown = TRUE
          /\ walk'.between = b
      BY <1>2, <3>3 DEF Walk
    <3> QED
      BY <3>4 DEF b
  <2>2. Stable(walk.query)' = o /\ o \in Deciding
    <3>1. walk.query \in Query /\ list \in Lists
      BY <1>2 DEF Walk, RowsOK
    <3>2. o \in Deciding
      BY <3>1, StableDecides
    <3> QED
      BY <1>1, <2>1, <3>2 DEF Stable
  <2> HIDE DEF o
  <2>3. SeenSoFar(walk, listed, o) /\ (walk.at = "select" => InTotal(walk, listed))
    BY <1>5 DEF ListInv, WalkSound, o
  <2>4. PICK d \in Deciding : d = o
    BY <2>2
  <2>5. \A r \in DOMAIN listed : /\ Rank(listed, r, d) \in Nat /\ Rank(listed', r, d) \in Nat
                                 /\ Rank(listed, r, d) <= Rank(listed', r, d)
    BY <1>2, RanksGrow
  <2>6. From(walk) \in Int /\ From(walk') = From(walk)
    <3>1. walk.query.number \in Int /\ walk.query.size \in Int
      BY <1>2 DEF Walk, Query
    <3>2. (walk.query.number - 1) * walk.query.size \in Int
      BY <3>1, SMT
    <3> QED
      BY <2>1, <3>2 DEF From
  <2>7. SeenSoFar(walk', listed', o)
    <3>1. DOMAIN listed \subseteq DOMAIN listed'
      BY <1>1
    <3>2. ASSUME walk.first = 1, ~walk'.between, NEW r \in walk.start, Rank(listed', r, o) < From(walk)
          PROVE  r \in ToSet(walk.seen)
      <4>1. ~walk.between /\ r \in DOMAIN listed
        BY <2>1, <2>3, <3>2 DEF SeenSoFar
      <4>2. Rank(listed, r, o) < From(walk)
        BY <2>4, <2>5, <2>6, <3>2, <4>1
      <4> QED
        BY <2>3, <3>2, <4>1, <4>2 DEF SeenSoFar
    <3> QED
      BY <2>1, <2>3, <2>6, <3>1, <3>2 DEF SeenSoFar
  <2>8. WalkSound(walk', listed', o)
    BY <1>5, <2>1, <2>7 DEF WalkSound, InTotal
  <2> QED
    BY <1>3, <1>5, <2>1, <2>2, <2>8, NothingPromised
<1>6. walk.at \in {"rest", "count", "select"}
  BY <1>1, <1>2 DEF Walk
<1> QED
  BY <1>4, <1>5, <1>6

\* A row that goes or moves: the client's walk is not followed any further.
LEMMA WalkDropped ==
    ASSUME ListInv, RowsOK', During(NoWalk)
    PROVE  ListInv'
<1>1. walk' = NoWalk \/ (walk.at = "rest" /\ walk' = walk)
  BY DEF During
<1>2. CASE walk' = NoWalk
  BY <1>2, NoWalkSound, NothingPromised
<1>3. CASE walk.at = "rest" /\ walk' = walk
  BY <1>3, NothingPromised DEF ListInv, WalkSound
<1> QED
  BY <1>1, <1>2, <1>3

LEMMA DeleteListedKeeps == ASSUME ListInv, NEW ids, DeleteListed(ids) PROVE ListInv'
<1>1. RowsOK'
  BY DEF DeleteListed, ListInv, RowsOK
<1> QED
  BY <1>1, WalkDropped DEF DeleteListed

LEMMA CleanKeeps == ASSUME ListInv, CleanJobLog PROVE ListInv'
<1>1. RowsOK'
  <2>1. DOMAIN listed' = {} /\ lastRow' = 0 /\ list' = list /\ 0 \in 0..MaxListed
    BY ListsAssumption DEF CleanJobLog
  <2> QED
    BY <2>1 DEF ListInv, RowsOK
<1> QED
  BY <1>1, WalkDropped DEF CleanJobLog

LEMMA UpdateListedKeeps == ASSUME ListInv, NEW id \in DOMAIN listed, NEW key \in SortKeys, Update(id, key) PROVE ListInv'
<1>1. RowsOK'
  BY DEF Update, ListInv, RowsOK
<1> QED
  BY <1>1, WalkDropped DEF Update

\* Where the page after page p begins.
LEMMA FromIs == ASSUME NEW w, NEW p \in Nat, NEW s \in Nat, w.query.number = p + 1, w.query.size = s
                PROVE  From(w) = p * s
<1>1. From(w) = (w.query.number - 1) * w.query.size
  BY DEF From
<1>2. From(w) = ((p + 1) - 1) * s
  BY <1>1
<1>3. (p + 1) - 1 = p
  OBVIOUS
<1> QED
  BY <1>2, <1>3

\* A page: its rows are those with the next ranks.
LEMMA SelectKeeps == ASSUME ListInv, SelectRows PROVE ListInv'
<1> DEFINE query == walk.query
           o == Stable(walk.query)
           n == Cardinality(DOMAIN listed)
           next == query.number * query.size
<1>1. PICK answer \in Answers(o) :
        LET walked == [walk EXCEPT !.seen = walk.seen \o Cut(answer, Offset(query), query.size)] IN
        walk' = IF query.number * query.size >= walk.total
                THEN [walked EXCEPT !.at = "done"]
                ELSE [walked EXCEPT !.at = "count", !.query.number = query.number + 1]
  BY DEF SelectRows
<1> DEFINE page == Cut(answer, Offset(query), query.size)
           seen == walk.seen \o page
<1>2. walk.at = "select" /\ UNCHANGED <<list, listed, lastRow>>
  BY DEF SelectRows
<1>3. RowsOK /\ RowsOK' /\ walk \in Walk
  BY <1>2, RowsStay DEF ListInv, WalkSound
<1>4. /\ query \in Query /\ walk.seen \in Seq(1..MaxListed) /\ walk.total \in 0..MaxListed /\ walk.first \in {1, MaxInt}
      /\ query.number \in 1..MaxInt /\ query.size \in 1..MaxPageSize
      /\ MaxListed \in Nat /\ MaxInt \in Nat /\ MaxListed < MaxInt /\ MaxPageSize \in Nat /\ MaxInt > 1
  BY <1>3, ListsAssumption DEF Walk, Query
<1>5. o \in Deciding
  BY <1>3, <1>4, StableDecides DEF RowsOK
<1>6. /\ answer \in Seq(1..MaxListed) /\ Len(answer) = n /\ ToSet(answer) = DOMAIN listed
      /\ n \in 0..MaxListed /\ DOMAIN listed \subseteq 1..MaxListed /\ n \in Nat
  BY <1>3, <1>4, AnswerIs, RowsFinite
<1>7. SeenSoFar(walk, listed, o) /\ InTotal(walk, listed) /\ (walk.between => walk.grown)
  BY <1>2 DEF ListInv, WalkSound
<1>8. /\ From(walk) \in Nat /\ next \in Nat /\ next = From(walk) + query.size /\ next >= query.number
  <2> DEFINE p == query.number
             s == query.size
  <2>1. p \in Nat \ {0} /\ s \in Nat \ {0}
    BY <1>4
  <2> HIDE DEF p, s
  <2>2. (p - 1) * s \in Nat /\ p * s \in Nat /\ p * s = (p - 1) * s + s /\ p * s >= p
    BY <2>1, SMT
  <2> QED
    BY <2>2 DEF From, p, s
<1>9. Offset(query) \in Nat /\ (walk.first = 1 => Offset(query) = From(walk)) /\ (walk.first # 1 => Offset(query) >= MaxListed)
  <2>1. CASE walk.first = 1
    <3>1. From(walk) <= MaxListed
      BY <1>7, <2>1 DEF SeenSoFar
    <3>2. Offset(query) = From(walk)
      BY <1>4, <3>1, OffsetIs DEF From
    <3> QED
      BY <1>8, <2>1, <3>2
  <2>2. CASE walk.first # 1
    <3>1. query.number = MaxInt
      BY <1>7, <2>2 DEF SeenSoFar
    <3> QED
      BY <1>4, <2>2, <3>1, OffsetBeyond
  <2> QED
    BY <2>1, <2>2
<1>10. query.size \in Nat
  BY <1>4
<1>11. /\ page \in Seq(1..MaxListed)
       /\ Len(answer) <= Offset(query) => page = << >>
       /\ Offset(query) <= Len(answer) =>
            Len(page) = (IF Offset(query) + query.size > Len(answer) THEN Len(answer) ELSE Offset(query) + query.size) - Offset(query)
       /\ \A i \in 1..Len(answer) : Offset(query) < i /\ i <= Offset(query) + query.size => answer[i] \in ToSet(page)
       /\ ToSet(page) \subseteq ToSet(answer)
  <2> DEFINE at == Offset(query)
             size == query.size
  <2>1. at \in Nat /\ size \in Nat
    BY <1>9, <1>10
  <2> HIDE DEF at, size
  <2>2. /\ Cut(answer, at, size) \in Seq(1..MaxListed)
        /\ Len(answer) <= at => Cut(answer, at, size) = << >>
        /\ at <= Len(answer) => Len(Cut(answer, at, size)) = (IF at + size > Len(answer) THEN Len(answer) ELSE at + size) - at
        /\ \A i \in 1..Len(answer) : at < i /\ i <= at + size => answer[i] \in ToSet(Cut(answer, at, size))
        /\ ToSet(Cut(answer, at, size)) \subseteq ToSet(answer)
    BY <1>6, <2>1, CutIs
  <2> QED
    BY <2>2 DEF at, size
<1> HIDE DEF page
<1>12. /\ seen \in Seq(1..MaxListed) /\ Len(seen) = Len(walk.seen) + Len(page)
       /\ Len(page) \in Nat /\ Len(walk.seen) \in Nat
       /\ ToSet(seen) = ToSet(walk.seen) \cup ToSet(page)
  <2>1. /\ seen \in Seq(1..MaxListed) /\ Len(seen) = Len(walk.seen) + Len(page)
        /\ Len(page) \in Nat /\ Len(walk.seen) \in Nat
        /\ \A i \in 1..Len(walk.seen) : seen[i] = walk.seen[i]
        /\ \A i \in 1..Len(page) : seen[Len(walk.seen) + i] = page[i]
    <3>1. /\ seen \in Seq(1..MaxListed) /\ Len(seen) = Len(walk.seen) + Len(page)
          /\ \A i \in 1..Len(walk.seen) + Len(page) :
               seen[i] = IF i <= Len(walk.seen) THEN walk.seen[i] ELSE page[i - Len(walk.seen)]
      BY <1>4, <1>11, ConcatProperties
    <3>2. Len(page) \in Nat /\ Len(walk.seen) \in Nat
      BY <1>4, <1>11
    <3> HIDE DEF seen
    <3>3. ASSUME NEW i \in 1..Len(page) PROVE seen[Len(walk.seen) + i] = page[i]
      <4>1. Len(walk.seen) + i \in 1..Len(walk.seen) + Len(page) /\ ~(Len(walk.seen) + i <= Len(walk.seen))
            /\ (Len(walk.seen) + i) - Len(walk.seen) = i
        BY <3>2
      <4> QED
        BY <3>1, <4>1
    <3> QED
      BY <3>1, <3>2, <3>3
  <2>2. DOMAIN seen = 1..Len(walk.seen) + Len(page) /\ DOMAIN page = 1..Len(page) /\ DOMAIN walk.seen = 1..Len(walk.seen)
    BY <1>4, <1>11, <2>1
  <2> HIDE DEF seen
  <2>3. ASSUME NEW i \in DOMAIN walk.seen PROVE walk.seen[i] \in ToSet(seen)
    <3>1. i \in DOMAIN seen /\ seen[i] = walk.seen[i]
      BY <2>1, <2>2
    <3> QED
      BY <3>1, Zenon DEF ToSet
  <2>4. ASSUME NEW i \in DOMAIN page PROVE page[i] \in ToSet(seen)
    <3>1. Len(walk.seen) + i \in DOMAIN seen /\ seen[Len(walk.seen) + i] = page[i]
      BY <2>1, <2>2
    <3> QED
      BY <3>1, Zenon DEF ToSet
  <2>5. ASSUME NEW i \in DOMAIN seen PROVE seen[i] \in ToSet(walk.seen) \cup ToSet(page)
    <3>1. CASE i <= Len(walk.seen)
      <4>1. i \in DOMAIN walk.seen /\ seen[i] = walk.seen[i]
        BY <2>1, <2>2, <3>1
      <4> QED
        BY <4>1, Zenon DEF ToSet
    <3>2. CASE i > Len(walk.seen)
      <4> DEFINE k == i - Len(walk.seen)
      <4>1. k \in DOMAIN page /\ Len(walk.seen) + k = i
        BY <2>1, <2>2, <3>2
      <4> HIDE DEF k
      <4>2. seen[i] = page[k]
        BY <2>1, <2>2, <4>1
      <4> QED
        BY <4>1, <4>2, Zenon DEF ToSet
    <3> QED
      BY <2>1, <2>2, <3>1, <3>2
  <2>6. ToSet(seen) = ToSet(walk.seen) \cup ToSet(page)
    <3>1. \A x : x \in ToSet(seen) => x \in ToSet(walk.seen) \cup ToSet(page)
      BY <2>5, Zenon DEF ToSet
    <3>2. \A x : x \in ToSet(walk.seen) => x \in ToSet(seen)
      BY <2>3, Zenon DEF ToSet
    <3>3. \A x : x \in ToSet(page) => x \in ToSet(seen)
      BY <2>4, Zenon DEF ToSet
    <3> QED
      BY <3>1, <3>2, <3>3
  <2> QED
    BY <2>1, <2>6
<1> DEFINE over == next >= walk.total
<1>13. /\ walk'.at = (IF over THEN "done" ELSE "count") /\ walk'.seen = seen
       /\ walk'.first = walk.first /\ walk'.total = walk.total /\ walk'.start = walk.start
       /\ walk'.grown = walk.grown /\ walk'.between = walk.between
       /\ walk'.query.number = (IF over THEN query.number ELSE query.number + 1)
       /\ walk'.query.size = query.size /\ walk'.query.orderBy = query.orderBy
       /\ walk' \in Walk
  <2>1. CASE over
    <3>1. walk' = [[walk EXCEPT !.seen = seen] EXCEPT !.at = "done"]
      BY <1>1, <2>1, Zenon DEF page
    <3> HIDE DEF seen, over
    <3> QED
      BY <1>3, <1>12, <2>1, <3>1 DEF Walk
  <2>2. CASE ~over
    <3>1. walk' = [[walk EXCEPT !.seen = seen] EXCEPT !.at = "count", !.query.number = query.number + 1]
      BY <1>1, <2>2, Zenon DEF page
    <3>2. query.number + 1 \in 1..MaxInt
      BY <1>4, <1>8, <2>2
    <3> HIDE DEF seen, over
    <3>3. /\ walk'.at = "count" /\ walk'.seen = seen
          /\ walk'.first = walk.first /\ walk'.total = walk.total /\ walk'.start = walk.start
          /\ walk'.grown = walk.grown /\ walk'.between = walk.between
          /\ walk'.query = [query EXCEPT !.number = query.number + 1]
          /\ walk' = [at |-> "count", query |-> walk'.query, first |-> walk.first, total |-> walk.total, seen |-> seen,
                      start |-> walk.start, grown |-> walk.grown, between |-> walk.between]
      BY <1>3, <3>1 DEF Walk
    <3>4. walk'.query \in Query /\ walk'.query.number = query.number + 1
          /\ walk'.query.size = query.size /\ walk'.query.orderBy = query.orderBy
      BY <1>4, <3>2, <3>3 DEF Query
    <3> QED
      BY <1>3, <1>12, <2>2, <3>3, <3>4 DEF Walk
  <2> QED
    BY <2>1, <2>2
<1> HIDE DEF seen, over
<1>14. Stable(walk.query)' = o
  BY <1>2, <1>13 DEF Stable
<1>15. walk.first = 1 /\ ~walk.between =>
         \A r \in walk.start : Rank(listed, r, o) < next => r \in ToSet(seen)
  <2> SUFFICES ASSUME walk.first = 1, ~walk.between, NEW r \in walk.start, Rank(listed, r, o) < next
               PROVE  r \in ToSet(seen)
    OBVIOUS
  <2>1. r \in DOMAIN listed
    BY <1>7 DEF SeenSoFar
  <2>2. PICK i \in 1..n : answer[i] = r
    BY <1>6, <2>1 DEF ToSet
  <2>3. Rank(listed, r, o) = i - 1
    <3>1. i \in 1..Cardinality(DOMAIN listed)
      OBVIOUS
    <3> HIDE DEF o, n
    <3> QED
      BY <1>3, <1>5, <2>2, <3>1, AnswerRanks
  <2>4. CASE i - 1 < From(walk)
    BY <1>7, <1>12, <2>3, <2>4 DEF SeenSoFar
  <2>5. CASE ~(i - 1 < From(walk))
    <3> HIDE DEF o
    <3>1. Offset(query) < i /\ i <= Offset(query) + query.size /\ i \in 1..Len(answer)
      BY <1>6, <1>8, <1>9, <1>10, <2>3, <2>5
    <3> QED
      BY <1>11, <1>12, <2>2, <3>1
  <2> QED
    BY <2>4, <2>5
<1>16. walk.first # 1 => seen = << >>
  <2>1. walk.first # 1 => page = << >> /\ walk.seen = << >>
    <3>1. walk.first # 1 => Len(answer) <= Offset(query)
      <4> HIDE DEF n
      <4> QED
        BY <1>4, <1>6, <1>9
    <3>2. walk.first # 1 => walk.seen = << >>
      BY <1>7, Zenon DEF SeenSoFar
    <3> QED
      BY <1>11, <3>1, <3>2
  <2>2. << >> \in Seq(1..MaxListed) /\ << >> \o << >> = << >>
    BY ConcatEmptySeq
  <2> QED
    BY <2>1, <2>2 DEF seen
<1>17. walk.first = 1 /\ ~walk.grown =>
         /\ walk.start = DOMAIN listed /\ ToSet(seen) \subseteq walk.start /\ walk.total = n
         /\ next < n => Len(seen) = next
         /\ next >= n => Len(seen) = n
  <2> SUFFICES ASSUME walk.first = 1, ~walk.grown
               PROVE  /\ walk.start = DOMAIN listed /\ ToSet(seen) \subseteq walk.start /\ walk.total = n
                      /\ next < n => Len(seen) = next
                      /\ next >= n => Len(seen) = n
    OBVIOUS
  <2>1. /\ walk.start = DOMAIN listed /\ ToSet(walk.seen) \subseteq walk.start
        /\ Len(walk.seen) = From(walk) /\ From(walk) <= n
    BY <1>7 DEF SeenSoFar
  <2>2. walk.total = n
    BY <1>7 DEF InTotal
  <2>3. Len(page) = (IF next > n THEN n ELSE next) - From(walk)
    <3>1. Offset(query) <= Len(answer) /\ Offset(query) + query.size = next
      BY <1>6, <1>8, <1>9, <1>10, <2>1
    <3> QED
      BY <1>6, <1>9, <1>11, <3>1
  <2> HIDE DEF n, next
  <2> QED
    BY <1>6, <1>8, <1>11, <1>12, <2>1, <2>2, <2>3
<1>18. CASE ~over
  <2>1. From(walk') = next /\ next < walk.total
    <3> DEFINE p == query.number
               s == query.size
    <3>1. p \in Nat /\ s \in Nat
      BY <1>4
    <3>2. walk'.query.number = p + 1 /\ walk'.query.size = s
      BY <1>13, <1>18
    <3> HIDE DEF p, s
    <3>3. (p + 1 - 1) * s = p * s
      BY <3>1
    <3>4. From(walk') = p * s
      BY <3>1, <3>2, FromIs
    <3> QED
      BY <1>4, <1>8, <1>18, <3>4 DEF p, s, over
  <2>2. walk.first = 1
    <3>1. ASSUME walk.first # 1 PROVE FALSE
      <4>1. query.number = MaxInt
        BY <1>7, <3>1 DEF SeenSoFar
      <4> QED
        BY <1>4, <1>8, <2>1, <4>1
    <3> QED
      BY <3>1
  <2>3. SeenSoFar(walk', listed, o)
    <3>1. walk.start \subseteq DOMAIN listed
      BY <1>7 DEF SeenSoFar
    <3> HIDE DEF o, n, next
    <3>2. next <= MaxListed
      BY <1>4, <1>8, <2>1
    <3>3. ~walk.grown => Len(seen) = next /\ next <= n
      BY <1>6, <1>8, <1>17, <2>1, <2>2
    <3> QED
      BY <1>13, <1>15, <1>17, <2>1, <2>2, <3>1, <3>2, <3>3 DEF SeenSoFar, n
  <2>4. WalkSound(walk', listed', Stable(walk.query)')
    BY <1>2, <1>7, <1>13, <1>14, <1>18, <2>3 DEF WalkSound
  <2>5. walk'.at = "count"
    BY <1>13, <1>18
  <2> QED
    BY <1>3, <2>4, <2>5, NothingPromised
<1>19. CASE over
  <2>1. walk'.at = "done"
    BY <1>13, <1>19
  <2>2. next >= walk.total
    BY <1>19 DEF over
  <2>3. ASSUME walk.first = 1, ~walk.between
        PROVE  walk.start \subseteq ToSet(seen)
    <3>1. walk.total = n
      BY <1>7, <2>3 DEF InTotal
    <3>2. ASSUME NEW r \in walk.start PROVE Rank(listed, r, o) < next
      <4>1. r \in DOMAIN listed
        BY <1>7 DEF SeenSoFar
      <4>2. PICK i \in 1..n : answer[i] = r
        BY <1>6, <4>1 DEF ToSet
      <4>3. Rank(listed, r, o) = i - 1
        <5>1. i \in 1..Cardinality(DOMAIN listed)
          OBVIOUS
        <5> HIDE DEF o, n
        <5> QED
          BY <1>3, <1>5, <4>2, <5>1, AnswerRanks
      <4> HIDE DEF o, n, next
      <4> QED
        BY <1>6, <1>8, <2>2, <3>1, <4>2, <4>3
    <3> QED
      BY <1>15, <2>3, <3>2
  <2>4. ASSUME walk.first = 1, ~walk.grown
        PROVE  EachOnce(seen, walk.start) /\ walk.total = Len(seen)
    <3>1. /\ walk.start = DOMAIN listed /\ ToSet(seen) \subseteq walk.start /\ walk.total = n /\ Len(seen) = n
      BY <1>17, <2>2, <2>4
    <3>2. walk.start \subseteq ToSet(seen)
      BY <1>7, <2>3, <2>4
    <3> QED
      BY <3>1, <3>2 DEF EachOnce
  <2>5. PagesComplete'
    <3>1. walk.first = MaxInt => seen = << >>
      BY <1>4, <1>16
    <3> QED
      BY <1>13, <2>3, <2>4, <3>1 DEF PagesComplete
  <2>6. ExportWhole'
    BY <2>1 DEF ExportWhole
  <2>7. WalkSound(walk', listed', Stable(walk.query)')
    BY <1>7, <1>13, <2>1 DEF WalkSound
  <2> QED
    BY <1>3, <2>5, <2>6, <2>7 DEF ListInv
<1> QED
  BY <1>18, <1>19

LEMMA ListKeeps == ListInv /\ [ListNext]_listVars => ListInv'
<1> SUFFICES ASSUME ListInv, [ListNext]_listVars PROVE ListInv'
  OBVIOUS
<1>1. CASE UNCHANGED listVars
  <2>1. UNCHANGED <<list, listed, lastRow, walk>>
    BY <1>1 DEF listVars
  <2> QED
    BY <2>1 DEF ListInv, RowsOK, WalkSound, SeenSoFar, InTotal, Stable, PagesComplete, ExportWhole
<1> QED
  BY <1>1, BrowseKeeps, CountKeeps, SelectKeeps, ExportKeeps, LeaveKeeps, InsertKeeps, DeleteListedKeeps, CleanKeeps, UpdateListedKeeps
  DEF ListNext

LEMMA ListFollows == ListInv => ListTypeOK /\ PagesComplete /\ ExportWhole
<1> SUFFICES ASSUME ListInv PROVE ListTypeOK
  BY DEF ListInv
<1>1. walk \in Walk /\ walk.query \in Query
  BY DEF ListInv, WalkSound, Walk
<1> QED
  BY <1>1 DEF ListInv, RowsOK, ListTypeOK, Walk, Query

LEMMA ListSound == ListSpec => [](ListTypeOK /\ PagesComplete /\ ExportWhole)
BY ListStart, ListKeeps, ListFollows, PTL DEF ListSpec

\* Types, for any rows, sizes of pages and bounds.
THEOREM ListTypeCorrect == ListSpec => []ListTypeOK
BY ListSound, PTL

\* A client that walks through the pages of a list sees every row once, and one
\* that exports it, too (page.go, export.go).
THEOREM PagesAlwaysComplete == ListSpec => [](PagesComplete /\ ExportWhole)
BY ListSound, PTL

=============================================================================
