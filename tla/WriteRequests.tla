---------------------------- MODULE WriteRequests ----------------------------
(***************************************************************************)
(* What surrounds the handler of a write or an export: RepeatSubmit on     *)
(* routes that create, ExportLimit on exports, and OperLog, which keeps a  *)
(* copy of the answer and writes the record of the operation               *)
(* (internal/middleware, in the order of router.go).  Pool has what        *)
(* becomes of a record, LoginGuards the limit of anonymous requests.       *)
(*                                                                         *)
(* The requests that create are one client's, to one path.  Answers are    *)
(* texts in UTF-8, a sequence of bytes: a character of one byte, "a", or   *)
(* one that begins with "b" or "c" and has one or two bytes "_" more.      *)
(***************************************************************************)
EXTENDS Naturals, FiniteSets, Sequences, SequencesExt

CONSTANTS
    Requests,
    Prints,       \* fingerprints of what requests carry
    Unsaid,       \* no fingerprint
    MaxExports,   \* MaxConcurrentExports
    MaxResult,    \* maxResultLength, in bytes
    Outcomes      \* what handlers are sent, and what they answer in how many writes

ASSUME RequestsAssumption == IsFiniteSet(Requests) /\ MaxExports \in Nat /\ MaxResult \in Nat

VARIABLES
    latest,       \* the fingerprint in Redis
    letPast,      \* what was let through last within the interval, and how often in a row
    exportSlots,  \* those in use
    request,      \* request -> where it is
    record        \* of the operation that ended in the last step, with what it is to be judged by

requestVars == <<latest, letPast, exportSlots, request, record>>

NoRequest == [at |-> "idle", kind |-> "edit", print |-> Unsaid]
Nothing == [print |-> Unsaid, times |-> 0]
NoRecord == [answer |-> << >>, fails |-> FALSE, secret |-> FALSE,
             log |-> [result |-> << >>, fails |-> FALSE, params |-> "empty"]]

RequestsInit ==
    /\ latest = Unsaid /\ letPast = Nothing /\ exportSlots = 0
    /\ request = [r \in Requests |-> NoRequest]
    /\ record = NoRecord

RequestAt(r, place) == request[r].at = place
RequestGoes(r, place) == request' = [request EXCEPT ![r].at = place]
EndRequest(r) == request' = [request EXCEPT ![r] = NoRequest]

Arrive(r, kind, print) ==
    /\ RequestAt(r, "idle")
    /\ kind = "create" <=> print # Unsaid
    /\ request' = [request EXCEPT ![r] = [kind |-> kind, print |-> print,
                     at |-> CASE kind = "create" -> "check" [] kind = "export" -> "wait" [] OTHER -> "permission"]]
    /\ record' = NoRecord /\ UNCHANGED <<latest, letPast, exportSlots>>

-----------------------------------------------------------------------------
(* RepeatSubmit.                                                           *)

\* Another fingerprint takes the place of the last and begins the interval anew.
\* A file that is uploaded is not looked at, and a failing Redis lets pass.
RepeatSubmit(r) ==
    LET print == request[r].print IN
    /\ RequestAt(r, "check")
    /\ \/ latest = print /\ EndRequest(r) /\ UNCHANGED <<latest, letPast>>
       \/ /\ latest # print
          /\ latest' = print
          /\ letPast' = [print |-> print, times |-> IF letPast.print = print THEN letPast.times + 1 ELSE 1]
          /\ RequestGoes(r, "permission")
       \/ RequestGoes(r, "permission") /\ UNCHANGED <<latest, letPast>>
    /\ record' = NoRecord /\ UNCHANGED exportSlots

ForgetPrint ==
    /\ latest # Unsaid
    /\ latest' = Unsaid /\ letPast' = Nothing
    /\ record' = NoRecord /\ UNCHANGED <<exportSlots, request>>

-----------------------------------------------------------------------------
(* ExportLimit.                                                            *)

TakeSlot(r) ==
    /\ RequestAt(r, "wait") /\ exportSlots < MaxExports
    /\ exportSlots' = exportSlots + 1
    /\ RequestGoes(r, "permission")
    /\ record' = NoRecord /\ UNCHANGED <<latest, letPast>>

\* The timer, which may win although a slot is free, or the client has gone.
StopWaiting(r) == RequestAt(r, "wait") /\ EndRequest(r) /\ record' = NoRecord /\ UNCHANGED <<latest, letPast, exportSlots>>

\* Deferred: however the request ends.
Released(r) == IF request[r].kind = "export" THEN exportSlots - 1 ELSE exportSlots

HasPermission(r) ==
    /\ RequestAt(r, "permission")
    /\ \/ RequestGoes(r, "handler") /\ UNCHANGED exportSlots
       \/ EndRequest(r) /\ exportSlots' = Released(r)
    /\ record' = NoRecord /\ UNCHANGED <<latest, letPast>>

-----------------------------------------------------------------------------
(* OperLog.                                                                *)

Prefix(text, n) == SubSeq(text, 1, n)
Bytes(first) == CASE first = "a" -> 1 [] first = "b" -> 2 [] OTHER -> 3

ValidString(text) ==
    \A n \in DOMAIN text :
        IF text[n] = "_" THEN \E k \in 1..(n - 1) : text[k] # "_" /\ k + Bytes(text[k]) > n
        ELSE LET rest == (n + 1)..(n + Bytes(text[n]) - 1)
             IN rest \subseteq DOMAIN text /\ \A k \in rest : text[k] = "_"

\* Handlers answer in UTF-8, whatever the writes are that an answer is sent in.
Byte == {"a", "b", "c", "_"}
ASSUME OutcomesAssumption ==
    \A outcome \in Outcomes :
        /\ outcome.writes \in Seq(Seq(Byte)) /\ ValidString(FlattenSeq(outcome.writes))
        /\ outcome.fails \in BOOLEAN /\ outcome.secret \in BOOLEAN

\* responseCapture: of each write what still fits; a file is not kept.
Captured(writes) ==
    LET kept[n \in 0..Len(writes)] ==
            IF n = 0 THEN << >>
            ELSE LET room == MaxResult - Len(kept[n - 1])
                 IN kept[n - 1] \o Prefix(writes[n], IF Len(writes[n]) > room THEN room ELSE Len(writes[n]))
    IN kept[Len(writes)]

\* Back to where a character begins, and on to where nothing of one is left over.
truncate(text, max) ==
    LET start == IF Len(text) > max THEN max ELSE Len(text)
        begins(n) == n = 0 \/ n >= Len(text) \/ text[n + 1] # "_"
        back == CHOOSE n \in 0..start : begins(n) /\ \A k \in (n + 1)..start : ~begins(k)
    IN Prefix(text, CHOOSE n \in 0..back : ValidString(Prefix(text, n))
                        /\ \A k \in (n + 1)..back : ~ValidString(Prefix(text, k)))

\* Every answer has status 200 and says in its code whether it failed; one of
\* which only a part was kept is no JSON.
extractCode(writes, fails) == fails /\ Captured(writes) = FlattenSeq(writes)

\* JSON and forms that can be parsed have their secrets replaced, at whatever
\* depth; of files, of anything else and of what cannot be parsed nothing is kept.
desensitizeBody(body, secret) ==
    CASE body = "none" -> "empty"
      [] body = "parsed" -> IF secret THEN "masked" ELSE "whole"
      [] OTHER -> "omitted"

buildOperLog(writes, fails, body, secret) ==
    [result |-> truncate(Captured(writes), MaxResult), fails |-> extractCode(writes, fails),
     params |-> desensitizeBody(body, secret)]

\* The handler answers. A file that is exported is not captured.
OperLog(r, outcome) ==
    LET fails == outcome.fails
        writes == IF request[r].kind = "export" /\ ~fails THEN << >> ELSE outcome.writes
    IN
    /\ RequestAt(r, "handler")
    /\ record' = [answer |-> FlattenSeq(writes), fails |-> fails, secret |-> outcome.secret,
                  log |-> buildOperLog(writes, fails, outcome.body, outcome.secret)]
    /\ EndRequest(r)
    /\ exportSlots' = Released(r)
    /\ UNCHANGED <<latest, letPast>>

\* A panic passes by what OperLog does after the handler; Recovery answers.
Recovery(r) ==
    /\ RequestAt(r, "handler")
    /\ EndRequest(r)
    /\ exportSlots' = Released(r)
    /\ record' = NoRecord /\ UNCHANGED <<latest, letPast>>

RequestsNext ==
    \/ \E r \in Requests :
        \/ \E kind \in {"create", "edit", "export"}, print \in Prints \cup {Unsaid} : Arrive(r, kind, print)
        \/ RepeatSubmit(r) \/ TakeSlot(r) \/ StopWaiting(r) \/ HasPermission(r)
        \/ \E outcome \in Outcomes : OperLog(r, outcome)
        \/ Recovery(r)
    \/ ForgetPrint

RequestsSpec == RequestsInit /\ [][RequestsNext]_requestVars

-----------------------------------------------------------------------------
RequestsTypeOK ==
    /\ latest \in Prints \cup {Unsaid} /\ letPast.print \in Prints \cup {Unsaid}
    /\ exportSlots \in 0..MaxExports
    /\ \A r \in Requests :
         /\ request[r].at \in {"idle", "check", "wait", "permission", "handler"}
         /\ request[r].kind \in {"create", "edit", "export"} /\ request[r].print \in Prints \cup {Unsaid}
    /\ ValidString(record.answer)

\* As many slots are taken as exports are at work, through refusals, failures
\* and panics: none is lost, and there are never more (exportlimit.go:29).
SlotsKept ==
    exportSlots = Cardinality({r \in Requests : request[r].kind = "export" /\ request[r].at \in {"permission", "handler"}})

\* The same request to create is not let through twice in a row, however many
\* come at once, unless the interval passed or Redis failed (repeatsubmit.go:44).
RepeatsRefused == letPast.times <= 1

\* The record of an operation is text that the database takes, the longest there
\* is room for, tells of no failure there was not and, if all of the answer was
\* kept, of the one there was; and it holds no secret (operlog.go:113, operlog.go:140).
RecordSound ==
    LET log == record.log
        answer == record.answer
    IN /\ ValidString(log.result) /\ Len(log.result) <= MaxResult
       /\ log.result = Prefix(answer, Len(log.result))
       /\ \A n \in 0..Len(answer) : n <= MaxResult /\ ValidString(Prefix(answer, n)) => n <= Len(log.result)
       /\ log.fails => record.fails
       /\ record.fails /\ Len(answer) <= MaxResult => log.fails
       /\ record.secret => log.params # "whole"

RequestsSound == SlotsKept /\ RepeatsRefused /\ RecordSound

=============================================================================
