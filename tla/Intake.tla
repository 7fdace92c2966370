------------------------------- MODULE Intake -------------------------------
(***************************************************************************)
(* One POST /hook/{source}, from its first byte to its answer, with the     *)
(* verification of its signature: the header "t=..., v1=..., ..." is parsed *)
(* part by part, as parseHeader's loop does.                                *)
(*                                                                          *)
(* A signature is modelled by what it was made of, the secret and the       *)
(* timestamp, over the payload at hand; every other text, hex or not, is    *)
(* one value.  Numbers keep the width of int64: Half stands for 2^63.       *)
(***************************************************************************)
EXTENDS Integers, Sequences

CONSTANTS
    Secrets,      \* non-empty signing secrets
    Times,        \* unix timestamps that senders write
    Tolerances,   \* values of tolerance_seconds
    Now,          \* when the request arrives
    Headers,      \* values of the signature header
    Second,       \* time.Second, in nanoseconds
    Half          \* a signed number is at least -Half and less than Half

Signature(secret, time) == [secret |-> secret, time |-> time]

Texts == [secret : Secrets, time : Times] \cup {[other |-> "text"]}

\* A part between commas.  A v1 part may be blank; a part without "=" or with another
\* key is "other"; a t part may hold something that is not a number.
Part == [kind : {"time"}, time : Times]
          \cup [kind : {"v1"}, text : Texts]
          \cup [kind : {"badTime", "blankV1", "other"}]

Rule == [secret : Secrets \cup {""}, tolerance : Tolerances]

ASSUME IntakeAssumption ==
    /\ "" \notin Secrets
    /\ Times \subseteq Int /\ Now \in Int /\ Tolerances \subseteq Nat
    /\ Headers \subseteq Seq(Part)
    /\ Second \in Nat \ {0} /\ Half \in Nat \ {0}

VARIABLES
    header,       \* the request's signature header
    rule,         \* what GetForwardingRule returned; a missing rule verifies nothing
    stage,        \* where ReceiveWebhook is
    part,         \* parseHeader: the part it looks at,
    foundTime,    \*   foundTime
    timestamp,    \*   timestamp
    candidates,   \*   values
    answer,       \* the HTTP status sent
    stored        \* the webhook is in the table

loop == <<part, foundTime, timestamp, candidates>>
vars == <<header, rule, stage, loop, answer, stored>>

Unverified == [secret |-> "", tolerance |-> 0]

Init == /\ header \in Headers
        /\ rule = Unverified
        /\ stage = "body"
        /\ part = 1
        /\ foundTime = FALSE
        /\ timestamp = 0
        /\ candidates = {}
        /\ answer = "none"
        /\ stored = FALSE

Reply(status) == stage' = "done" /\ answer' = status

-----------------------------------------------------------------------------
(* ReceiveWebhook up to the verification.                                     *)

\* An invalid source, an unreadable or a too large body.
RefuseBody ==
    /\ stage = "body"
    /\ \E status \in {"400", "413"} : Reply(status)
    /\ UNCHANGED <<header, rule, loop, stored>>

ReadBody ==
    /\ stage = "body"
    /\ stage' = "rule"
    /\ UNCHANGED <<header, rule, loop, answer, stored>>

\* The database is unavailable for the rule, or later for the webhook.
Unavailable ==
    /\ stage \in {"rule", "save"}
    /\ Reply("503")
    /\ UNCHANGED <<header, rule, loop, stored>>

LoadRule ==
    /\ stage = "rule"
    /\ rule' \in Rule \cup {Unverified}
    /\ stage' = IF rule'.secret = "" THEN "save" ELSE "parse"
    /\ UNCHANGED <<header, loop, answer, stored>>

-----------------------------------------------------------------------------
(* parseHeader and VerifyHeader.                                              *)

\* (Values_blankToo and the like: slips of the code that the properties must notice; no
\* action uses them.)
Values_blankToo(p) == CASE p.kind = "v1"      -> {p.text}
                        [] p.kind = "blankV1" -> {[other |-> "blank"]}
                        [] OTHER              -> {}

\* What a part adds to values; a blank v1 adds nothing.
Values(p) == IF p.kind = "v1" THEN {p.text} ELSE {}

\* The last timestamp counts; any that is not a number ends the parsing.
ParsePart ==
    /\ stage = "parse"
    /\ part \in DOMAIN header
    /\ \/ /\ header[part].kind = "time"
          /\ timestamp' = header[part].time
          /\ foundTime' = TRUE
          /\ part' = part + 1
          /\ UNCHANGED <<stage, candidates, answer>>
       \/ /\ header[part].kind \notin {"time", "badTime"}
          /\ candidates' = candidates \cup Values(header[part])
          /\ part' = part + 1
          /\ UNCHANGED <<stage, foundTime, timestamp, answer>>
       \/ /\ header[part].kind = "badTime"
          /\ Reply("401")
          /\ UNCHANGED loop
    /\ UNCHANGED <<header, rule, stored>>

\* Arithmetic on int64.
Wrapped(x) == ((x + Half) % (2 * Half)) - Half

Abs(x) == IF x < 0 THEN -x ELSE x

Age == Wrapped(Abs(Wrapped(Now - timestamp)))

Expired_orEqual == /\ rule.tolerance > 0
                   /\ Wrapped(Age * Second) >= Wrapped(rule.tolerance * Second)

\* A tolerance of 0 disables the check.  (The rule's seconds become a Duration first.)
Expired == /\ Wrapped(rule.tolerance * Second) > 0
           /\ Wrapped(Age * Second) > Wrapped(rule.tolerance * Second)

Matches_anyTime == \E text \in candidates : text \in [secret : {rule.secret}, time : Times]

Matches == Signature(rule.secret, timestamp) \in candidates

Judge ==
    /\ stage = "parse"
    /\ part \notin DOMAIN header
    /\ IF foundTime /\ candidates # {} /\ ~Expired /\ Matches
       THEN stage' = "save" /\ UNCHANGED answer
       ELSE Reply("401")
    /\ UNCHANGED <<header, rule, loop, stored>>

-----------------------------------------------------------------------------
Save ==
    /\ stage = "save"
    /\ stored' = TRUE
    /\ Reply("202")
    /\ UNCHANGED <<header, rule, loop>>

\* The insert happened, but its answer or the request was lost.
SaveUnknown ==
    /\ stage = "save"
    /\ stored' = TRUE
    /\ Reply("503")
    /\ UNCHANGED <<header, rule, loop>>

Next == \/ RefuseBody \/ ReadBody
        \/ Unavailable
        \/ LoadRule
        \/ ParsePart \/ Judge
        \/ Save \/ SaveUnknown

Spec == Init /\ [][Next]_vars

-----------------------------------------------------------------------------
(* Properties.                                                                *)

\* Every variable has its type.
TypeOK ==
    /\ header \in Seq(Part)
    /\ rule \in Rule \cup {Unverified}
    /\ stage \in {"body", "rule", "parse", "save", "done"}
    /\ part \in 1 .. Len(header) + 1
    /\ foundTime \in BOOLEAN
    /\ timestamp \in Times \cup {0}
    /\ candidates \subseteq Texts
    /\ answer \in {"none", "202", "400", "401", "413", "503"}
    /\ stored \in BOOLEAN

\* What the documents promise of a signature header, without a loop: every timestamp is
\* a number, the last one is within the tolerance, and some v1 part is the signature
\* with the rule's secret for that timestamp.
LastTime(h, i) == /\ i \in DOMAIN h /\ h[i].kind = "time"
                  /\ \A j \in DOMAIN h : h[j].kind = "time" => j <= i

Fresh(time) == rule.tolerance = 0 \/ Abs(Now - time) <= rule.tolerance

Genuine ==
    /\ \A i \in DOMAIN header : header[i].kind # "badTime"
    /\ \E i, j \in DOMAIN header :
           /\ LastTime(header, i)
           /\ Fresh(header[i].time)
           /\ header[j].kind = "v1"
           /\ header[j].text = Signature(rule.secret, header[i].time)

\* Ages and tolerances that fit a Duration, some 292 years.
Representable ==
    /\ rule.tolerance * Second < Half
    /\ \A i \in DOMAIN header :
           header[i].kind = "time" => Abs(Now - header[i].time) * Second < Half

\* Where the source verifies, nothing is stored but events with a genuine signature ...
StoredIsGenuine == stored /\ rule.secret # "" /\ Representable => Genuine

\* ... and no event with a genuine one is refused for its signature.
GenuineIsNotRefused == answer = "401" /\ Representable => ~Genuine

=============================================================================
