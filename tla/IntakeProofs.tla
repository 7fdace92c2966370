---------------------------- MODULE IntakeProofs -----------------------------
(***************************************************************************)
(* Machine-checked theorems about Intake: for headers of any length, any    *)
(* secrets, times and tolerances, and numbers of any width.                 *)
(***************************************************************************)
EXTENDS Intake, SequenceTheorems, TLAPS

\* The indices of the parts that parseHeader has looked at.
Seen == {i \in DOMAIN header : i < part}

\* The loop invariant of parseHeader: no part so far was a bad timestamp, timestamp is
\* that of the last time part so far, and candidates are the texts of the v1 parts.
Parsed ==
    /\ \A i \in Seen : header[i].kind # "badTime"
    /\ ~foundTime => \A i \in Seen : header[i].kind # "time"
    /\ foundTime => \E i \in Seen : /\ header[i].kind = "time" /\ header[i].time = timestamp
                                    /\ \A j \in Seen : header[j].kind = "time" => j <= i
    /\ \A i \in Seen : header[i].kind = "v1" => header[i].text \in candidates
    /\ \A text \in candidates : \E i \in Seen : header[i].kind = "v1" /\ header[i].text = text

\* What the handler knows of the signature, from the stage it has reached.
Judged ==
    /\ stage \in {"body", "rule"} => part = 1 /\ foundTime = FALSE /\ candidates = {}
    /\ stage = "parse" => rule.secret # ""
    /\ stage # "done" => answer = "none" /\ stored = FALSE
    /\ (stage = "save" \/ stored) /\ rule.secret # "" /\ Representable => Genuine
    /\ answer = "401" /\ Representable => ~Genuine

IInv == TypeOK /\ Parsed /\ Judged

-----------------------------------------------------------------------------
\* The numbers among the constants.
LEMMA Numbers == /\ Second \in Nat \ {0} /\ Half \in Nat \ {0} /\ Now \in Int
                 /\ Times \subseteq Int /\ Tolerances \subseteq Nat
  BY IntakeAssumption, Zenon

\* A sequence over a set, as a function.
LEMMA Elements ==
    ASSUME NEW S, NEW s \in Seq(S)
    PROVE  Len(s) \in Nat /\ DOMAIN s = 1 .. Len(s) /\ \A i \in DOMAIN s : s[i] \in S
  OBVIOUS

\* The fields of a part, by its kind.
LEMMA PartFields ==
    ASSUME NEW p \in Part
    PROVE  /\ p.kind = "time" => p.time \in Times
           /\ p.kind = "v1" => p.text \in Texts
  BY DEF Part

\* What TypeOK says of the loop over the header.
LEMMA HeaderParts ==
    ASSUME TypeOK
    PROVE  /\ Len(header) \in Nat /\ DOMAIN header = 1 .. Len(header)
           /\ \A i \in DOMAIN header : header[i] \in Part
           /\ part \in 1 .. Len(header) + 1
           /\ timestamp \in Int /\ rule \in Rule \cup {Unverified}
  <1>1. header \in Seq(Part) /\ part \in 1 .. Len(header) + 1
    BY Zenon DEF TypeOK
  <1>2. timestamp \in Times \cup {0} /\ rule \in Rule \cup {Unverified}
    BY Zenon DEF TypeOK
  <1>3. timestamp \in Int
    BY <1>2, Numbers
  <1>4. Len(header) \in Nat /\ DOMAIN header = 1 .. Len(header) /\ \A i \in DOMAIN header : header[i] \in Part
    BY <1>1, Elements, Zenon
  <1>. QED
    BY <1>1, <1>2, <1>3, <1>4, Zenon

\* A number within the range of int64 is not changed by it.
LEMMA WrappedIsExact ==
    ASSUME NEW x \in Int, -Half <= x, x < Half
    PROVE  Wrapped(x) = x
  <1>. DEFINE y == x + Half
              n == 2 * Half
  <1>1. y \in Int /\ n \in Int /\ 0 <= y /\ y < n
    BY Numbers
  <1>. HIDE DEF y, n
  <1>2. y % n = y
    BY <1>1
  <1>. QED
    BY <1>2, Numbers DEF Wrapped, y, n

\* A factor of at least one keeps the order, and makes nothing smaller.
LEMMA Scaled ==
    ASSUME NEW a \in Nat, NEW b \in Nat
    PROVE  /\ a * Second \in Nat /\ a <= a * Second
           /\ a * Second > b * Second <=> a > b
  <1>1. Second \in Nat /\ Second >= 1
    BY Numbers
  <1>2. a * Second \in Nat /\ b * Second \in Nat /\ a <= a * Second
    BY <1>1
  <1>3. CASE a > b
    <2>1. (a - b) * Second >= 1
      BY <1>1, <1>3
    <2>2. (a - b) * Second = a * Second - b * Second
      BY <1>1
    <2>. QED
      BY <1>2, <1>3, <2>1, <2>2
  <1>4. CASE a <= b
    <2>1. (b - a) * Second >= 0
      BY <1>1, <1>4
    <2>2. (b - a) * Second = b * Second - a * Second
      BY <1>1
    <2>. QED
      BY <1>2, <1>4, <2>1, <2>2
  <1>. QED
    BY <1>2, <1>3, <1>4

\* Where ages and tolerances are representable, the check of VerifyHeader is the one
\* of the documents.
LEMMA ExpiredIsNotFresh ==
    ASSUME rule.tolerance \in Nat, timestamp \in Int,
           rule.tolerance * Second < Half, Abs(Now - timestamp) * Second < Half
    PROVE  Expired <=> ~Fresh(timestamp)
  <1>. DEFINE age == Abs(Now - timestamp)
  <1>1. Now - timestamp \in Int /\ age \in Nat /\ -age <= Now - timestamp /\ Now - timestamp <= age
    BY Numbers DEF Abs
  <1>2. age * Second \in Nat /\ age <= age * Second /\ rule.tolerance * Second \in Nat
    BY <1>1, Scaled
  <1>3. Wrapped(Now - timestamp) = Now - timestamp
    <2>1. age * Second < Half /\ Half \in Nat
      BY Numbers
    <2>. HIDE DEF age
    <2>2. -Half <= Now - timestamp /\ Now - timestamp < Half
      BY <1>1, <1>2, <2>1
    <2>. QED
      BY <1>1, <2>2, WrappedIsExact
  <1>4. Age = age
    <2>1. age < Half /\ -Half <= age
      BY <1>1, <1>2, Numbers
    <2>. QED
      BY <1>1, <1>3, <2>1, WrappedIsExact DEF Age
  <1>5. Wrapped(age * Second) = age * Second
    BY <1>2, WrappedIsExact, Numbers
  <1>6. Wrapped(rule.tolerance * Second) = rule.tolerance * Second
    BY <1>2, WrappedIsExact, Numbers
  <1>7. Expired <=> rule.tolerance * Second > 0 /\ age * Second > rule.tolerance * Second
    BY <1>4, <1>5, <1>6 DEF Expired
  <1>. HIDE DEF age
  <1>8. rule.tolerance * Second > 0 <=> rule.tolerance > 0
    BY Scaled, Numbers
  <1>9. age * Second > rule.tolerance * Second <=> age > rule.tolerance
    BY <1>1, Scaled
  <1>. QED
    BY <1>1, <1>7, <1>8, <1>9 DEF Fresh, age

\* After the last part: Judge accepts exactly the genuine headers.
LEMMA JudgeIsRight ==
    ASSUME TypeOK, Parsed, part \notin DOMAIN header, Representable
    PROVE  (foundTime /\ candidates # {} /\ ~Expired /\ Matches) <=> Genuine
  <1>1. Seen = DOMAIN header
    BY HeaderParts DEF Seen
  <1>2. /\ rule.tolerance \in Nat /\ timestamp \in Int
        /\ \A i \in DOMAIN header : header[i].kind = "time" => header[i].time \in Int
    <2>1. timestamp \in Int /\ \A i \in DOMAIN header : header[i].kind = "time" => header[i].time \in Int
      BY HeaderParts, PartFields, Numbers
    <2>2. rule \in Rule \cup {Unverified}
      BY HeaderParts
    <2>3. rule.tolerance \in Nat
      <3>1. CASE rule \in Rule
        <4>1. rule.tolerance \in Tolerances
          BY <3>1 DEF Rule
        <4>. QED
          BY <4>1, Numbers
      <3>2. CASE rule = Unverified
        BY <3>2 DEF Unverified
      <3>. QED
        BY <2>2, <3>1, <3>2
    <2>. QED
      BY <2>1, <2>3
  <1>3. ASSUME NEW i \in DOMAIN header, LastTime(header, i)
        PROVE  foundTime /\ timestamp = header[i].time /\ (Expired <=> ~Fresh(header[i].time))
    <2>1. header[i].kind = "time" /\ \A j \in DOMAIN header : header[j].kind = "time" => j <= i
      BY <1>3 DEF LastTime
    <2>2. foundTime
      BY <1>1, <2>1 DEF Parsed
    <2>3. PICK k \in Seen : /\ header[k].kind = "time" /\ header[k].time = timestamp
                            /\ \A j \in Seen : header[j].kind = "time" => j <= k
      BY <2>2 DEF Parsed
    <2>4. k = i
      BY <1>1, <2>1, <2>3, HeaderParts
    <2>5. /\ rule.tolerance * Second < Half /\ Abs(Now - timestamp) * Second < Half
      BY <1>1, <2>3 DEF Representable
    <2>. QED
      BY <1>2, <2>2, <2>3, <2>4, <2>5, ExpiredIsNotFresh
  <1>4. ASSUME foundTime, candidates # {}, ~Expired, Matches PROVE Genuine
    <2>1. PICK i \in DOMAIN header : LastTime(header, i)
      BY <1>1, <1>4 DEF Parsed, LastTime
    <2>2. timestamp = header[i].time /\ Fresh(header[i].time)
      BY <1>3, <1>4, <2>1
    <2>3. PICK j \in DOMAIN header : /\ header[j].kind = "v1"
                                     /\ header[j].text = Signature(rule.secret, timestamp)
      BY <1>1, <1>4 DEF Parsed, Matches
    <2>. QED
      BY <1>1, <2>1, <2>2, <2>3 DEF Genuine, Parsed
  <1>5. ASSUME Genuine PROVE foundTime /\ candidates # {} /\ ~Expired /\ Matches
    <2>1. PICK i \in DOMAIN header, j \in DOMAIN header :
             /\ LastTime(header, i) /\ Fresh(header[i].time)
             /\ header[j].kind = "v1" /\ header[j].text = Signature(rule.secret, header[i].time)
      BY <1>5 DEF Genuine
    <2>2. foundTime /\ timestamp = header[i].time /\ ~Expired
      BY <1>3, <2>1
    <2>3. Signature(rule.secret, timestamp) \in candidates
      BY <1>1, <2>1, <2>2 DEF Parsed
    <2>. QED
      BY <2>2, <2>3 DEF Matches
  <1>. QED
    BY <1>4, <1>5

-----------------------------------------------------------------------------
\* A part is looked at: the loop invariant holds for one more.
LEMMA ParsePartKeeps ==
    ASSUME IInv, ParsePart
    PROVE  IInv'
  <1>. USE DEF IInv
  <1>1. /\ stage = "parse" /\ part \in DOMAIN header /\ UNCHANGED <<header, rule, stored>>
        /\ DOMAIN header = 1 .. Len(header) /\ Len(header) \in Nat
        /\ header[part] \in Part /\ rule.secret # "" /\ answer = "none" /\ stored = FALSE
    BY HeaderParts DEF ParsePart, Judged
  <1>2. ASSUME part' = part + 1
        PROVE  Seen' = Seen \cup {part} /\ part' \in 1 .. Len(header) + 1
    <2>1. Len(header) \in Nat /\ DOMAIN header = 1 .. Len(header) /\ part \in DOMAIN header
      BY <1>1
    <2>2. Seen' = {i \in DOMAIN header : i < part + 1}
      BY <1>1, <1>2 DEF Seen
    <2>. QED
      BY <1>2, <2>1, <2>2 DEF Seen
  <1>3. CASE header[part].kind = "time"
    <2>1. /\ timestamp' = header[part].time /\ foundTime' = TRUE /\ part' = part + 1
          /\ UNCHANGED <<stage, candidates, answer>>
      BY <1>1, <1>3 DEF ParsePart
    <2>2. header[part].time \in Times
      BY <1>1, <1>3 DEF Part
    <2>3. TypeOK'
      BY <1>1, <1>2, <2>1, <2>2 DEF TypeOK
    <2>4. Parsed'
      <3>1. Len(header) \in Nat /\ DOMAIN header = 1 .. Len(header) /\ part \in DOMAIN header
        BY <1>1
      <3>2. \A j \in Seen \cup {part} : j <= part
        BY <3>1 DEF Seen
      <3>3. \A i \in Seen \cup {part} : header[i].kind # "badTime"
        BY <1>3 DEF Parsed
      <3>4. /\ \A i \in Seen \cup {part} : header[i].kind = "v1" => header[i].text \in candidates
            /\ \A text \in candidates : \E i \in Seen \cup {part} :
                  header[i].kind = "v1" /\ header[i].text = text
        BY <1>3 DEF Parsed
      <3>. QED
        BY <1>1, <1>2, <1>3, <2>1, <3>2, <3>3, <3>4 DEF Parsed
    <2>5. Judged'
      BY <1>1, <2>1 DEF Judged
    <2>. QED
      BY <2>3, <2>4, <2>5
  <1>4. CASE header[part].kind \notin {"time", "badTime"}
    <2>1. /\ candidates' = candidates \cup Values(header[part]) /\ part' = part + 1
          /\ UNCHANGED <<stage, foundTime, timestamp, answer>>
      BY <1>1, <1>4 DEF ParsePart
    <2>2. Values(header[part]) \subseteq Texts
      BY <1>1 DEF Values, Part
    <2>3. TypeOK'
      BY <1>1, <1>2, <2>1, <2>2 DEF TypeOK
    <2>4. Parsed'
      BY <1>1, <1>2, <1>4, <2>1 DEF Parsed, Values
    <2>5. Judged'
      BY <1>1, <2>1 DEF Judged
    <2>. QED
      BY <2>3, <2>4, <2>5
  <1>5. CASE header[part].kind = "badTime"
    <2>1. stage' = "done" /\ answer' = "401" /\ UNCHANGED loop
      BY <1>1, <1>5 DEF ParsePart, Reply
    <2>2. TypeOK'
      BY <1>1, <2>1 DEF TypeOK, loop
    <2>3. Parsed'
      BY <1>1, <2>1 DEF Parsed, Seen, loop
    <2>4. ~Genuine'
      BY <1>1, <1>5 DEF Genuine
    <2>5. Judged'
      BY <1>1, <2>1, <2>4 DEF Judged
    <2>. QED
      BY <2>2, <2>3, <2>5
  <1>. QED
    BY <1>3, <1>4, <1>5

\* The verdict: what is kept and what is refused follows the documents.
LEMMA JudgeKeeps ==
    ASSUME IInv, Judge
    PROVE  IInv'
  <1>. USE DEF IInv
  <1>1. /\ stage = "parse" /\ part \notin DOMAIN header /\ UNCHANGED <<header, rule, loop, stored>>
        /\ rule.secret # "" /\ answer = "none" /\ stored = FALSE
    BY DEF Judge, Judged
  <1>2. Parsed' /\ (Genuine' <=> Genuine) /\ (Representable' <=> Representable)
    BY <1>1 DEF Parsed, Seen, loop, Genuine, Representable, Fresh
  <1>3. CASE foundTime /\ candidates # {} /\ ~Expired /\ Matches
    <2>1. stage' = "save" /\ UNCHANGED answer
      BY <1>3 DEF Judge
    <2>2. TypeOK'
      BY <1>1, <2>1 DEF TypeOK, loop
    <2>3. Representable => Genuine
      BY <1>1, <1>3, JudgeIsRight
    <2>. QED
      BY <1>1, <1>2, <2>1, <2>2, <2>3 DEF Judged
  <1>4. CASE ~(foundTime /\ candidates # {} /\ ~Expired /\ Matches)
    <2>1. stage' = "done" /\ answer' = "401"
      BY <1>4 DEF Judge, Reply
    <2>2. TypeOK'
      BY <1>1, <2>1 DEF TypeOK, loop
    <2>3. Representable => ~Genuine
      BY <1>1, <1>4, JudgeIsRight
    <2>. QED
      BY <1>1, <1>2, <2>1, <2>2, <2>3 DEF Judged
  <1>. QED
    BY <1>3, <1>4

\* The steps before and after the verification.
LEMMA OthersKeep ==
    ASSUME IInv, RefuseBody \/ ReadBody \/ Unavailable \/ Save \/ SaveUnknown
    PROVE  IInv'
  <1>. USE DEF IInv
  <1>1. /\ UNCHANGED <<header, rule, loop>> /\ stage \notin {"parse", "done"}
        /\ answer = "none" /\ stored = FALSE
    BY DEF RefuseBody, ReadBody, Unavailable, Save, SaveUnknown, Judged
  <1>2. Parsed' /\ (Genuine' <=> Genuine) /\ (Representable' <=> Representable)
    BY <1>1 DEF Parsed, Seen, loop, Genuine, Representable, Fresh
  <1>3. CASE ReadBody
    <2>1. stage = "body" /\ stage' = "rule" /\ UNCHANGED <<answer, stored>>
      BY <1>3 DEF ReadBody
    <2>2. TypeOK'
      BY <1>1, <2>1 DEF TypeOK, loop
    <2>3. Judged'
      BY <1>1, <2>1 DEF Judged, loop
    <2>. QED
      BY <1>2, <2>2, <2>3
  <1>4. CASE RefuseBody \/ Unavailable
    <2>1. stage' = "done" /\ answer' \in {"400", "413", "503"} /\ UNCHANGED stored
      BY <1>4 DEF RefuseBody, Unavailable, Reply
    <2>2. TypeOK'
      BY <1>1, <2>1 DEF TypeOK, loop
    <2>3. Judged'
      BY <1>1, <2>1 DEF Judged
    <2>. QED
      BY <1>2, <2>2, <2>3
  <1>5. CASE Save \/ SaveUnknown
    <2>1. /\ stage = "save" /\ stage' = "done" /\ answer' \in {"202", "503"} /\ stored' = TRUE
      BY <1>5 DEF Save, SaveUnknown, Reply
    <2>2. TypeOK'
      BY <1>1, <2>1 DEF TypeOK, loop
    <2>3. Judged'
      BY <1>1, <1>2, <2>1 DEF Judged
    <2>. QED
      BY <1>2, <2>2, <2>3
  <1>. QED
    BY <1>3, <1>4, <1>5

\* The rule decides whether there is a signature to verify.
LEMMA LoadRuleKeeps ==
    ASSUME IInv, LoadRule
    PROVE  IInv'
  <1>. USE DEF IInv
  <1>1. /\ stage = "rule" /\ rule' \in Rule \cup {Unverified}
        /\ stage' = IF rule'.secret = "" THEN "save" ELSE "parse"
        /\ UNCHANGED <<header, loop, answer, stored>> /\ answer = "none" /\ stored = FALSE
    BY DEF LoadRule, Judged
  <1>2. TypeOK'
    BY <1>1 DEF TypeOK, loop
  <1>3. Parsed'
    BY <1>1 DEF Parsed, Seen, loop
  <1>4. Judged'
    BY <1>1 DEF Judged
  <1>. QED
    BY <1>2, <1>3, <1>4

-----------------------------------------------------------------------------
\* The inductive invariant: the loop invariant of parseHeader, and that the stages
\* after it know whether the signature is genuine.
THEOREM IntakeInvariance == Spec => []IInv
<1>1. Init => IInv
  <2>. SUFFICES ASSUME Init PROVE IInv
    OBVIOUS
  <2>1. TypeOK
    <3>1. header \in Seq(Part)
      BY IntakeAssumption, Zenon DEF Init
    <3>2. Len(header) \in Nat
      BY <3>1, Elements, Zenon
    <3>3. part \in 1 .. Len(header) + 1
      BY <3>2 DEF Init
    <3>4. /\ rule \in Rule \cup {Unverified} /\ stage = "body" /\ foundTime \in BOOLEAN
          /\ timestamp \in Times \cup {0} /\ candidates \subseteq Texts
          /\ answer = "none" /\ stored \in BOOLEAN
      BY DEF Init
    <3>. QED
      BY <3>1, <3>3, <3>4, Zenon DEF TypeOK
  <2>2. Seen = {}
    <3>1. DOMAIN header = 1 .. Len(header) /\ Len(header) \in Nat /\ part = 1
      BY <2>1, HeaderParts DEF Init
    <3>. QED
      BY <3>1 DEF Seen
  <2>3. Parsed
    BY <2>2 DEF Parsed, Init
  <2>4. Judged
    BY DEF Judged, Init, Unverified
  <2>. QED
    BY <2>1, <2>3, <2>4 DEF IInv
<1>2. IInv /\ [Next]_vars => IInv'
  <2>. SUFFICES ASSUME IInv, [Next]_vars PROVE IInv'
    OBVIOUS
  <2>1. CASE UNCHANGED vars
    <3>1. UNCHANGED <<header, rule, stage, part, foundTime, timestamp, candidates, answer, stored>>
      BY <2>1 DEF vars, loop
    <3>2. TypeOK' /\ (Genuine' <=> Genuine) /\ (Representable' <=> Representable)
      BY <3>1 DEF IInv, TypeOK, Genuine, Representable, Fresh
    <3>3. Parsed'
      BY <3>1 DEF IInv, Parsed, Seen
    <3>4. Judged'
      BY <3>1, <3>2 DEF IInv, Judged
    <3>. QED
      BY <3>2, <3>3, <3>4 DEF IInv
  <2>. QED
    BY <2>1, ParsePartKeeps, JudgeKeeps, OthersKeep, LoadRuleKeeps DEF Next
<1>. QED
  BY <1>1, <1>2, PTL DEF Spec

\* TypeOK: every variable keeps its type.
THEOREM IntakeTypes == Spec => []TypeOK
<1>1. IInv => TypeOK
  BY DEF IInv
<1>. QED
  BY <1>1, IntakeInvariance, PTL

\* StoredIsGenuine: where the source verifies, a stored event had a genuine signature,
\* for ages and tolerances that fit a Duration.
THEOREM StoredStaysGenuine == Spec => []StoredIsGenuine
<1>1. IInv => StoredIsGenuine
  BY DEF IInv, Judged, StoredIsGenuine
<1>. QED
  BY <1>1, IntakeInvariance, PTL

\* GenuineIsNotRefused: a 401 is sent only to a request whose signature is not genuine.
THEOREM GenuineIsAccepted == Spec => []GenuineIsNotRefused
<1>1. IInv => GenuineIsNotRefused
  BY DEF IInv, Judged, GenuineIsNotRefused
<1>. QED
  BY <1>1, IntakeInvariance, PTL

=============================================================================
