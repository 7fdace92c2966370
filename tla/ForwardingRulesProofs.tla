------------------------ MODULE ForwardingRulesProofs ------------------------
(***************************************************************************)
(* Machine-checked theorems about ForwardingRules: for any number of        *)
(* editors and sources, and any interleaving of their two-call edits with   *)
(* adds, pauses and deletions.  An edit holds a merged rule between its     *)
(* calls, so the invariant speaks of that copy too.                         *)
(***************************************************************************)
EXTENDS ForwardingRules, TLAPS

\* A rule verifies signatures with a header to read them from, or has neither.
Whole(rule) == rule.verify = "" <=> rule.header = ""

IInv == /\ TypeOK
        /\ \A s \in Sources : rules[s] # NoRule => Whole(rules[s])
        /\ \A e \in Editors : editing[e] # NoEdit => Whole(editing[e].rule)

-----------------------------------------------------------------------------
\* "No rule" and "no edit" are recognised by having none of the fields.
LEMMA NullsAreApart == NoRule \notin Rule /\ NoEdit \notin Edit
  <1>1. "no" \in DOMAIN NoRule /\ \A r \in Rule : "no" \notin DOMAIN r
    BY DEF NoRule, Rule
  <1>2. "no" \in DOMAIN NoEdit /\ \A e \in Edit : "no" \notin DOMAIN e
    BY DEF NoEdit, Edit
  <1>. QED
    BY <1>1, <1>2

\* The verification columns are set together, whatever rule the form is merged into.
LEMMA MergedVerification ==
    ASSUME NEW rule \in Rule, NEW form \in Form
    PROVE  /\ MergeVerify(rule, form) \in Rule
           /\ Whole(MergeVerify(rule, form))
           /\ MergeVerify(rule, form).paused = rule.paused
           /\ MergeVerify(rule, form).outgoing = rule.outgoing
  <1>. DEFINE new == HeaderOr(form.header, DefaultHeader)
              kept == HeaderOr(form.header, HeaderOr(rule.header, DefaultHeader))
  <1>1. /\ new \in Headers \cup {DefaultHeader} /\ new # ""
        /\ kept \in Headers \cup {DefaultHeader} /\ kept # ""
    BY RulesAssumption DEF HeaderOr, Form, Rule, DefaultHeader
  <1>. HIDE DEF new, kept
  <1>2. CASE form.clearVerify
    BY <1>2 DEF MergeVerify, Whole, Rule
  <1>3. CASE ~form.clearVerify /\ form.verify # ""
    <2>1. MergeVerify(rule, form) = [rule EXCEPT !.verify = form.verify, !.header = new]
      BY <1>3 DEF MergeVerify, new
    <2>2. form.verify \in Secrets
      BY <1>3 DEF Form
    <2>. QED
      BY <1>1, <1>3, <2>1, <2>2 DEF Whole, Rule
  <1>4. CASE ~form.clearVerify /\ form.verify = "" /\ rule.verify # ""
    <2>1. MergeVerify(rule, form) = [rule EXCEPT !.header = kept]
      BY <1>4 DEF MergeVerify, kept
    <2>. QED
      BY <1>1, <1>4, <2>1 DEF Whole, Rule
  <1>5. CASE ~form.clearVerify /\ form.verify = "" /\ rule.verify = ""
    <2>1. MergeVerify(rule, form) = [rule EXCEPT !.verify = "", !.header = ""]
      BY <1>5 DEF MergeVerify
    <2>. QED
      BY <2>1 DEF Whole, Rule
  <1>. QED
    BY <1>2, <1>3, <1>4, <1>5

\* A merge yields a whole rule, with the pause of the rule it started from.
LEMMA MergedRule ==
    ASSUME NEW rule \in Rule, NEW form \in Form
    PROVE  /\ Merge(rule, form) \in Rule
           /\ Whole(Merge(rule, form))
           /\ Merge(rule, form).paused = rule.paused
  <1>. DEFINE verified == MergeVerify(rule, form)
  <1>1. verified \in Rule /\ Whole(verified) /\ verified.paused = rule.paused
    BY MergedVerification
  <1>2. Merge(rule, form) = MergeOutgoing(verified, form) /\ form.outgoing \in Secrets \cup {""}
    BY DEF Merge, Form
  <1>. HIDE DEF verified
  <1>. QED
    BY <1>1, <1>2 DEF MergeOutgoing, Whole, Rule

\* An upsert stores the rule as given but for the pause, which a stored rule keeps.
LEMMA UpsertedRule ==
    ASSUME NEW stored \in Rule \cup {NoRule}, NEW rule \in Rule, Whole(rule)
    PROVE  /\ Upserted(stored, rule) \in Rule
           /\ Whole(Upserted(stored, rule))
           /\ stored # NoRule => Upserted(stored, rule).paused = stored.paused
  BY DEF Upserted, Whole, Rule

\* A form that adds a rule is merged into a blank one.
LEMMA AddedRule ==
    ASSUME NEW stored \in Rule \cup {NoRule}, NEW form \in Form
    PROVE  /\ Upserted(stored, Merge(BlankRule, form)) \in Rule
           /\ Whole(Upserted(stored, Merge(BlankRule, form)))
           /\ stored # NoRule => Upserted(stored, Merge(BlankRule, form)).paused = stored.paused
  <1>1. BlankRule \in Rule
    BY DEF BlankRule, Rule
  <1>. QED
    BY <1>1, MergedRule, UpsertedRule

-----------------------------------------------------------------------------
\* The inductive invariant: stored rules and the copies that edits hold are whole.
THEOREM RulesInvariance == Spec => []IInv
<1>1. Init => IInv
  BY DEF Init, IInv, TypeOK
<1>2. IInv /\ [Next]_vars => IInv'
  <2>. SUFFICES ASSUME IInv, [Next]_vars PROVE IInv'
    OBVIOUS
  <2>. USE NullsAreApart DEF IInv
  <2>1. ASSUME NEW s \in Sources, NEW form \in Form, AddRule(s, form) PROVE IInv'
    <3>. DEFINE new == Upserted(rules[s], Merge(BlankRule, form))
    <3>1. new \in Rule /\ Whole(new)
      BY AddedRule DEF TypeOK
    <3>2. rules' = [rules EXCEPT ![s] = new] /\ editing' = editing /\ spent' \in Nat
      BY <2>1 DEF AddRule, Request, TypeOK
    <3>. HIDE DEF new
    <3>. QED
      BY <3>1, <3>2 DEF TypeOK
  <2>2. ASSUME NEW e \in Editors, NEW s \in Sources, NEW form \in Form, ReadRule(e, s, form)
        PROVE IInv'
    <3>. DEFINE new == [source |-> s, form |-> form, rule |-> Merge(rules[s], form)]
    <3>1. rules[s] \in Rule
      BY <2>2 DEF ReadRule, TypeOK
    <3>2. new \in Edit /\ Whole(new.rule)
      BY <3>1, MergedRule DEF Edit
    <3>3. editing' = [editing EXCEPT ![e] = new] /\ rules' = rules /\ spent' \in Nat
      BY <2>2 DEF ReadRule, Request, TypeOK
    <3>. HIDE DEF new
    <3>. QED
      BY <3>2, <3>3 DEF TypeOK
  <2>3. ASSUME NEW e \in Editors, SaveRule(e) PROVE IInv'
    <3>. DEFINE s == editing[e].source
                new == Upserted(rules[s], editing[e].rule)
    <3>1. editing[e] \in Edit /\ s \in Sources /\ editing[e].rule \in Rule /\ Whole(editing[e].rule)
      BY <2>3 DEF SaveRule, TypeOK, Edit
    <3>2. new \in Rule /\ Whole(new)
      BY <3>1, UpsertedRule DEF TypeOK
    <3>3. /\ rules' = [rules EXCEPT ![s] = new]
          /\ editing' = [editing EXCEPT ![e] = NoEdit] /\ spent' = spent
      BY <2>3 DEF SaveRule
    <3>. HIDE DEF new
    <3>. QED
      BY <3>1, <3>2, <3>3 DEF TypeOK
  <2>4. ASSUME NEW e \in Editors, AbandonEdit(e) PROVE IInv'
    BY <2>4 DEF AbandonEdit, TypeOK
  <2>5. ASSUME NEW s \in Sources, NEW paused \in BOOLEAN, SetPaused(s, paused) PROVE IInv'
    <3>. DEFINE new == [rules[s] EXCEPT !.paused = paused]
    <3>1. rules[s] \in Rule /\ Whole(rules[s])
      BY <2>5 DEF SetPaused, TypeOK
    <3>2. new \in Rule /\ Whole(new)
      BY <3>1 DEF Rule, Whole
    <3>3. rules' = [rules EXCEPT ![s] = new] /\ editing' = editing /\ spent' \in Nat
      BY <2>5 DEF SetPaused, Request, TypeOK
    <3>. HIDE DEF new
    <3>. QED
      BY <3>2, <3>3 DEF TypeOK
  <2>6. ASSUME NEW s \in Sources, DeleteRule(s) PROVE IInv'
    BY <2>6 DEF DeleteRule, Request, TypeOK
  <2>7. CASE UNCHANGED vars
    BY <2>7 DEF vars, TypeOK
  <2>. QED
    BY <2>1, <2>2, <2>3, <2>4, <2>5, <2>6, <2>7 DEF Next
<1>. QED
  BY <1>1, <1>2, PTL DEF Spec

\* TypeOK: every variable keeps its type.
THEOREM RulesTypes == Spec => []TypeOK
<1>1. IInv => TypeOK
  BY DEF IInv
<1>. QED
  BY <1>1, RulesInvariance, PTL

\* VerificationIsWhole: however edits, adds and deletions interleave, a stored rule has
\* a verification secret and a header for it, or neither.
THEOREM VerificationStaysWhole == Spec => []VerificationIsWhole
<1>1. IInv => VerificationIsWhole
  BY DEF IInv, Whole, VerificationIsWhole
<1>. QED
  BY <1>1, RulesInvariance, PTL

\* PauseIsSeparate: no edit, whenever it began, resumes or pauses a source.
THEOREM PauseStaysSeparate == Spec => PauseIsSeparate
<1>. DEFINE Separate ==
       \A s \in Sources :
          (rules[s] # NoRule /\ rules'[s] # NoRule /\ rules'[s].paused # rules[s].paused) =>
              /\ rules'[s] = [rules[s] EXCEPT !.paused = ~@]
              /\ UNCHANGED editing
<1>1. IInv /\ [Next]_vars => [Separate]_vars
  <2>. SUFFICES ASSUME IInv, [Next]_vars, NEW s \in Sources, rules[s] # NoRule, rules'[s] # NoRule,
                       rules'[s].paused # rules[s].paused
                PROVE  rules'[s] = [rules[s] EXCEPT !.paused = ~@] /\ UNCHANGED editing
    OBVIOUS
  <2>. USE NullsAreApart DEF IInv
  <2>1. rules[s] \in Rule /\ rules \in [Sources -> Rule \cup {NoRule}]
    BY DEF TypeOK
  <2>2. ASSUME NEW t \in Sources, NEW form \in Form, AddRule(t, form) PROVE FALSE
    BY <2>1, <2>2, AddedRule DEF AddRule
  <2>3. ASSUME NEW e \in Editors, SaveRule(e) PROVE FALSE
    <3>1. editing[e] \in Edit /\ editing[e].rule \in Rule /\ Whole(editing[e].rule)
      BY <2>3 DEF SaveRule, TypeOK, Edit
    <3>. QED
      BY <2>1, <2>3, <3>1, UpsertedRule DEF SaveRule
  <2>4. ASSUME NEW t \in Sources, NEW paused \in BOOLEAN, SetPaused(t, paused)
        PROVE  rules'[s] = [rules[s] EXCEPT !.paused = ~@] /\ UNCHANGED editing
    <3>1. rules'[s] = IF s = t THEN [rules[s] EXCEPT !.paused = paused] ELSE rules[s]
      BY <2>1, <2>4 DEF SetPaused
    <3>2. s = t /\ rules'[s].paused = paused /\ paused = ~rules[s].paused
      BY <2>1, <3>1 DEF Rule
    <3>. QED
      BY <2>4, <3>1, <3>2 DEF SetPaused
  <2>5. ASSUME NEW t \in Sources, DeleteRule(t) PROVE FALSE
    BY <2>1, <2>5 DEF DeleteRule
  <2>6. ASSUME rules' = rules PROVE FALSE
    BY <2>6
  <2>. QED
    BY <2>2, <2>3, <2>4, <2>5, <2>6 DEF Next, ReadRule, AbandonEdit, vars
<1>. QED
  BY <1>1, RulesInvariance, PTL DEF Spec, PauseIsSeparate

=============================================================================
