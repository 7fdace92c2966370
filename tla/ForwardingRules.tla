--------------------------- MODULE ForwardingRules ---------------------------
(***************************************************************************)
(* Forwarding rules under concurrent administration.  Adding a rule is one  *)
(* upsert of what the form says.  Editing one is two database calls with    *)
(* the request handler in between: read the stored rule, merge the form     *)
(* into it (a blank secret field keeps the stored one), upsert the result.  *)
(* Pause, resume and delete are one statement each.                         *)
(*                                                                          *)
(* Of a rule's columns the model keeps those a merge can get wrong: the     *)
(* verification secret with its header, the outgoing secret, and paused.    *)
(***************************************************************************)
EXTENDS Naturals

CONSTANTS
    Sources,      \* sources of webhooks
    Editors,      \* requests of UpdateForwardingRule being served
    Secrets,      \* non-empty secrets
    Headers,      \* non-default names of the verification header
    MaxRequests   \* bound: total of administrative requests

ASSUME RulesAssumption == MaxRequests \in Nat /\ "" \notin Secrets /\ "" \notin Headers

VARIABLES
    rules,    \* table forwarding_rules
    editing,  \* what each edit in progress holds: its form and the merged rule
    spent     \* used part of MaxRequests

vars == <<rules, editing, spent>>

DefaultHeader == "default"

\* A form: a blank field is "".
Form == [verify : Secrets \cup {""}, header : Headers \cup {""}, clearVerify : BOOLEAN,
         outgoing : Secrets \cup {""}, clearOutgoing : BOOLEAN]
Rule == [verify : Secrets \cup {""}, header : Headers \cup {"", DefaultHeader},
         outgoing : Secrets \cup {""}, paused : BOOLEAN]
Edit == [source : Sources, form : Form, rule : Rule]

NoRule == [no |-> "rule"]
NoEdit == [no |-> "edit"]

\* What parseForwardingRuleForm starts from when no rule exists.
BlankRule == [verify |-> "", header |-> "", outgoing |-> "", paused |-> FALSE]

Init == /\ rules = [s \in Sources |-> NoRule]
        /\ editing = [e \in Editors |-> NoEdit]
        /\ spent = 0

Request == spent < MaxRequests /\ spent' = spent + 1

-----------------------------------------------------------------------------
(* parseForwardingRuleForm.                                                   *)

HeaderOr(header, fallback) == IF header = "" THEN fallback ELSE header

\* (MergeVerify_keepsHeader and the like, here and below: slips of the code that the
\* properties must notice; no action uses them.)
MergeVerify_keepsHeader(rule, form) ==
    CASE form.clearVerify -> [rule EXCEPT !.verify = ""]
      [] ~form.clearVerify /\ form.verify # "" ->
             [rule EXCEPT !.verify = form.verify, !.header = HeaderOr(form.header, DefaultHeader)]
      [] OTHER -> rule

MergeVerify(rule, form) ==
    CASE form.clearVerify -> [rule EXCEPT !.verify = "", !.header = ""]
      [] ~form.clearVerify /\ form.verify # "" ->
             [rule EXCEPT !.verify = form.verify, !.header = HeaderOr(form.header, DefaultHeader)]
      [] ~form.clearVerify /\ form.verify = "" /\ rule.verify # "" ->
             [rule EXCEPT !.header = HeaderOr(form.header, HeaderOr(rule.header, DefaultHeader))]
      [] OTHER -> [rule EXCEPT !.verify = "", !.header = ""]

MergeOutgoing(rule, form) ==
    CASE form.clearOutgoing -> [rule EXCEPT !.outgoing = ""]
      [] ~form.clearOutgoing /\ form.outgoing # "" -> [rule EXCEPT !.outgoing = form.outgoing]
      [] OTHER -> rule

Merge(rule, form) == MergeOutgoing(MergeVerify(rule, form), form)

-----------------------------------------------------------------------------
(* SaveForwardingRule: an existing rule keeps its pause, a new one is as given. *)

Upserted_withPause(stored, rule) == rule

Upserted(stored, rule) ==
    IF stored = NoRule THEN rule ELSE [rule EXCEPT !.paused = stored.paused]

AddRule(s, form) ==
    /\ Request
    /\ rules' = [rules EXCEPT ![s] = Upserted(@, Merge(BlankRule, form))]
    /\ UNCHANGED editing

\* UpdateForwardingRule up to its second database call; 404 without a rule.
ReadRule(e, s, form) ==
    /\ editing[e] = NoEdit
    /\ rules[s] # NoRule
    /\ Request
    /\ editing' = [editing EXCEPT ![e] =
                      [source |-> s, form |-> form, rule |-> Merge(rules[s], form)]]
    /\ UNCHANGED rules

SaveRule(e) ==
    /\ editing[e] # NoEdit
    /\ rules' = [rules EXCEPT ![editing[e].source] = Upserted(@, editing[e].rule)]
    /\ editing' = [editing EXCEPT ![e] = NoEdit]
    /\ UNCHANGED spent

\* The save failed or its request was cancelled.
AbandonEdit(e) ==
    /\ editing[e] # NoEdit
    /\ editing' = [editing EXCEPT ![e] = NoEdit]
    /\ UNCHANGED <<rules, spent>>

SetPaused(s, paused) ==
    /\ rules[s] # NoRule
    /\ Request
    /\ rules' = [rules EXCEPT ![s].paused = paused]
    /\ UNCHANGED editing

DeleteRule_softDelete(s) ==
    /\ rules[s] # NoRule
    /\ Request
    /\ rules' = [rules EXCEPT ![s] = [deleted |-> TRUE]]
    /\ UNCHANGED editing

DeleteRule(s) ==
    /\ rules[s] # NoRule
    /\ Request
    /\ rules' = [rules EXCEPT ![s] = NoRule]
    /\ UNCHANGED editing

Next == \/ \E s \in Sources, form \in Form : AddRule(s, form)
        \/ \E e \in Editors, s \in Sources, form \in Form : ReadRule(e, s, form)
        \/ \E e \in Editors : SaveRule(e) \/ AbandonEdit(e)
        \/ \E s \in Sources, paused \in BOOLEAN : SetPaused(s, paused)
        \/ \E s \in Sources : DeleteRule(s)

Spec == Init /\ [][Next]_vars

-----------------------------------------------------------------------------
(* Properties.                                                                *)

\* Every variable has its type.
TypeOK ==
    /\ rules \in [Sources -> Rule \cup {NoRule}]
    /\ editing \in [Editors -> Edit \cup {NoEdit}]
    /\ spent \in Nat

\* However edits, adds and deletions interleave, a stored rule verifies signatures with
\* a header to read them from, and keeps no header when it verifies nothing.
VerificationIsWhole ==
    \A s \in Sources : rules[s] # NoRule => (rules[s].verify = "" <=> rules[s].header = "")

\* "Pause is changed separately so a stale rule edit cannot resume delivery": a rule
\* that stays stored changes its pause only by a pause or resume, which touches no
\* other column, whatever edits were begun before it.
PauseIsSeparate ==
    [][\A s \in Sources :
          (rules[s] # NoRule /\ rules'[s] # NoRule /\ rules'[s].paused # rules[s].paused) =>
              /\ rules'[s] = [rules[s] EXCEPT !.paused = ~@]
              /\ UNCHANGED editing]_vars

\* The edit form, of a rule with an outgoing secret: "Leave blank to keep current
\* secret."  The save of an edit that read such a rule, with that field blank and the
\* secret not cleared, leaves the outgoing secret of the stored rule as it is, also when
\* another request has replaced or cleared it since.
BlankKeepsSecrets ==
    [][\A e \in Editors :
          LET s == editing[e].source
              form == editing[e].form IN
          (/\ editing[e] # NoEdit /\ editing'[e] = NoEdit
           /\ rules[s] # NoRule /\ rules'[s] # NoRule
           /\ form.outgoing = "" /\ ~form.clearOutgoing
           /\ editing[e].rule.outgoing # "") =>
              rules'[s].outgoing = rules[s].outgoing]_vars

=============================================================================
