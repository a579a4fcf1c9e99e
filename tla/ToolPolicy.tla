------------------------------ MODULE ToolPolicy ------------------------------
(***************************************************************************)
(* The least-privilege contract of policy.py and its Rego twin aegis.rego.  *)
(*                                                                          *)
(* A text of a JSON document is a record of its stripped text and of the    *)
(* blanks around it; policy.py strips every text it loads, and OPA reads    *)
(* the same file as it is.  An object of the document is the sequence of    *)
(* its entries, because texts that differ only in blanks are one key after  *)
(* stripping and the later entry replaces the earlier.                      *)
(***************************************************************************)
EXTENDS Integers, Sequences

Strip(t) == t.text

IsText(t) == t.text # ""

Texts(list) == {Strip(list[i]) : i \in DOMAIN list}

\* _roles: a non-empty list of texts, all different once stripped
RolesAccepted(list) ==
    /\ list # << >>
    /\ \A i \in DOMAIN list : IsText(list[i])
    /\ \A i, j \in DOMAIN list : Strip(list[i]) = Strip(list[j]) => i = j

Names(entries) == {Strip(entries[i].name) : i \in DOMAIN entries}

\* The entry that a name keeps in the dictionary built from the entries
Entry(entries, name) ==
    entries[CHOOSE i \in DOMAIN entries :
              /\ Strip(entries[i].name) = name
              /\ \A j \in (i + 1)..Len(entries) : Strip(entries[j].name) # name]

Sensitivity == {"low", "medium", "high"}

\* PolicyData.from_dict as a value
PolicyData(doc) ==
    [step_up_risk |-> doc.step_up_risk,
     agent_roles |-> [a \in Names(doc.agent_roles) |-> Texts(Entry(doc.agent_roles, a).roles)],
     tools |-> [t \in Names(doc.tools) |->
                  [roles |-> Texts(Entry(doc.tools, t).roles),
                   sensitivity |-> Strip(Entry(doc.tools, t).sensitivity)]]]

\* ... and its guards: the version and fields, the threshold, every entry, and
\* no tool with a role that no agent has
PolicyAccepted(doc) ==
    /\ doc.schema_version = 1 /\ doc.exact_fields
    /\ doc.step_up_risk \in 0..100
    /\ doc.agent_roles # << >> /\ doc.tools # << >>
    /\ \A i \in DOMAIN doc.agent_roles :
         IsText(doc.agent_roles[i].name) /\ RolesAccepted(doc.agent_roles[i].roles)
    /\ \A i \in DOMAIN doc.tools :
         /\ IsText(doc.tools[i].name) /\ RolesAccepted(doc.tools[i].roles)
         /\ Strip(doc.tools[i].sensitivity) \in Sensitivity
    /\ LET policy == PolicyData(doc)
       IN  UNION {policy.tools[t].roles : t \in DOMAIN policy.tools}
             \subseteq UNION {policy.agent_roles[a] : a \in DOMAIN policy.agent_roles}

\* PolicyInput.from_dict
InputAccepted(in) ==
    in.agent_id # "" /\ in.tool_name # "" /\ in.risk_score \in 0..100

Decision(effect, reason) == [effect |-> effect, reason |-> reason]

RolesOf(policy, agent) ==
    IF agent \in DOMAIN policy.agent_roles THEN policy.agent_roles[agent] ELSE {}

\* Mutated form: decide with an exclusive threshold.
DecideAboveThreshold(policy, in) ==
    IF in.tool_name \notin DOMAIN policy.tools THEN Decision("deny", "unknown_tool")
    ELSE LET rule == policy.tools[in.tool_name]
         IN  IF RolesOf(policy, in.agent_id) \cap rule.roles = {}
               THEN Decision("deny", "role_not_allowed")
             ELSE IF /\ rule.sensitivity = "high"
                     /\ in.risk_score > policy.step_up_risk
                     /\ ~ in.step_up_token_valid
               THEN Decision("step_up", "step_up_required")
             ELSE Decision("allow", "authorized")

\* decide, the Python oracle
Decide(policy, in) ==
    IF in.tool_name \notin DOMAIN policy.tools THEN Decision("deny", "unknown_tool")
    ELSE LET rule == policy.tools[in.tool_name]
         IN  IF RolesOf(policy, in.agent_id) \cap rule.roles = {}
               THEN Decision("deny", "role_not_allowed")
             ELSE IF /\ rule.sensitivity = "high"
                     /\ in.risk_score >= policy.step_up_risk
                     /\ ~ in.step_up_token_valid
               THEN Decision("step_up", "step_up_required")
             ELSE Decision("allow", "authorized")

------------------------------------------------------------------------------
\* The document as OPA loads it: names and roles with their blanks.  An input
\* holds stripped texts, so it equals a name only when that name has none.
Unpadded(t) == [text |-> t, blanks |-> FALSE]

RawEntry(entries, name) == entries[CHOOSE i \in DOMAIN entries : entries[i].name = name]

RawNames(entries) == {t \in Names(entries) : \E i \in DOMAIN entries : entries[i].name = Unpadded(t)}

Members(list) == {list[i] : i \in DOMAIN list}

RawData(doc) ==
    [step_up_risk |-> doc.step_up_risk,
     agent_roles |-> [a \in RawNames(doc.agent_roles) |->
                        Members(RawEntry(doc.agent_roles, Unpadded(a)).roles)],
     tools |-> [t \in RawNames(doc.tools) |->
                  LET rule == RawEntry(doc.tools, Unpadded(t))
                  IN  [roles |-> Members(rule.roles),
                       sensitivity |-> IF rule.sensitivity.blanks THEN "padded"
                                       ELSE rule.sensitivity.text]]]

\* aegis.rego: role_allowed
RoleAllowed(data, in) ==
    /\ in.agent_id \in DOMAIN data.agent_roles
    /\ in.tool_name \in DOMAIN data.tools
    /\ \E role \in data.agent_roles[in.agent_id] : role \in data.tools[in.tool_name].roles

\* aegis.rego: requires_step_up
RequiresStepUp(data, in) ==
    /\ RoleAllowed(data, in)
    /\ data.tools[in.tool_name].sensitivity = "high"
    /\ in.risk_score >= data.step_up_risk
    /\ ~ in.step_up_token_valid

\* The values of the rules named decision whose bodies hold.  OPA answers the
\* only one, the default when there is none, and fails when two differ.
RegoDecisions(data, in) ==
    {d \in {Decision("deny", "unknown_tool"), Decision("deny", "role_not_allowed"),
            Decision("step_up", "step_up_required"), Decision("allow", "authorized")} :
       \/ d.reason = "unknown_tool" /\ in.tool_name \notin DOMAIN data.tools
       \/ /\ d.reason = "role_not_allowed"
          /\ in.tool_name \in DOMAIN data.tools /\ ~ RoleAllowed(data, in)
       \/ d.reason = "step_up_required" /\ RequiresStepUp(data, in)
       \/ /\ d.reason = "authorized"
          /\ RoleAllowed(data, in) /\ ~ RequiresStepUp(data, in)}

RegoAnswers(data, in, d) ==
    \/ RegoDecisions(data, in) = {d}
    \/ RegoDecisions(data, in) = {} /\ d = Decision("deny", "default_deny")

------------------------------------------------------------------------------
\* The conformance commands over a policy file and a case suite.  A case is
\* [case_id, input, expected].

\* parse_case_suite
SuiteAccepted(suite) ==
    /\ suite # << >>
    /\ \A i \in DOMAIN suite : IsText(suite[i].case_id) /\ InputAccepted(suite[i].input)
    /\ \A i, j \in DOMAIN suite : Strip(suite[i].case_id) = Strip(suite[j].case_id) => i = j

\* The report's mismatches: the cases whose decision is not the expected one
Mismatched(suite, actual) ==
    {[case |-> i, actual |-> actual[i]] : i \in {k \in DOMAIN suite : actual[k] # suite[k].expected}}

\* evaluate_cases, with the policy as it is loaded
EvaluateCases(doc, suite) ==
    Mismatched(suite, [i \in DOMAIN suite |-> Decide(PolicyData(doc), suite[i].input)])

\* run_opa_cases, with the file as OPA reads it
RunOpaCases(doc, suite) ==
    Mismatched(suite, [i \in DOMAIN suite |->
        CHOOSE d \in [effect : {"allow", "deny", "step_up"},
                      reason : {"unknown_tool", "role_not_allowed", "step_up_required",
                                "authorized", "default_deny"}] :
           RegoAnswers(RawData(doc), suite[i].input, d)])
==============================================================================
