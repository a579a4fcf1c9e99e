--------------------------- MODULE ToolPolicyProofs ---------------------------
(***************************************************************************)
(* The two policy engines agree on every policy without blanks around its   *)
(* texts: OPA's answer to every input is the oracle's.                      *)
(***************************************************************************)
EXTENDS ToolPolicy, TLAPS

PlainText(t) == t = Unpadded(Strip(t))

\* The entries of a JSON object: a sequence, each with a name of its own
Entries(e) ==
    /\ Len(e) \in Nat /\ DOMAIN e = 1..Len(e)
    /\ \A i, j \in DOMAIN e : e[i].name = e[j].name => i = j

PlainEntries(e) ==
    /\ Entries(e)
    /\ \A i \in DOMAIN e : /\ PlainText(e[i].name)
                           /\ \A k \in DOMAIN e[i].roles : PlainText(e[i].roles[k])

PlainPolicy(doc) ==
    /\ PlainEntries(doc.agent_roles) /\ PlainEntries(doc.tools)
    /\ \A i \in DOMAIN doc.tools : PlainText(doc.tools[i].sensitivity)

------------------------------------------------------------------------------
\* Different texts are different as OPA reads them.
LEMMA UnpaddedInjective == \A x, y : Unpadded(x) = Unpadded(y) => x = y
  BY DEF Unpadded

\* Without blanks, stripping loses no name and merges no two.
LEMMA PlainNames ==
    ASSUME NEW e, PlainEntries(e)
    PROVE  RawNames(e) = Names(e)
  BY DEF RawNames, Names, PlainEntries, PlainText

\* Both readings of an object find the same entry under a name.
LEMMA PlainEntry ==
    ASSUME NEW e, PlainEntries(e), NEW name \in Names(e)
    PROVE  /\ RawEntry(e, Unpadded(name)) = Entry(e, name)
           /\ \E i \in DOMAIN e : Entry(e, name) = e[i]
  <1>1. PICK i \in DOMAIN e : Strip(e[i].name) = name  BY DEF Names
  <1>2. e[i].name = Unpadded(name)  BY <1>1 DEF PlainEntries, PlainText
  <1>3. ASSUME NEW j \in DOMAIN e, e[j].name = Unpadded(name) PROVE j = i
    BY <1>2, <1>3 DEF PlainEntries, Entries
  <1>4. ASSUME NEW j \in DOMAIN e, Strip(e[j].name) = name PROVE j = i
    BY <1>3, <1>4 DEF PlainEntries, PlainText
  <1>5. RawEntry(e, Unpadded(name)) = e[i]
    BY <1>2, <1>3 DEF RawEntry
  <1>6. \A j \in (i + 1)..Len(e) : Strip(e[j].name) # name
    BY <1>4 DEF PlainEntries, Entries
  <1>7. Entry(e, name) = e[i]
    BY <1>1, <1>4, <1>6 DEF Entry
  <1> QED  BY <1>5, <1>7

\* Two lists of roles share a role in one reading iff they do in the other.
LEMMA PlainRoles ==
    ASSUME NEW l, NEW m,
           \A k \in DOMAIN l : PlainText(l[k]), \A k \in DOMAIN m : PlainText(m[k])
    PROVE  Texts(l) \cap Texts(m) # {} <=> \E role \in Members(l) : role \in Members(m)
  <1>1. ASSUME NEW role \in Members(l), role \in Members(m) PROVE Texts(l) \cap Texts(m) # {}
    BY <1>1 DEF Members, Texts
  <1>2. ASSUME NEW x \in Texts(l), x \in Texts(m)
        PROVE  \E role \in Members(l) : role \in Members(m)
    BY <1>2 DEF Members, Texts, PlainText
  <1> QED  BY <1>1, <1>2

\* What the two readings make of an agent and a tool
LEMMA PlainAgent ==
    ASSUME NEW doc, PlainPolicy(doc), NEW agent \in Names(doc.agent_roles)
    PROVE  LET e == Entry(doc.agent_roles, agent)
           IN  /\ RawData(doc).agent_roles[agent] = Members(e.roles)
               /\ PolicyData(doc).agent_roles[agent] = Texts(e.roles)
               /\ \A k \in DOMAIN e.roles : PlainText(e.roles[k])
  <1> DEFINE e == doc.agent_roles
  <1>1. PlainEntries(e)  BY DEF PlainPolicy
  <1>2. RawNames(e) = Names(e)  BY <1>1, PlainNames
  <1>3. RawEntry(e, Unpadded(agent)) = Entry(e, agent)  BY <1>1, PlainEntry
  <1>4. PICK i \in DOMAIN e : Entry(e, agent) = e[i]  BY <1>1, PlainEntry
  <1>5. RawData(doc).agent_roles[agent] = Members(Entry(e, agent).roles)
    BY <1>2, <1>3 DEF RawData
  <1>6. PolicyData(doc).agent_roles[agent] = Texts(Entry(e, agent).roles)
    BY DEF PolicyData
  <1>7. \A k \in DOMAIN Entry(e, agent).roles : PlainText(Entry(e, agent).roles[k])
    BY <1>1, <1>4 DEF PlainEntries
  <1> QED  BY <1>5, <1>6, <1>7

LEMMA PlainTool ==
    ASSUME NEW doc, PlainPolicy(doc), NEW tool \in Names(doc.tools)
    PROVE  LET e == Entry(doc.tools, tool)
           IN  /\ RawData(doc).tools[tool].roles = Members(e.roles)
               /\ PolicyData(doc).tools[tool].roles = Texts(e.roles)
               /\ RawData(doc).tools[tool].sensitivity = PolicyData(doc).tools[tool].sensitivity
               /\ \A k \in DOMAIN e.roles : PlainText(e.roles[k])
  <1> DEFINE e == doc.tools
             t == Entry(e, tool)
  <1>1. PlainEntries(e)  BY DEF PlainPolicy
  <1>2. RawNames(e) = Names(e)  BY <1>1, PlainNames
  <1>3. RawEntry(e, Unpadded(tool)) = t  BY <1>1, PlainEntry
  <1>4. PICK i \in DOMAIN e : t = e[i]  BY <1>1, PlainEntry
  <1>5. PlainText(t.sensitivity)  BY <1>4 DEF PlainPolicy
  <1>6. RawData(doc).tools[tool] =
          [roles |-> Members(t.roles),
           sensitivity |-> IF t.sensitivity.blanks THEN "padded" ELSE t.sensitivity.text]
    BY <1>2, <1>3 DEF RawData
  <1>7. PolicyData(doc).tools[tool] =
          [roles |-> Texts(t.roles), sensitivity |-> Strip(t.sensitivity)]
    BY DEF PolicyData
  <1>8. ~ t.sensitivity.blanks /\ t.sensitivity.text = Strip(t.sensitivity)
    BY <1>5 DEF PlainText, Unpadded, Strip
  <1>9. \A k \in DOMAIN t.roles : PlainText(t.roles[k])
    BY <1>1, <1>4 DEF PlainEntries
  <1> QED  BY <1>6, <1>7, <1>8, <1>9

\* The helper rules of aegis.rego say of an input what the oracle's branches do.
LEMMA RulesAgree ==
    ASSUME NEW doc, PlainPolicy(doc), NEW in
    PROVE  LET data == RawData(doc)
               policy == PolicyData(doc)
           IN  /\ in.tool_name \in DOMAIN data.tools <=> in.tool_name \in DOMAIN policy.tools
               /\ in.tool_name \in DOMAIN policy.tools =>
                    /\ RoleAllowed(data, in) <=>
                         RolesOf(policy, in.agent_id) \cap policy.tools[in.tool_name].roles # {}
                    /\ data.tools[in.tool_name].sensitivity
                         = policy.tools[in.tool_name].sensitivity
               /\ data.step_up_risk = policy.step_up_risk
  <1> DEFINE agent == in.agent_id
             tool == in.tool_name
             data == RawData(doc)
             policy == PolicyData(doc)
  <1>1. /\ DOMAIN data.tools = Names(doc.tools)
        /\ DOMAIN data.agent_roles = Names(doc.agent_roles)
    BY PlainNames DEF PlainPolicy, RawData
  <1>2. /\ DOMAIN policy.tools = Names(doc.tools)
        /\ DOMAIN policy.agent_roles = Names(doc.agent_roles)
    BY DEF PolicyData
  <1>3. data.step_up_risk = policy.step_up_risk  BY DEF RawData, PolicyData
  <1>4. ASSUME tool \in Names(doc.tools)
        PROVE  /\ RoleAllowed(data, in) <=> RolesOf(policy, agent) \cap policy.tools[tool].roles # {}
               /\ data.tools[tool].sensitivity = policy.tools[tool].sensitivity
    <2>1. data.tools[tool].sensitivity = policy.tools[tool].sensitivity
      BY <1>4, PlainTool
    <2>2. CASE agent \notin Names(doc.agent_roles)
      <3>1. ~ RoleAllowed(data, in)  BY <1>1, <2>2 DEF RoleAllowed
      <3>2. RolesOf(policy, agent) = {}  BY <1>2, <2>2 DEF RolesOf
      <3> QED  BY <2>1, <3>1, <3>2
    <2>3. CASE agent \in Names(doc.agent_roles)
      <3> DEFINE l == Entry(doc.agent_roles, agent).roles
                 m == Entry(doc.tools, tool).roles
      <3>1. /\ data.agent_roles[agent] = Members(l) /\ policy.agent_roles[agent] = Texts(l)
            /\ \A k \in DOMAIN l : PlainText(l[k])
        BY <2>3, PlainAgent
      <3>2. /\ data.tools[tool].roles = Members(m) /\ policy.tools[tool].roles = Texts(m)
            /\ \A k \in DOMAIN m : PlainText(m[k])
        BY <1>4, PlainTool
      <3>3. Texts(l) \cap Texts(m) # {} <=> \E role \in Members(l) : role \in Members(m)
        BY <3>1, <3>2, PlainRoles
      <3>4. RoleAllowed(data, in) <=> \E role \in Members(l) : role \in Members(m)
        BY <1>1, <1>4, <2>3, <3>1, <3>2 DEF RoleAllowed
      <3>5. RolesOf(policy, agent) = Texts(l)
        BY <1>2, <2>3, <3>1 DEF RolesOf
      <3> QED  BY <2>1, <3>2, <3>3, <3>4, <3>5
    <2> QED  BY <2>1, <2>2, <2>3
  <1> QED  BY <1>1, <1>2, <1>3, <1>4

\* Both engines answer every input alike (policy.py:181-196, aegis.rego): exactly one
\* rule of aegis.rego holds, so OPA neither falls back to its default nor meets a
\* conflict, and it is the rule of the branch that the oracle takes.
THEOREM EnginesAgree ==
    ASSUME NEW doc, PlainPolicy(doc), NEW in, NEW d
    PROVE  RegoAnswers(RawData(doc), in, d) <=> d = Decide(PolicyData(doc), in)
  <1> DEFINE data == RawData(doc)
             policy == PolicyData(doc)
             answer == Decide(policy, in)
             known == in.tool_name \in DOMAIN policy.tools
             allowed == RolesOf(policy, in.agent_id) \cap policy.tools[in.tool_name].roles # {}
             risky == /\ policy.tools[in.tool_name].sensitivity = "high"
                      /\ in.risk_score >= policy.step_up_risk
                      /\ ~ in.step_up_token_valid
  <1>1. /\ in.tool_name \in DOMAIN data.tools <=> known
        /\ known => (RoleAllowed(data, in) <=> allowed)
        /\ known => (RequiresStepUp(data, in) <=> allowed /\ risky)
        /\ RoleAllowed(data, in) => known
    BY RulesAgree DEF RequiresStepUp, RoleAllowed
  <1>2. answer = IF ~ known THEN Decision("deny", "unknown_tool")
                 ELSE IF ~ allowed THEN Decision("deny", "role_not_allowed")
                 ELSE IF risky THEN Decision("step_up", "step_up_required")
                 ELSE Decision("allow", "authorized")
    BY DEF Decide
  <1> HIDE DEF data, answer, known, allowed, risky
  <1>3. RegoDecisions(data, in) = {answer}
    BY <1>1, <1>2 DEF RegoDecisions, Decision, RequiresStepUp
  <1> QED  BY <1>3 DEF RegoAnswers, data, answer

\* policy_cli and opa_conformance_cli report the same mismatches with the same decisions
\* for such a policy file and every suite (what ReportsAgree says of each question).
THEOREM SuitesAgree ==
    ASSUME NEW doc, PlainPolicy(doc), NEW suite
    PROVE  EvaluateCases(doc, suite) = RunOpaCases(doc, suite)
  <1> DEFINE decisions == [effect : {"allow", "deny", "step_up"},
                           reason : {"unknown_tool", "role_not_allowed", "step_up_required",
                                     "authorized", "default_deny"}]
             opa(in) == CHOOSE d \in decisions : RegoAnswers(RawData(doc), in, d)
  <1>1. ASSUME NEW in PROVE opa(in) = Decide(PolicyData(doc), in)
    <2>1. Decide(PolicyData(doc), in) \in decisions
      BY DEF Decide, Decision
    <2>2. \A d : RegoAnswers(RawData(doc), in, d) <=> d = Decide(PolicyData(doc), in)
      BY EnginesAgree
    <2> HIDE DEF decisions
    <2> QED  BY <2>1, <2>2
  <1>2. [i \in DOMAIN suite |-> opa(suite[i].input)]
          = [i \in DOMAIN suite |-> Decide(PolicyData(doc), suite[i].input)]
    <2> HIDE DEF opa
    <2> QED  BY <1>1
  <1>3. RunOpaCases(doc, suite) = Mismatched(suite, [i \in DOMAIN suite |-> opa(suite[i].input)])
    BY DEF RunOpaCases
  <1> HIDE DEF opa
  <1> QED  BY <1>2, <1>3 DEF EvaluateCases
==============================================================================
