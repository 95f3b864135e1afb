------------------------- MODULE QualificationEngine -------------------------
(***************************************************************************)
(* The decision of crates/core/src/services/qualification_engine.rs: does a *)
(* buyer's rule set accept a lead?                                          *)
(*                                                                         *)
(* The rule for a field is abstracted to the values it rejects:             *)
(* config.rejects[f] are the values of field f, as leads send them, that    *)
(* the comparison of the rule turns down.  How the code compares (most      *)
(* fields in lower case, roof_shade as written, own_home with its booleans  *)
(* as yes and no, the first rule about a value) decides which values these  *)
(* are, and nothing else.                                                   *)
(***************************************************************************)

\* A field the lead does not have; no rule rejects it.
Missing == "no value"

\* The rules that are implemented.  ZIP lists, the monthly bill, the utility provider and
\* the timeframe accept everything, as does an unknown rule.
RuleFields == {"own_home", "roof_shade", "credit_rating", "property_type", "roof_type"}

\* evaluate_rule
Rejects(rule, config, lead) ==
    rule \in RuleFields /\ lead[rule] \in config.rejects[rule] \ {Missing}

PingRules ==
    {"zip_blacklist", "zip_whitelist", "monthly_bill", "own_home", "purchase_timeframe",
     "credit_rating", "roof_shade", "utility_provider"}

\* filter_rules_by_request_type
Applies(rule, type) == type = "ping" => rule \in PingRules

\* No rule set, or one that is not in force.
NoConfig == [enabled |-> FALSE]

\* evaluate: the loop over rules_order stops at the first rule that rejects.
Accepted(config, lead, type) ==
    config.enabled =>
        \A i \in DOMAIN config.rules_order :
            Applies(config.rules_order[i], type) => ~Rejects(config.rules_order[i], config, lead)
=============================================================================
