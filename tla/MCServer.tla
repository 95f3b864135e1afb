------------------------------ MODULE MCServer -----------------------------
(* An instance of Server for TLC: two requests at a time, and in each       *)
(* behaviour the operations that touch the same rows.                       *)
EXTENDS Server, TLC

CONSTANTS s1, s2

TwoSlots == {s1, s2}
Symmetry == Permutations(TwoSlots)

AccountWorkloads == {
    {"login", "forgot", "send reset", "reset", "suspend"},
    {"login", "otp login", "setup otp", "verify otp", "disable otp"},
    {"login", "expire", "passkey options", "register passkey", "delete passkey"}}

BuyerWorkloads == {
    {"create buyer", "delete buyer"},
    {"update buyer", "delete buyer"},
    {"create rule set", "update rule set", "delete rule set"},
    {"switch rule set", "delete rule set", "ping", "post", "fullpost"}}

PublisherWorkloads == {
    {"update publisher", "use key"},
    {"regenerate key", "delete publisher", "use key"},
    {"create publisher", "update publisher", "delete publisher", "regenerate key", "generate hmac"}}

AllWorkloads == AccountWorkloads \cup BuyerWorkloads \cup PublisherWorkloads \cup {{"leads"}}

\* The tasks of a request, besides the creation of its lead.
SomePlans == {{"response"}, {"update", "payload"}}

\* Two configurations, with rules of pings and of posts.
Config(order, own, shade, credit, property, roof) ==
    [enabled |-> TRUE, rules_order |-> order,
     rejects |-> [own_home |-> own, roof_shade |-> shade, credit_rating |-> credit,
                  property_type |-> property, roof_type |-> roof]]
Solar == Config(<<"roof_type", "zip_blacklist", "credit_rating", "own_home">>,
                {"no"}, {}, {}, {}, {"tile"})
Strict == Config(<<"property_type", "credit_rating", "roof_shade">>,
                 {}, {"full"}, {"poor"}, {"condo"}, {})

Input(a, c, black, white) ==
    [active |-> a, config |-> c, zips |-> [t \in Types |-> IF t = "blacklist" THEN black ELSE white]]
SomeInputs == {
    Input(TRUE, Solar, {}, {}),
    Input(TRUE, Strict, {}, {}),
    Input(FALSE, Solar, {"10001"}, {}),
    Input(TRUE, Strict, {"94105"}, {"10001"})}

Lead(h, s, c, p, t) ==
    [own_home |-> h, roof_shade |-> s, credit_rating |-> c, property_type |-> p, roof_type |-> t]
SomeLeads == {
    Lead("no", Missing, Missing, Missing, "slate"),
    Lead("yes", "full", "poor", Missing, "tile"),
    Lead("yes", "none", "good", "condo", Missing)}
=============================================================================
