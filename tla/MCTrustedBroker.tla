--------------------------- MODULE MCTrustedBroker ---------------------------
(* A small instance of TrustedBroker: one row of the allowlist per kind.     *)
EXTENDS TrustedBroker

MCActions == {"volume", "search", "wifi", "text", "reboot"}

MCPayloads == {"ok", "bad", "surrogate"}

MCUnencodable == {"surrogate"}

\* audio.volume.up, file.search, network.wifi.enable,
\* desktop.text.delete_selection and system.reboot: the kinds of rows.
MCPolicies ==
  [a \in MCActions |->
     CASE a = "volume" -> [minimum_risk |-> 0, reversible |-> TRUE, command |-> TRUE, privileged |-> FALSE]
       [] a = "search" -> [minimum_risk |-> 0, reversible |-> TRUE, command |-> FALSE, privileged |-> FALSE]
       [] a = "wifi"   -> [minimum_risk |-> 1, reversible |-> TRUE, command |-> TRUE, privileged |-> FALSE]
       [] a = "text"   -> [minimum_risk |-> 1, reversible |-> TRUE, command |-> FALSE, privileged |-> FALSE]
       [] a = "reboot" -> [minimum_risk |-> 3, reversible |-> FALSE, command |-> TRUE, privileged |-> TRUE]]

\* file.search takes any target; the other rows shown here take none.
MCValid == {<<a, "ok">> : a \in MCActions} \cup {<<"search", "surrogate">>}

Req(a, p, o, k, rev, e) == [action |-> a, payload |-> p, origin |-> o, risk |-> k,
                            reversible |-> rev, expires_at |-> e]

\* A safe request, a safe one that cannot be recorded, a short-lived one that is
\* risky and needs an adapter, and one that understates its risk.
MCRequests == {
  Req("volume", "ok", "local_voice", 0, TRUE, None),
  Req("search", "surrogate", "local_ui", 0, TRUE, None),
  Req("text", "ok", "external_content", 1, TRUE, 1),
  Req("wifi", "ok", "local_voice", 0, TRUE, None)}

\* A safe request and an irreversible one.
MCTwoRequests == {
  Req("volume", "ok", "local_voice", 0, TRUE, None),
  Req("reboot", "ok", "gpt_live", 3, FALSE, None)}
=============================================================================
