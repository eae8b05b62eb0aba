---------------------------- MODULE MCExternalApi ----------------------------
EXTENDS ExternalApi, TLC

\* The kinds of request that are run together.
ManyTraffics ==
    {{"patch", "revoke", "logs"}, {"create", "list", "status"}, {"template", "contact"},
     {"text", "known"}, {"sms", "templates"}}

TwoGrants == {{"send_message", "get_contacts", "get_status", "get_logs"}, {"send_message"}}

FourChanges ==
    {[active |-> b, permissions |-> None] : b \in BOOLEAN}
        \cup {[active |-> None, permissions |-> ps] : ps \in TwoGrants}
=============================================================================
