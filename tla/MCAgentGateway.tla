--------------------------- MODULE MCAgentGateway ----------------------------
EXTENDS AgentGateway, TLC

\* The kinds of request that are run together.
ManyTraffics ==
    {{"GREETING", "remove"}, {"RSVP_YES", "remove"}, {"MAKE_PLEDGE", "getGuestContext"},
     {"PAY_FULL", "pay"}, {"PAY_PARTIAL"}, {"createPaymentRequest", "pay"},
     {"REQUEST_TICKET", "getEventAnalytics"}, {"PAYMENT_STATUS", "verifyQRCode"},
     {"sendPaymentReminder"}}

SomeTexts == {{}, {"RSVP_YES", "REQUEST_TICKET"}}
=============================================================================
