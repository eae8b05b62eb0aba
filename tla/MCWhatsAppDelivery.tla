------------------------- MODULE MCWhatsAppDelivery -------------------------
(***************************************************************************)
(* Instances of WhatsAppDelivery for TLC.                                  *)
(***************************************************************************)
EXTENDS WhatsAppDelivery, TLC

MCTraffic ==
    {{"single", "invite", "report"}, {"bulk"}, {"invites"}, {"campaign"}}

Singles ==
    {{"single"}}

Invites ==
    {{"invite"}}
=============================================================================
