--------------------------- MODULE MCEventPlanning ---------------------------
(***************************************************************************)
(* Instances of EventPlanning for TLC.                                     *)
(***************************************************************************)
EXTENDS EventPlanning, TLC

MCTraffic ==
    {{"get", "update", "remove"},
     {"stats", "report", "add", "drop", "rsvp"},
     {"import", "add", "drop"},
     {"import", "remove"},
     {"edit", "drop", "rsvp"},
     {"remove", "add", "edit", "stats", "report"},
     {"invite", "revise", "publish", "discard", "preview", "update", "remove"}}
=============================================================================
