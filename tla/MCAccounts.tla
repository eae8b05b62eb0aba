------------------------------ MODULE MCAccounts ------------------------------
(***************************************************************************)
(* Instances of Accounts for TLC.  The sessions and the organization of an *)
(* account share no column, so their requests are mixed only among         *)
(* themselves.                                                             *)
(***************************************************************************)
EXTENDS Accounts, TLC

MCTraffic == {{"login", "refresh", "logout"},
              {"login", "refresh", "forgot", "reset"},
              {"register", "forgot", "reset", "verify", "change"},
              {"organize", "view", "upgrade"}}
=============================================================================
