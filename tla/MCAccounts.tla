---------------------------- MODULE MCAccounts ----------------------------
(***************************************************************************)
(* Two GitHub users, one of them the owner at the shell.  Families of      *)
(* behaviours, so that logins, requests and deeds are each taken far       *)
(* without all of them at once: logins that overlap and fail; logins after *)
(* a logout, with a person registered by name; requests of two people at   *)
(* once, or three in a row; requests of the owner and of an agent, two at  *)
(* once that may fail, or three in a row.                                  *)
(***************************************************************************)
EXTENDS Accounts

Nothing == [c \in Counters |-> 0]

MCBudgets == {
  [Nothing EXCEPT !["wants"] = 2, !["tabs"] = 2, !["faults"] = 1],
  [Nothing EXCEPT !["wants"] = 2, !["tabs"] = 1, !["outs"] = 1, !["byName"] = 1, !["faults"] = 1],
  [Nothing EXCEPT !["wants"] = 1, !["tabs"] = 1, !["acts"] = 2, !["deeds"] = 2, !["open"] = 2],
  [Nothing EXCEPT !["wants"] = 2, !["tabs"] = 1, !["acts"] = 3, !["open"] = 1],
  [Nothing EXCEPT !["agents"] = 1, !["acts"] = 2, !["deeds"] = 2, !["open"] = 2,
     !["internal"] = 1, !["faults"] = 1, !["uses"] = 1],
  [Nothing EXCEPT !["agents"] = 1, !["acts"] = 3, !["deeds"] = 2, !["open"] = 1]}
=============================================================================
