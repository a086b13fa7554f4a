---- MODULE MCHumanDesk ----
(* One thread, one credential that may be revoked, four pages besides the thread's. *)
EXTENDS HumanDesk
UsedSections == {"dashboard", "queue", "inbox", "settings"}
====
