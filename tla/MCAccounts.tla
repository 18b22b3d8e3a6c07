------------------------------ MODULE MCAccounts ------------------------------
EXTENDS Accounts, TLC

(* The Schwab connection, which is deleted before the chats, and a store   *)
(* deleted after them.                                                     *)
MCTables == <<"schwab", "profile">>
=============================================================================
