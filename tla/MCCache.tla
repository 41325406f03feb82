------------------------------- MODULE MCCache -------------------------------
(* Two requests, two keys read from one table and a table of each action.   *)
EXTENDS Cache

MCRequests == {"r1", "r2"}
MCKeys == {"list", "count"}
MCTables == {"users"}
MCTableOf == [k \in MCKeys |-> "users"]
=============================================================================
