------------------------------ MODULE MCServer ------------------------------
(* The TLC instance of Server: two clients of a server with one child loop *)
(* (with three descriptors the second one meets EMFILE), and one client of *)
(* a server with two.                                                      *)
EXTENDS Server

CONSTANTS l1, l2, c1, c2

ClientsAndLoops == {[children |-> {l1}, clients |-> {c1, c2}, maxOpens |-> 1],
                    [children |-> {l1, l2}, clients |-> {c1}, maxOpens |-> 1]}
=============================================================================
