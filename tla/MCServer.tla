------------------------------ MODULE MCServer -------------------------------
(* Server with up to two records in each section, of sizes 1 and 3.         *)
EXTENDS Server

MCSections == UNION {[1..n -> {1, 3}] : n \in 0..2}
MCRcodes == {"SUCCESS", "SERVFAIL", "NXDOMAIN"}
=============================================================================
