----------------------------- MODULE MCReassembly -----------------------------
(* Messages on the air for TLC.                                            *)
EXTENDS Reassembly

CONSTANTS us, all, alice, bob, carol

Line(from, to, hz, class, len, bare, eot) ==
    [from |-> from, to |-> to, hz |-> hz, class |-> class, len |-> len,
     bare |-> bare, eot |-> eot]

(* Alice sends a mail and a text; Bob, who may come out in her bucket or   *)
(* in the next, a command without a right checksum that begins with its    *)
(* verb alone, and asks for his messages; Carol calls CQ.                  *)
Busy == << Line(alice, us, 984, "mail", 2, FALSE, FALSE),
           Line(alice, us, 984, "text", 1, FALSE, FALSE),
           Line(bob, us, 986, "bad", 2, TRUE, TRUE),
           Line(bob, us, 986, "ask", 1, FALSE, FALSE),
           Line(carol, all, 984, "other", 1, FALSE, FALSE) >>
===============================================================================
