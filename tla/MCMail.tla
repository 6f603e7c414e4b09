-------------------------------- MODULE MCMail --------------------------------
(* Three stations and what their operators set out to do.                  *)
EXTENDS Mail

CONSTANTS a, b, c, group, t1, t2

ThreeStations == {a, b, c}
OneGroup == {group}
Do(by, cmd, to, num, text, for) ==
    [by |-> by, cmd |-> cmd, to |-> to, num |-> num, text |-> text, for |-> for]

(* Mail held for B is asked for by B, and by C; meanwhile its holder       *)
(* writes to C a message that begins with a number.                        *)
Collect == {Do(a, "STORE", b, 0, t1, a), Do(b, "QUERY MSGS", a, 0, NoText, b),
            Do(b, "QUERY MSG", a, 1, NoText, b), Do(c, "QUERY MSG", a, 1, NoText, c),
            Do(a, "MSG", c, 1, t2, a)}
(* Mail given to A to hold for B, who asks everybody.                      *)
Relay == {Do(c, "MSG TO", a, 0, t1, b), Do(b, "QUERY MSGS", AllCall, 0, NoText, b),
          Do(b, "QUERY MSG", a, 1, NoText, b)}
(* Mail that is read and deleted while other mail arrives.                 *)
Tidy == {Do(b, "MSG", a, 0, t1, b), Do(c, "MSG", a, 0, t2, c),
         Do(a, "READ", a, 1, NoText, a), Do(a, "DELETE", a, 1, NoText, a)}
(* What names a group, or is refused.                                      *)
Group == {Do(b, "SNR?", group, 0, NoText, b), Do(c, "FREE", a, 0, t1, c),
          Do(a, "STORE", group, 0, t2, a), Do(c, "MSG TO", a, 0, t1, group)}
AllPlans == {Collect, Relay, Tidy, Group}
===============================================================================
