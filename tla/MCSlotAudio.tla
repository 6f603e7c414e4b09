---------------------------- MODULE MCSlotAudio ----------------------------
(* A station that only receives, and one whose decoder did not come up:    *)
(* the two halves have nothing in common but the clock.                    *)
EXTENDS SlotAudio

Halves == { [parts |-> {"play"}, latency |-> 1],
            [parts |-> {"play"}, latency |-> 5],
            [parts |-> {"decode"}, latency |-> 1] }
===============================================================================
