-------------------------------- MODULE JawDrive --------------------------------
(***************************************************************************)
(* The jaw on its serial line (env/ur_rtde.py, DHGripper, move_gripper;    *)
(* the use of the result is env/ur.py's). There is no stop register: a     *)
(* halt aims the jaw at where it is. The state register follows a command  *)
(* after a moment, shorter than the 0.3 s the driver allows for it. An     *)
(* exchange is repeated twice; a write that fails may have been done, and  *)
(* an answer comes in time or never.                                       *)
(***************************************************************************)
EXTENDS Integers

CONSTANTS Width  \* positions of the jaw: closed is 0, open is Width

VARIABLES
  opening,   \* where the jaw is
  aimed,     \* DH_POSITION
  contact,   \* where an object stops it when it closes, -1 for none
  register,  \* DH_GRIP_STATE
  fresh,     \* the register has not been updated since the last command
  driving,   \* where move_gripper is
  wanted,    \* the width of the command
  seen, waited,  \* seen_moving; 0.3 s have passed
  stopped,   \* the stop event
  noted,     \* the position halt has read
  ended,     \* what move_gripper returned
  reached    \* history: the jaw has been at the wanted width

device == <<opening, aimed, contact, register, fresh, reached>>
vars == <<device, driving, wanted, seen, waited, stopped, noted, ended>>

Positions == 0..Width
Ends == {"arrived", "caught", "stopped", "unknown"}

TypeOK ==
  /\ {opening, aimed, wanted, noted} \subseteq Positions /\ contact \in Positions \cup {-1}
  /\ register \in {"moving", "arrived", "caught"}
  /\ {fresh, seen, waited, stopped, reached} \subseteq BOOLEAN
  /\ driving \in {"idle", "polling", "timeout", "halting", "failing", "waiting"}
  /\ ended \in Ends \cup {"none"}

Init ==
  /\ contact \in Positions \cup {-1} /\ opening = Width /\ aimed = Width /\ register = "arrived"
  /\ fresh = FALSE /\ driving = "idle" /\ wanted = Width /\ seen = FALSE /\ waited = FALSE
  /\ stopped = FALSE /\ noted = Width /\ ended = "none" /\ reached = TRUE

-------------------------------------------------------------------------------
(* The gripper.                                                            *)

Blocked == aimed < opening /\ opening = contact
Moving == opening # aimed /\ ~Blocked
Slide ==
  /\ Moving /\ opening' = IF aimed > opening THEN opening + 1 ELSE opening - 1
  /\ reached' = (reached \/ opening' = wanted)
  /\ UNCHANGED <<aimed, contact, register, fresh, driving, wanted, seen, waited, stopped, noted,
                 ended>>
Sense ==
  /\ register' = IF Moving THEN "moving" ELSE IF Blocked THEN "caught" ELSE "arrived"
  /\ fresh' = FALSE
  /\ UNCHANGED <<opening, aimed, contact, reached, driving, wanted, seen, waited, stopped, noted,
                 ended>>

-------------------------------------------------------------------------------
(* move_gripper and its exchanges.                                         *)

Written(to) == aimed' = to /\ fresh' = TRUE /\ UNCHANGED <<opening, contact, register>>
Fault(to) == driving' = "idle" /\ ended' = "unknown" /\ (Written(to) \/ UNCHANGED device)

\* set_gripper names one of the ends; after a fault nothing is admitted.
Command ==
  /\ driving = "idle" /\ ended # "unknown"
  /\ wanted' \in {0, Width} /\ reached' = (opening = wanted')
  /\ seen' = FALSE /\ waited' = FALSE /\ stopped' = FALSE /\ UNCHANGED noted
  /\ \/ Written(wanted') /\ driving' = "polling" /\ ended' = "none"
     \/ /\ driving' = "idle" /\ ended' = "unknown"
        /\ Written(wanted') \/ UNCHANGED <<opening, aimed, contact, register, fresh>>
SetStop ==
  /\ driving # "idle" /\ stopped' = TRUE
  /\ UNCHANGED <<device, driving, wanted, seen, waited, noted, ended>>
\* The register is up to date within 0.3 s.
Wait ==
  /\ driving = "polling" /\ ~fresh /\ waited' = TRUE
  /\ UNCHANGED <<device, driving, wanted, seen, stopped, noted, ended>>

\* Fault: the terminal state of the command before is taken for this one's.
Terminal_early(s) == s # "moving"
Terminal(s) == s # "moving" /\ (seen' \/ waited)
Poll ==
  /\ driving = "polling" /\ ~stopped /\ seen' = (seen \/ register = "moving")
  /\ IF Terminal(register) THEN driving' = "idle" /\ ended' = register
     ELSE UNCHANGED ended /\ driving' \in {"polling", "timeout"}
  /\ UNCHANGED <<device, wanted, waited, stopped, noted>>

\* halt: the position is read, then it is the command.
HaltReads ==
  /\ driving \in {"timeout", "polling"} /\ (driving = "polling" => stopped)
  /\ noted' = opening /\ driving' = IF driving = "timeout" THEN "failing" ELSE "halting"
  /\ UNCHANGED <<device, wanted, seen, waited, stopped, ended>>
\* Fault: the command stays.
Halted_not == wanted
Halted == noted
HaltWrites ==
  /\ Written(Halted) /\ UNCHANGED reached
  /\ \/ driving = "halting" /\ driving' = "waiting" /\ UNCHANGED ended
     \/ driving = "failing" /\ driving' = "idle" /\ ended' = "unknown"   \* gripper_timeout
  /\ UNCHANGED <<wanted, seen, waited, stopped, noted>>
\* _wait_jaw.
JawRests ==
  /\ driving = "waiting" /\ register # "moving" /\ driving' = "idle" /\ ended' = "stopped"
  /\ UNCHANGED <<device, wanted, seen, waited, stopped, noted>>
\* No valid answer in three tries, or the jaw is not seen at rest in time.
LineFails ==
  /\ driving # "idle" /\ Fault(IF driving \in {"halting", "failing"} THEN noted ELSE aimed) /\ UNCHANGED reached
  /\ UNCHANGED <<wanted, seen, waited, stopped, noted>>

Next ==
  \/ Slide \/ Sense \/ Command \/ SetStop \/ Wait \/ Poll
  \/ HaltReads \/ HaltWrites \/ JawRests \/ LineFails
Spec == Init /\ [][Next]_vars

-------------------------------------------------------------------------------
\* Whatever the register still shows of the command before: a jaw reported as
\* arrived or caught rests where this command has led it, and one that was
\* stopped is not on its way to the commanded width any more. Only after a
\* failed exchange, recorded as UNKNOWN, it may be (ur_rtde.py, move_gripper).
JawAsReported ==
  driving = "idle" =>
    /\ ended = "arrived" => opening = wanted /\ ~Moving
    /\ ended = "caught" => aimed = wanted /\ Blocked
    /\ ended = "stopped" => (aimed = wanted => reached)
===============================================================================
