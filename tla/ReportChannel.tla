---------------------------- MODULE ReportChannel ----------------------------
(***************************************************************************)
(* What the track device promises about the messages its loop() posts:     *)
(* they are handed to the MQTT client in the order of posting and none     *)
(* twice; a message may be skipped, and then never comes.                  *)
(***************************************************************************)
EXTENDS Naturals, Sequences

VARIABLES
    posted,     \* how many messages were posted; a message is its number
    handed      \* the messages handed to the MQTT client, in that order

channelVars == <<posted, handed>>

LastHanded == IF handed = <<>> THEN 0 ELSE handed[Len(handed)]

Init == posted = 0 /\ handed = <<>>

Post == posted' = posted + 1 /\ UNCHANGED handed

Hand ==
    /\ \E m \in LastHanded + 1 .. posted : handed' = Append(handed, m)
    /\ UNCHANGED posted

Spec == Init /\ [][Post \/ Hand]_channelVars

=============================================================================
