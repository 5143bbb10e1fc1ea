------------------------------ MODULE UsbWrite ------------------------------
(***************************************************************************)
(* What Lufus promises the user who presses START, with no word on how:    *)
(* the drive leaves the user's data once and for all, an answer always     *)
(* comes, and the answer is success only when the drive holds the image.   *)
(* DiskWriter implements it.                                               *)
(***************************************************************************)
VARIABLES
  drive,     \* "user": as it was plugged in; "scratch": neither; "image"
  outcome    \* "idle" before the first write, "pending", "ok" or "failed"

uwVars == <<drive, outcome>>

Init == drive = "user" /\ outcome = "idle"

(* A new write may ask for another image than the last one.                *)
Begin ==
  /\ outcome # "pending"
  /\ outcome' = "pending"
  /\ drive' \in IF drive = "user" THEN {"user"} ELSE {"scratch", "image"}

Destroy == outcome = "pending" /\ drive' = "scratch" /\ UNCHANGED outcome

Finish == outcome = "pending" /\ drive' = "image" /\ UNCHANGED outcome

Succeed == outcome = "pending" /\ drive = "image" /\ outcome' = "ok" /\ UNCHANGED drive

GiveUp == outcome = "pending" /\ outcome' = "failed" /\ drive' \in {drive, "scratch"}

Next == Begin \/ Destroy \/ Finish \/ Succeed \/ GiveUp

Safety == Init /\ [][Next]_uwVars

(* A write that was begun is answered.                                     *)
Answered == (outcome = "pending") ~> (outcome # "pending")

Spec == Safety /\ Answered
=============================================================================
