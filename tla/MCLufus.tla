------------------------------ MODULE MCLufus ------------------------------
(* Two sticks, and one image, for which startWrite asks once.              *)
EXTENDS Lufus, TLC

MCKind == "stick1" :> "stick" @@ "stick2" :> "stick" @@ "system" :> "usbDisk"

MCAnalyses ==
  "linux.iso" :>
    {[isValid |-> TRUE, volumeLabel |-> "PLAIN", isoType |-> "LinuxLive",
      needsSplitWim |-> FALSE, largeFile |-> FALSE, bootMode |-> {"uefi"},
      isIsoHybrid |-> FALSE]}

(* The system runs from a USB disk; the sticks are alike, and so are       *)
(* the two ports for them.                                                 *)
MCInit ==
  /\ Init
  /\ attached[Root] = "system"
  /\ attached["sdb"] # "stick2"
  /\ attached["sdb"] = None => attached["sdc"] = None

MCSpec == MCInit /\ [][Next]_vars /\ Fairness
=============================================================================
