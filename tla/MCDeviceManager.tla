--------------------------- MODULE MCDeviceManager ---------------------------
(* Two ports beside the system disk, and drives to tell apart.             *)
EXTENDS DeviceManager, TLC

MCKind == "stick1" :> "stick" @@ "stick2" :> "stick" @@ "disk" :> "usbDisk"
            @@ "inside" :> "internal"
=============================================================================
