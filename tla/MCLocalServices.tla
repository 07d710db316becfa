--------------------------- MODULE MCLocalServices ---------------------------
(* Small instances of the parts that share no state with each other: the
   connection list, the bonds and the handles in flash, the software timers, the
   key scan, the USB reports, the OTA client and the buffer pools.  A behaviour
   is one of one of them, the others rest in their first state.            *)
EXTENDS DeviceManage, PairStore, SdpStore, SoftTimer, KeyScan, UsbHid, OtaClient, BufPools

(* CR_VOL_UP has a scan pin of its own. *)
MCScanPin == [k \in MatrixKeys |-> IF k = "CR_VOL_UP" THEN 2 ELSE 1]

MCOtaBuilds == [exchange : BOOLEAN, compare : BOOLEAN]
MCBufNum == <<2, 1>>

VARIABLE part  \* the one that is at work

ServicesInit ==
  /\ part \in {"list", "bonds", "handles", "timers", "keys", "reports", "ota", "pools"}
  /\ DevInit /\ Init /\ SdpInit /\ TimerInit /\ KeyInit /\ HidInit /\ OtaInit /\ PoolInit
  /\ part # "timers" => clock = 0
  /\ part # "ota" => otaBuild = [exchange |-> FALSE, compare |-> FALSE]

ServicesNext ==
  /\ UNCHANGED part
  /\ \/ part = "list" /\ DevNext
          /\ UNCHANGED <<vars, sdpStoreVars, timerVars, keyVars, hidVars, otaVars, poolVars>>
     \/ part = "bonds" /\ Next
          /\ UNCHANGED <<devVars, sdpStoreVars, timerVars, keyVars, hidVars, otaVars, poolVars>>
     \/ part = "handles" /\ SdpNext
          /\ UNCHANGED <<devVars, vars, timerVars, keyVars, hidVars, otaVars, poolVars>>
     \/ part = "timers" /\ TimerNext
          /\ UNCHANGED <<devVars, vars, sdpStoreVars, keyVars, hidVars, otaVars, poolVars>>
     \/ part = "keys" /\ KeyNext
          /\ UNCHANGED <<devVars, vars, sdpStoreVars, timerVars, hidVars, otaVars, poolVars>>
     \/ part = "reports" /\ HidNext
          /\ UNCHANGED <<devVars, vars, sdpStoreVars, timerVars, keyVars, otaVars, poolVars>>
     \/ part = "ota" /\ OtaNext
          /\ UNCHANGED <<devVars, vars, sdpStoreVars, timerVars, keyVars, hidVars, poolVars>>
     \/ part = "pools" /\ PoolNext
          /\ UNCHANGED <<devVars, vars, sdpStoreVars, timerVars, keyVars, hidVars, otaVars>>

ServicesSpec == ServicesInit /\ [][ServicesNext]_<<part, devVars, vars, sdpStoreVars, timerVars, keyVars, hidVars, otaVars, poolVars>>
=============================================================================
