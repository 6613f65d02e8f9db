------------------------------- MODULE Loader -------------------------------
(***************************************************************************)
(* The loader starting the two system modules it patches (patch.py, lines  *)
(* 57 to 67: a branch per program in the loading of a process).  It serves *)
(* one request at a time, and the clock driver pcv is started before ptm,  *)
(* which uses it.  A patcher that gives up ends the loader and with it the *)
(* boot.                                                                   *)
(***************************************************************************)
EXTENDS PcvPatcher, PtmPatcher

loaderVars == <<pcvVars, ptmVars>>

LoaderInit == PcvInit /\ PtmInit

StartPcv == PcvNext /\ UNCHANGED ptmVars
\* Mutant: ptm may come first.
StartPtmEarly ==
    /\ LoadPtm(soc, cust.commonCpuBoostClock) \/ PtmNext
    /\ UNCHANGED pcvVars
StartPtm ==
    /\ status = "accepted"
    /\ LoadPtm(soc, cust.commonCpuBoostClock) \/ PtmNext
    /\ UNCHANGED pcvVars

LoaderNext == StartPcv \/ StartPtm
LoaderSpec == LoaderInit /\ [][LoaderNext]_loaderVars

-----------------------------------------------------------------------------
(* Type invariant of both patchers.                                        *)
LoaderTypeOK ==
    /\ PcvTypeOK
    /\ ptm \in {"unloaded", "find", "apply", "accepted", "crash"}
    /\ DOMAIN conf = DOMAIN image
    /\ entry \in 0..entryCnt /\ boosts \in 0..entry /\ mems \in 0..entry
    /\ table \in 0..Len(conf)
    /\ ptm # "unloaded" => status = "accepted"

(* ptm never asks pcv for a memory rate whose timing table the overclock   *)
(* displaced: Mariko gives up the 1331.2 MHz table to keep the one of 1600 *)
(* MHz, and ptm's configurations were made for both; Erista gives up the   *)
(* lowest.                                                                 *)
RequestedRatesExist ==
    ptm = "accepted" =>
        \A a \in patched["Mtc"] : \A i \in 0..(entryCnt - 1) : \A k \in {5, 6} :
            conf[EntryAt(table, i) + k] \in
                {MtcRates(word, a)[j] : j \in 1..Len(KhzList(soc))}
=============================================================================
