------------------------------ MODULE Timings -------------------------------
(***************************************************************************)
(* The memory timings the loader computes for an overclocked memory rate   *)
(* (loader/source/oc/mtc_timing_value.hpp) and the registers of a memory   *)
(* timing table it writes them to (pcv/pcv_mariko.cpp, pcv/pcv_erista.cpp).*)
(*                                                                         *)
(* A rate is counted in units of 100 kHz and a time in hundredths of a     *)
(* nanosecond, which keeps every value the code holds in a double a whole  *)
(* number; the last bit of a double is not modelled.  A register that the  *)
(* code writes to several copies of itself (burst, CA training, read/write *)
(* training) is one register here, and so are two that always get the same *)
(* value (rd_rcd and wr_rcd are emc_rcd, txsr and txsrdll are emc_txsr).   *)
(***************************************************************************)
EXTENDS Integers, Sequences

Socs == {"Erista", "Mariko"}

CeilDiv(a, b) == -((-a) \div b)
Least(a, b) == IF a <= b THEN a ELSE b

(***************************************************************************)
(* The presets.  p[k] is what the user chose for preset k, 0 for none.     *)
(***************************************************************************)
Choose1(chosen, values, default) ==
    IF chosen = 0 THEN default ELSE values[chosen]

PresetSizes == <<6, 5, 6, 6, 6, 5, 6>>
Presets == {p \in [1..7 -> 0..6] : \A k \in 1..7 : p[k] <= PresetSizes[k]}
NoPreset == [k \in 1..7 |-> 0]

tRCD(p)   == Choose1(p[1], <<1800, 1700, 1600, 1500, 1400, 1300>>, 1800)
tRPpb(p)  == Choose1(p[1], <<1800, 1700, 1600, 1500, 1400, 1300>>, 1800)
tRAS(p)   == Choose1(p[1], <<4200, 3900, 3600, 3400, 3200, 3000>>, 4200)
tRPab(p)  == IF p[1] = 0 THEN 2100 ELSE tRPpb(p) + 300
tRC(p)    == tRPpb(p) + tRAS(p)
tRRD(p)   == Choose1(p[2], <<1000, 750, 600, 400, 300>>, 1000)
tFAW(p)   == Choose1(p[2], <<4000, 3000, 2400, 1600, 1200>>, 4000)
tWR(p)    == Choose1(p[3], <<1800, 1500, 1500, 1200, 1200, 800>>, 1800)
tRTP(p)   == Choose1(p[3], <<750, 750, 600, 600, 400, 400>>, 750)
tRFCpb(p) == Choose1(p[4], <<14000, 12000, 10000, 8000, 7000, 6000>>, 14000)
tRFCab(p) == IF p[4] = 0 THEN 28000 ELSE 2 * tRFCpb(p)
tXSR(p)   == tRFCab(p) + 750
tWTR(p)   == Choose1(p[5], <<1000, 800, 600, 400, 200, 100>>, 1000)
tREFpb(p) == Choose1(p[6], <<488, 976, 1952, 3256, 9999>>, 488)     \* in ns

(* The times no preset changes.                                            *)
tDQSCK_max == 350
tXP == 1000
tCKE == 750
tSR == 1500
tCSCKEH == 175
tCKCKEH == 175

(***************************************************************************)
(* Cycles at a rate.  GET_CYCLE_CEIL(t) is CEIL(t / tCK_avg) with tCK_avg  *)
(* = 1000000 / rate in kHz.                                                *)
(***************************************************************************)
Cycles(clk, t) == CeilDiv(t * clk, 1000000)

WL(p) == 14 - 2 * p[7]
RL(p) == 32 - 4 * p[7]

R2W(soc, clk, p) ==
    RL(p) + Cycles(clk, tDQSCK_max) + 8 - WL(p) + 2
        + (IF soc = "Erista" THEN 6 ELSE 0)
W2R(soc, clk, p) ==
    WL(p) + 8 + 1 + Cycles(clk, tWTR(p)) - (IF soc = "Erista" THEN 6 ELSE 0)
WTP(soc, clk, p) ==
    WL(p) + 8 + 1 + Cycles(clk, tWR(p)) - (IF soc = "Erista" THEN 8 ELSE 0)
WTPDEN(soc, clk, p) ==
    WTP(soc, clk, p) + 1 + Cycles(clk, 125) + Cycles(clk, 80) + 6
RTM(clk, p)  == RL(p) + 8 + Cycles(clk, tDQSCK_max) + Cycles(clk, 750)
WTM(clk, p)  == WL(p) + 1 + 8 + Cycles(clk, 750)
RATM(clk, p) == RTM(clk, p) + Cycles(clk, tRTP(p)) - 8
WATM(clk, p) == WTM(clk, p) + Cycles(clk, tWR(p))

(* The refresh interval in pairs of cycles, a multiple of four.  1.048 / 2 *)
(* / numOfRows per kHz is 131 / 163840 per 100 kHz; the product is split   *)
(* so that it keeps within 32 bits.                                        *)
REFRESH(clk, p) ==
    LET x == tREFpb(p) * clk
        interval == (x \div 163840) * 131
                        + CeilDiv((x % 163840) * 131, 163840) - 64
    IN  Least(65472, (interval \div 4) * 4)
REFBW(clk, p) == Least(65536, REFRESH(clk, p) + 64)

(***************************************************************************)
(* The registers each preset stands for, in the clock domain of the memory *)
(* and, for mc_..., in that of the arbiter (MC_ARB_DIV, MC_ARB_SFA).       *)
(***************************************************************************)
Arb(cycles) == cycles \div 4

PresetOne(clk, p) ==
    [emc_rc       |-> Cycles(clk, tRC(p)),
     emc_ras      |-> Cycles(clk, tRAS(p)),
     emc_rp       |-> Cycles(clk, tRPpb(p)),
     emc_trpab    |-> Cycles(clk, tRPab(p)),
     emc_rcd      |-> Cycles(clk, tRCD(p)),
     emc_pdex2mrr |-> Cycles(clk, tXP + tRCD(p)) + 3,
     mc_rcd       |-> Arb(Cycles(clk, tRCD(p))) - 2,
     mc_rc        |-> Arb(Cycles(clk, tRC(p))) - 1,
     mc_rp        |-> Arb(Cycles(clk, tRPpb(p))) - 1 + 2,
     mc_ras       |-> Arb(Cycles(clk, tRAS(p))) - 2]

PresetTwo(clk, p) ==
    [emc_tfaw |-> Cycles(clk, tFAW(p)),
     emc_rrd  |-> Cycles(clk, tRRD(p)),
     mc_faw   |-> Arb(Cycles(clk, tFAW(p))) - 1,
     mc_rrd   |-> Arb(Cycles(clk, tRRD(p))) - 1]

PresetThree(soc, clk, p) ==
    [emc_r2p     |-> Cycles(clk, tRTP(p)),
     emc_w2p     |-> WTP(soc, clk, p),
     emc_tratm   |-> RATM(clk, p),
     emc_twatm   |-> WATM(clk, p),
     emc_rw2pden |-> WTPDEN(soc, clk, p),
     mc_rap2pre  |-> Arb(Cycles(clk, tRTP(p))),
     mc_wap2pre  |-> Arb(WTP(soc, clk, p))]

PresetFour(clk, p) ==
    [emc_rfc   |-> Cycles(clk, tRFCab(p)),
     emc_rfcpb |-> Cycles(clk, tRFCpb(p)),
     emc_txsr  |-> Least(Cycles(clk, tXSR(p)), 1022),
     mc_rfcpb  |-> Arb(Cycles(clk, tRFCpb(p)))]

PresetFive(soc, clk, p) ==
    [emc_w2r |-> W2R(soc, clk, p),
     mc_w2r  |-> Arb(W2R(soc, clk, p)) - 1 + 2]

PresetSix(clk, p) ==
    [emc_refresh             |-> REFRESH(clk, p),
     emc_pre_refresh_req_cnt |-> REFRESH(clk, p) \div 4,
     emc_trefbw              |-> REFBW(clk, p)]

PresetSeven(soc, clk, p) ==
    [emc_r2w     |-> R2W(soc, clk, p),
     emc_w2r     |-> W2R(soc, clk, p),
     emc_w2p     |-> WTP(soc, clk, p),
     emc_trtm    |-> RTM(clk, p),
     emc_twtm    |-> WTM(clk, p),
     emc_tratm   |-> RATM(clk, p),
     emc_twatm   |-> WATM(clk, p),
     emc_rw2pden |-> WTPDEN(soc, clk, p),
     mc_wap2pre  |-> Arb(WTP(soc, clk, p)),
     mc_r2w      |-> Arb(R2W(soc, clk, p)) - 1 + 2,
     mc_w2r      |-> Arb(W2R(soc, clk, p)) - 1 + 2]

(* The registers that depend on the rate alone.                            *)
FixedTimes(soc, clk) ==
    [emc_pdex2wr   |-> Cycles(clk, tXP),
     emc_pchg2pden |-> Cycles(clk, 175),
     emc_act2pden  |-> Cycles(clk, 1400),
     emc_cke2pden  |-> Cycles(clk, 500),
     emc_tcke      |-> Cycles(clk, tCKE) + (IF soc = "Mariko" THEN 1 ELSE 0),
     emc_tckesr    |-> Cycles(clk, tSR),
     emc_tpd       |-> Cycles(clk, tCKE),
     emc_tclkstop  |-> Cycles(clk, tCKE) + 8]

(* One record over another.                                                *)
Over(new, old) ==
    [r \in DOMAIN old \cup DOMAIN new |-> IF r \in DOMAIN new THEN new[r] ELSE old[r]]

(* Erista's tables have no delays between an access and a mode register.   *)
Registers(soc, regs) ==
    IF soc = "Mariko" THEN regs
    ELSE [r \in DOMAIN regs \ {"emc_trtm", "emc_twtm", "emc_tratm", "emc_twatm"} |-> regs[r]]

(* The registers of a table of the firmware: u32s, the delays of the       *)
(* arbiter seven bits wide.                                                *)
ArbiterDelays ==
    {"mc_rap2pre", "mc_wap2pre", "mc_rp", "mc_rcd", "mc_rc", "mc_r2w", "mc_w2r"}
Extrapolated == {"dyn_self_ref", "ptsa_rate", "ptsa_grant"}
FirmwareTimings(soc, regs) ==
    /\ \A r \in DOMAIN regs : regs[r] \in Nat
    /\ soc = "Mariko" => ArbiterDelays \cup Extrapolated \subseteq DOMAIN regs
    /\ \A r \in ArbiterDelays \cap DOMAIN regs : regs[r] < 128

OnPreset(p, k, new, old) == IF p[k] # 0 THEN Over(new, old) ELSE old

(***************************************************************************)
(* What Mariko's adjustments derive from the arbiter's registers: the      *)
(* fields of DA_TURNS and DA_COVERS, each a u8.                            *)
(***************************************************************************)
U8(n) == n % 256

\* Mutant: both covers taken from the read precharge.
ReadTurns(regs) ==
    Over([r2w_turn |-> U8(regs.mc_r2w \div 2),
          w2r_turn |-> U8(regs.mc_w2r \div 2),
          rc_cover |-> U8(regs.mc_rc \div 2),
          r_cover  |-> U8((regs.mc_rap2pre + regs.mc_rp + regs.mc_rcd) \div 2),
          w_cover  |-> U8((regs.mc_rap2pre + regs.mc_rp + regs.mc_rcd) \div 2)],
         regs)

Turns(regs) ==
    Over([r2w_turn |-> U8(regs.mc_r2w \div 2),
          w2r_turn |-> U8(regs.mc_w2r \div 2),
          rc_cover |-> U8(regs.mc_rc \div 2),
          r_cover  |-> U8((regs.mc_rap2pre + regs.mc_rp + regs.mc_rcd) \div 2),
          w_cover  |-> U8((regs.mc_wap2pre + regs.mc_rp + regs.mc_rcd) \div 2)],
         regs)

(***************************************************************************)
(* Registers scaled with the rate.  ADJUST multiplies by a quotient of     *)
(* integers, and ADJUST_PROP extrapolates from the tables for 1331.2 and   *)
(* 1600 MHz in u32s: the product, in kHz, is taken modulo 2^32 before it   *)
(* is divided by 268800 (both a hundred times ours, and here a quarter).   *)
(***************************************************************************)
ADJUST_INVERSE(clk, t) == (t * 1600) \div (clk \div 10)
ADJUST(clk, t) == t * (clk \div 16000)
ADJUST_PROP(clk, target, ref) ==
    ref + ((25 * (clk - 13312) * (target - ref)) % 1073741824) \div 67200

(* What of the automatic adjustment only Mariko has: the fields of the     *)
(* arbiter, of which the two thresholds are shifted out of the u8 they are *)
(* cast to, ...                                                            *)
MarikoOnly(clk, regs) ==
    Over([mc_cfg    |-> clk \div 1332,
          mc_r2r    |-> Arb(26) - 1 + 2,
          holdoff   |-> U8(regs.mc_rc + 1),
          inversion |-> U8(ADJUST(clk, 36) * 256),
          iso_inversion |-> U8(ADJUST(clk, 12) * 65536),
          la        |-> U8(ADJUST_INVERSE(clk, 128)),
          la_hc     |-> ADJUST_INVERSE(clk, 22),
          la_gpu    |-> ADJUST_INVERSE(clk, 25),
          la_vic    |-> ADJUST_INVERSE(clk, 29)],
         Turns(regs))

(* ... and what is derived from the tables of the firmware or fixed.       *)
MarikoRest(clk, p, ref, regs) ==
    [dyn_self_ref |-> ADJUST_PROP(clk, regs.dyn_self_ref, ref.dyn_self_ref),
     ptsa_rate    |-> ADJUST(clk, regs.ptsa_rate),
     ptsa_grant   |-> ADJUST(clk, regs.ptsa_grant),
     t_rp         |-> tRPpb(p) \div 100,
     t_rfc        |-> tRFCab(p) \div 100,
     emc_rext     |-> 26,
     pll_ss_ctrl1 |-> 190184961,
     pll_ss_ctrl2 |-> 269945685,
     emc_cfg_2    |-> 1116221]

(* Only Erista's automatic adjustment has these two.                       *)
EristaOnly(clk) ==
    [emc_pdex2cke   |-> Cycles(clk, tCSCKEH),
     emc_tclkstable |-> Cycles(clk, tCKCKEH)]

AllPresets(soc, clk, p) ==
    Over(PresetOne(clk, p),
    Over(PresetTwo(clk, p),
    Over(PresetThree(soc, clk, p),
    Over(PresetFour(clk, p),
    Over(PresetFive(soc, clk, p),
    Over(PresetSix(clk, p),
    Over(PresetSeven(soc, clk, p), FixedTimes(soc, clk))))))))

(***************************************************************************)
(* MemMtcTableAutoAdjust and MemMtcTableCustomAdjust on the registers of   *)
(* the table for the highest rate; ref are those of the table below it.    *)
(***************************************************************************)
AutoAdjusted(soc, clk, p, ref, regs) ==
    IF soc = "Mariko"
    THEN Over(MarikoRest(clk, p, ref, regs),
         Over(MarikoOnly(clk, AllPresets(soc, clk, p)), regs))
    ELSE Over(EristaOnly(clk),
         Over(Registers(soc, AllPresets(soc, clk, p)), regs))

CustomAdjusted(soc, clk, p, regs) ==
    Registers(soc, Turns(OnPreset(p, 7, PresetSeven(soc, clk, p),
          OnPreset(p, 6, PresetSix(clk, p),
          OnPreset(p, 5, PresetFive(soc, clk, p),
          OnPreset(p, 4, PresetFour(clk, p),
          OnPreset(p, 3, PresetThree(soc, clk, p),
          OnPreset(p, 2, PresetTwo(clk, p),
          OnPreset(p, 1, PresetOne(clk, p), regs)))))))))

(***************************************************************************)
(* MemMtcPllmbDivisor: the divisors that make PLLMB, 38.4 MHz / divm *     *)
(* divn, the nearest rate it can produce that is not above the one wanted. *)
(***************************************************************************)
pll_osc_in == 38400
DivRatios == <<[num |-> 3, den |-> 4], [num |-> 2, den |-> 3],
               [num |-> 1, den |-> 2], [num |-> 1, den |-> 3],
               [num |-> 1, den |-> 4], [num |-> 0, den |-> 2]>>

PllmbRatio(khz) ==
    DivRatios[CHOOSE i \in DOMAIN DivRatios :
        /\ khz % pll_osc_in >= (pll_osc_in * DivRatios[i].num) \div DivRatios[i].den
        /\ \A j \in 1..(i - 1) :
               khz % pll_osc_in < (pll_osc_in * DivRatios[j].num) \div DivRatios[j].den]

Pllmb(khz) ==
    LET ratio == PllmbRatio(khz) IN
    [divm |-> ratio.den,
     divn |-> (khz \div pll_osc_in) * ratio.den + ratio.num]

PllmbOutput(d) == (pll_osc_in * d.divn) \div d.divm
=============================================================================
