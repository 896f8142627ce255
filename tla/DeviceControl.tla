---------------------------- MODULE DeviceControl -----------------------------
(***************************************************************************)
(* What the host can set: the CMD_DEV_CAD command of cmd_decode, the DTR   *)
(* line, and I2S_Start, I2S_Stop, I2S_Sleep and I2S_WakeUp behind them,    *)
(* with the hardware they switch.  All of it runs in the USB interrupt, so *)
(* a request is one action; what it does to the samples is in Acquisition. *)
(* The firmware of Audio_pcm1802 differs in one thing: after a start its   *)
(* CMD_DEV_CAD answers with what the driver made of the setting.           *)
(***************************************************************************)
EXTENDS Integers, PllDivider

CONSTANTS
  FREQ_MIN, FREQ_MAX,   \* the limits of I2S_init, 512000 and 96000000
  FREQ_BOOT,            \* the initial i2s_cfg.freq, 24576000
  Freqs,                \* the frequencies the host asks for
  Chnls,                \* the channel settings it asks for
  Firmwares             \* the values of writes_back looked at

ASSUME FreqAssumption ==
  /\ FREQ_MIN \in Nat \ {0} /\ FREQ_MAX \in Nat
  /\ FREQ_BOOT \in FREQ_MIN .. FREQ_MAX
  /\ Freqs \subseteq Nat /\ Chnls \subseteq 0 .. 255
  /\ Firmwares \subseteq BOOLEAN

(* Up to here the constants of Set_Audio_PLL_Freq are exact enough. *)
ASSUME LimitAssumption == FREQ_MAX <= 96000000

VARIABLES
  writes_back, \* whether this is the firmware of Audio_pcm1802
  cfg_adc,     \* cmd_decode.c: [enable, chnl, freq]
  i2s_cfg,     \* i2s_drv.c: [freq, channels, start]
  i2s0, mgpio, \* whether the device pointers are set
  dtr_enable,
  pll,         \* the audio PLL's registers, 0 before the first time
  hw,          \* what is switched on: [clock, rx, dma, power]
  fmt,         \* channel setting in the I2S registers
  asked,       \* ghost: the last CMD_DEV_CAD with data
  starts,      \* ghost: parity of the starts of the DMA
  obeyed       \* ghost: it came to an awake device, and DTR has not been
               \* dropped since

driver == <<i2s_cfg, i2s0, mgpio, pll, hw, fmt>>
vars   == <<writes_back, cfg_adc, driver, dtr_enable, asked, starts, obeyed>>

Off == [clock |-> FALSE, rx |-> FALSE, dma |-> FALSE, power |-> FALSE]

Limited(freq) ==
  IF freq < FREQ_MIN THEN FREQ_MIN ELSE IF freq > FREQ_MAX THEN FREQ_MAX ELSE freq

(* seeded fault: the setting is stored as it came. *)
ChannelsUnmasked(channels) == IF channels = 0 THEN 1 ELSE channels

(* channels & 3, and 1 for 0. *)
Channels(channels) == IF channels % 4 = 0 THEN 1 ELSE channels % 4

Set_Audio_PLL_Freq(freq_hz) == pll' = Registers(freq_hz)
i2s_set_channels(channels)  == fmt' = channels

(* I2S_init, but for the DMA: the PLL is set only when the frequency asked *)
(* for differs from the one in i2s_cfg.                                    *)
I2S_init(channels, freq, cached, started) ==
  /\ i2s_cfg' = [start |-> started, channels |-> Channels(channels),
                 freq |-> IF cached = freq THEN freq ELSE Limited(freq)]
  /\ \/ cached = freq /\ UNCHANGED pll
     \/ cached # freq /\ Set_Audio_PLL_Freq(Limited(freq))
  /\ i2s_set_channels(Channels(channels))
  /\ i2s0' = TRUE

-------------------------------------------------------------------------------
Init ==
  /\ writes_back \in Firmwares
  /\ cfg_adc = [enable |-> 0, chnl |-> 0, freq |-> 0] /\ asked = cfg_adc
  /\ i2s_cfg = [freq |-> FREQ_BOOT, channels |-> 3, start |-> 0]
  /\ i2s0 = FALSE /\ mgpio = FALSE /\ dtr_enable = FALSE
  /\ pll = [prediv |-> 0, div |-> 0, sdmin |-> 0] /\ hw = Off /\ fmt = 0
  /\ starts = 0 /\ obeyed = FALSE

(* seeded fault: whatever runs is not looked at.                           *)
AsStartedNever(channels, freq) == FALSE

(* I2S_Start of an awake device: unless it runs as asked, everything is    *)
(* stopped, set up anew and started.                                       *)
AsStarted(channels, freq) ==
  i2s_cfg.start = 1 /\ i2s_cfg.channels = channels /\ i2s_cfg.freq = freq

I2S_Start(channels, freq) ==
  \/ /\ ~ AsStarted(channels, freq)
     /\ I2S_init(channels, freq, i2s_cfg.freq, 1)
     /\ hw' = [clock |-> TRUE, rx |-> TRUE, dma |-> TRUE, power |-> TRUE]
     /\ starts' = 1 - starts
     /\ UNCHANGED mgpio
  \/ /\ AsStarted(channels, freq)
     /\ UNCHANGED <<driver, starts>>

(* seeded fault: a stop is only reported. *)
I2S_StopReported == UNCHANGED <<driver, starts>>

(* I2S_Stop of an awake device: receiver and DMA run on. *)
I2S_Stop ==
  /\ i2s_cfg' = [i2s_cfg EXCEPT !.start = 0]
  /\ UNCHANGED <<i2s0, mgpio, pll, hw, fmt, starts>>

(* cmd_decode, CMD_DEV_CAD: as much of cfg_adc as the packet has is        *)
(* replaced (the frequency whole or not at all here); a start takes the    *)
(* channels and the frequency from cfg_adc, where an earlier command may   *)
(* have put them.  A sleeping device takes the setting and does nothing.   *)
Taken(enable, chnl, freq, fields) ==
  [enable |-> enable,
   chnl |-> IF fields > 1 THEN chnl ELSE cfg_adc.chnl,
   freq |-> IF fields > 2 THEN freq ELSE cfg_adc.freq]

(* Audio_pcm1802: after I2S_Start, obeyed or not, the driver's settings    *)
(* are copied back.                                                        *)
Copied(taken, cfg) ==
  IF writes_back /\ taken.enable = 1
  THEN [taken EXCEPT !.chnl = cfg.channels, !.freq = cfg.freq] ELSE taken

Cad ==
  \E enable \in {0, 1}, chnl \in Chnls, freq \in Freqs, fields \in 1 .. 3 :
    /\ asked' = Taken(enable, chnl, freq, fields)
    /\ obeyed' = i2s0
    /\ \/ ~ i2s0 /\ UNCHANGED <<driver, starts>>
       \/ i2s0 /\ enable = 1 /\ I2S_Start(asked'.chnl, asked'.freq)
       \/ i2s0 /\ enable = 0 /\ I2S_Stop
    /\ cfg_adc' = Copied(asked', i2s_cfg')
    /\ UNCHANGED <<writes_back, dtr_enable>>

(* seeded fault: asleep, i2s_cfg says started. *)
I2S_SleepStarted ==
  /\ hw' = Off /\ i2s0' = FALSE
  /\ UNCHANGED <<i2s_cfg, mgpio, pll, fmt>>

(* I2S_Sleep: everything off. *)
I2S_Sleep ==
  \/ /\ i2s0
     /\ hw' = Off
     /\ i2s_cfg' = [i2s_cfg EXCEPT !.start = 0]
     /\ i2s0' = FALSE
     /\ UNCHANGED <<mgpio, pll, fmt>>
  \/ /\ ~ i2s0 /\ UNCHANGED driver

(* seeded fault: the frequency in i2s_cfg is taken for the PLL's. *)
I2S_WakeUpTrusting ==
  \/ /\ ~ i2s0
     /\ I2S_init(i2s_cfg.channels, i2s_cfg.freq, i2s_cfg.freq, 0)
     /\ mgpio' = TRUE
     /\ hw' = [Off EXCEPT !.clock = TRUE, !.power = TRUE]
  \/ /\ i2s0 /\ UNCHANGED driver

(* I2S_WakeUp: i2s_cfg.freq is made 0 first, so that the PLL is set; the   *)
(* DMA is set up and not started.                                          *)
I2S_WakeUp ==
  \/ /\ ~ i2s0
     /\ I2S_init(i2s_cfg.channels, i2s_cfg.freq, 0, 0)
     /\ mgpio' = TRUE
     /\ hw' = [Off EXCEPT !.clock = TRUE, !.power = TRUE]
  \/ /\ i2s0 /\ UNCHANGED driver

(* usbd_cdc_acm_set_dtr: only a change of the line does anything. *)
SetDtr ==
  \E dtr \in BOOLEAN :
    /\ dtr_enable' = dtr
    /\ \/ dtr /\ ~ dtr_enable /\ I2S_WakeUp /\ UNCHANGED obeyed
       \/ ~ dtr /\ dtr_enable /\ I2S_Sleep /\ obeyed' = FALSE
       \/ dtr = dtr_enable /\ UNCHANGED <<driver, obeyed>>
    /\ UNCHANGED <<writes_back, cfg_adc, asked, starts>>

Next == Cad \/ SetDtr

Spec == Init /\ [][Next]_vars

-------------------------------------------------------------------------------
Settings == [enable : {0, 1}, chnl : 0 .. 255, freq : Nat]

(* Settings in their ranges: i2s_cfg.freq is never 0 between requests,     *)
(* which I2S_WakeUp relies on, and i2s_cfg.channels never 0.               *)
TypeOK ==
  /\ writes_back \in BOOLEAN /\ cfg_adc \in Settings /\ asked \in Settings
  /\ i2s_cfg \in [freq : FREQ_MIN .. FREQ_MAX, channels : 1 .. 3, start : {0, 1}]
  /\ i2s0 \in BOOLEAN /\ mgpio \in BOOLEAN /\ dtr_enable \in BOOLEAN
  /\ hw \in [clock : BOOLEAN, rx : BOOLEAN, dma : BOOLEAN, power : BOOLEAN]
  /\ fmt \in 0 .. 3 /\ starts \in {0, 1} /\ obeyed \in BOOLEAN

(* The DMA interrupt is only let through to data_buffer (start = 1) when   *)
(* the whole chain before it is on, set to what i2s_cfg says; and whoever  *)
(* uses a device pointer finds it set.                                     *)
StartedRuns ==
  /\ i2s_cfg.start = 1 =>
       hw = [clock |-> TRUE, rx |-> TRUE, dma |-> TRUE, power |-> TRUE]
       /\ i2s0 /\ fmt = i2s_cfg.channels
  /\ i2s0 => mgpio
  /\ ~ i2s0 => hw = Off

(* The frequency in i2s_cfg, by which I2S_init decides whether to set the  *)
(* PLL, is the one the PLL has, in every order of starts, sleeps and       *)
(* wake-ups, requests beyond the limits included.                          *)
PllAsCached == i2s0 => pll = Registers(i2s_cfg.freq)

(* On both sides of every limit of Set_Audio_PLL_Freq, the registers of an *)
(* awake device give the frequency in i2s_cfg to within a step, and fit.   *)
PllInTune == i2s0 => TunedTo(pll, i2s_cfg.freq)

(* The device is awake exactly while the line is raised, and CMD_DEV_CAD   *)
(* then answers with the truth about the acquisition, if the last setting  *)
(* was obeyed: a setting sent before DTR, or a DTR dropped since, leaves   *)
(* an enable in cfg_adc that nothing stands for.  Of a started acquisition *)
(* Audio_pcm1802 also tells the channels and the frequency in force.       *)
AnswerIsTrue ==
  /\ i2s0 = dtr_enable
  /\ obeyed => cfg_adc.enable = i2s_cfg.start
  /\ obeyed /\ writes_back /\ cfg_adc.enable = 1 =>
       cfg_adc.chnl = i2s_cfg.channels /\ cfg_adc.freq = i2s_cfg.freq

(* A start repeated does not restart the acquisition, however the settings *)
(* are sent, unless they ask for what I2S_init replaces: a frequency out   *)
(* of its limits, or channels out of 1 .. 3 (0, "Lin" as 1 is, included).  *)
RepeatIsHarmless ==
  [][ i2s_cfg.start = 1 /\ obeyed /\ asked' = asked
      /\ asked.freq \in FREQ_MIN .. FREQ_MAX /\ asked.chnl \in 1 .. 3
      => starts' = starts ]_vars
================================================================================
