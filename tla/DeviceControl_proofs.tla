------------------------- MODULE DeviceControl_proofs -------------------------
(***************************************************************************)
(* The invariants of DeviceControl, for any limits and any requests.       *)
(* Together with the types they are inductive: AnswerIsTrue needs          *)
(* StartedRuns (asleep, nothing is started) and the types.                 *)
(***************************************************************************)
EXTENDS DeviceControl, TLAPS

Consistent == TypeOK /\ StartedRuns /\ PllAsCached /\ AnswerIsTrue

(* Asleep, i2s_cfg says stopped. *)
LEMMA AsleepIsStopped ==
  ASSUME TypeOK, StartedRuns, ~ i2s0
  PROVE  i2s_cfg.start = 0
BY DEF TypeOK, StartedRuns

(* The setting I2S_init stores is one of the three there are. *)
LEMMA ChannelsInRange ==
  ASSUME NEW c \in 0 .. 255
  PROVE  Channels(c) \in 1 .. 3
BY DEF Channels

(* Limited frequencies are within the limits, and others are not changed.  *)
LEMMA LimitedInRange ==
  ASSUME NEW f \in Nat
  PROVE  Limited(f) \in FREQ_MIN .. FREQ_MAX
BY FreqAssumption DEF Limited

(* What I2S_init leaves, from any cached frequency it is called with that  *)
(* is either unlike the one asked for or the PLL's own.                    *)
LEMMA InitSets ==
  ASSUME NEW c \in 0 .. 255, NEW f \in Nat, NEW cached, NEW started \in {0, 1},
         cached = f => f \in FREQ_MIN .. FREQ_MAX /\ pll = Registers(f),
         I2S_init(c, f, cached, started)
  PROVE  /\ i2s_cfg' \in [freq : FREQ_MIN .. FREQ_MAX, channels : 1 .. 3, start : {0, 1}]
         /\ i2s_cfg'.start = started
         /\ i2s0' = TRUE /\ fmt' = i2s_cfg'.channels /\ fmt' \in 0 .. 3
         /\ pll' = Registers(i2s_cfg'.freq)
BY ChannelsInRange, LimitedInRange DEF I2S_init, Set_Audio_PLL_Freq, i2s_set_channels

LEMMA InitConsistent == Init => Consistent
<1> SUFFICES ASSUME Init PROVE Consistent
  OBVIOUS
<1>1. TypeOK
  <2>1. cfg_adc \in Settings /\ asked \in Settings
    BY DEF Init, Settings
  <2>2. i2s_cfg \in [freq : FREQ_MIN .. FREQ_MAX, channels : 1 .. 3, start : {0, 1}]
    BY FreqAssumption DEF Init
  <2>3. hw \in [clock : BOOLEAN, rx : BOOLEAN, dma : BOOLEAN, power : BOOLEAN]
    BY DEF Init, Off
  <2>4. i2s0 \in BOOLEAN /\ mgpio \in BOOLEAN /\ dtr_enable \in BOOLEAN /\ obeyed \in BOOLEAN
        /\ writes_back \in BOOLEAN
    BY FreqAssumption, Zenon DEF Init
  <2>5. fmt \in 0 .. 3 /\ starts \in {0, 1}
    BY DEF Init
  <2> QED BY <2>1, <2>2, <2>3, <2>4, <2>5, Zenon DEF TypeOK
<1>2. StartedRuns
  BY DEF Init, StartedRuns
<1>3. PllAsCached /\ AnswerIsTrue
  BY DEF Init, PllAsCached, AnswerIsTrue
<1> QED BY <1>1, <1>2, <1>3 DEF Consistent

(* What CMD_DEV_CAD answers with is a setting, of whichever firmware, and   *)
(* of a start in Audio_pcm1802 what the driver has.                         *)
LEMMA CopiedIsSetting ==
  ASSUME NEW taken \in Settings,
         NEW cfg \in [freq : FREQ_MIN .. FREQ_MAX, channels : 1 .. 3, start : {0, 1}]
  PROVE  Copied(taken, cfg) \in Settings
<1>1. cfg.channels \in 0 .. 255 /\ cfg.freq \in Nat
  BY FreqAssumption
<1>2. [taken EXCEPT !.chnl = cfg.channels, !.freq = cfg.freq] \in Settings
  BY <1>1 DEF Settings
<1> QED BY <1>2, Zenon DEF Copied

LEMMA CopiedAnswers ==
  ASSUME NEW taken \in Settings, NEW cfg
  PROVE  /\ Copied(taken, cfg).enable = taken.enable
         /\ writes_back /\ taken.enable = 1 =>
              Copied(taken, cfg).chnl = cfg.channels /\ Copied(taken, cfg).freq = cfg.freq
BY DEF Copied, Settings

(* A start of an awake device. *)
LEMMA StartKeeps ==
  ASSUME Consistent, i2s0,
         NEW c \in 0 .. 255, NEW f \in Nat,
         asked' \in Settings, asked'.enable = 1, obeyed' = i2s0,
         I2S_Start(c, f), cfg_adc' = Copied(asked', i2s_cfg'),
         UNCHANGED <<writes_back, dtr_enable>>
  PROVE  Consistent'
<1> USE FreqAssumption
<1>1. CASE ~ AsStarted(c, f) /\ I2S_init(c, f, i2s_cfg.freq, 1)
           /\ hw' = [clock |-> TRUE, rx |-> TRUE, dma |-> TRUE, power |-> TRUE]
           /\ starts' = 1 - starts /\ UNCHANGED mgpio
  <2>2. i2s_cfg.freq = f => f \in FREQ_MIN .. FREQ_MAX /\ pll = Registers(f)
    BY DEF Consistent, TypeOK, PllAsCached
  <2>3. /\ i2s_cfg' \in [freq : FREQ_MIN .. FREQ_MAX, channels : 1 .. 3, start : {0, 1}]
        /\ i2s_cfg'.start = 1
        /\ i2s0' = TRUE /\ fmt' = i2s_cfg'.channels /\ fmt' \in 0 .. 3
        /\ pll' = Registers(i2s_cfg'.freq)
    BY <1>1, <2>2, InitSets
  <2>4. TypeOK'
    <3>1. hw' \in [clock : BOOLEAN, rx : BOOLEAN, dma : BOOLEAN, power : BOOLEAN]
      BY <1>1
    <3> QED BY <1>1, <2>3, <3>1, CopiedIsSetting DEF Consistent, TypeOK
  <2>5. StartedRuns'
    BY <1>1, <2>3 DEF Consistent, StartedRuns
  <2>6. PllAsCached'
    BY <2>3 DEF PllAsCached
  <2>7. AnswerIsTrue'
    BY <2>3, CopiedAnswers DEF Consistent, AnswerIsTrue
  <2> QED BY <2>4, <2>5, <2>6, <2>7 DEF Consistent
<1>2. CASE AsStarted(c, f) /\ UNCHANGED <<driver, starts>>
  <2>1. i2s_cfg' \in [freq : FREQ_MIN .. FREQ_MAX, channels : 1 .. 3, start : {0, 1}]
        /\ i2s_cfg'.start = 1
    BY <1>2 DEF AsStarted, driver, Consistent, TypeOK
  <2>2. cfg_adc' \in Settings /\ cfg_adc'.enable = 1
    BY <2>1, CopiedIsSetting, CopiedAnswers
  <2>3. TypeOK' /\ StartedRuns' /\ PllAsCached'
    BY <1>2, <2>2 DEF driver, Consistent, TypeOK, StartedRuns, PllAsCached
  <2>4. AnswerIsTrue'
    BY <1>2, <2>1, CopiedAnswers DEF driver, Consistent, AnswerIsTrue
  <2> QED BY <2>3, <2>4 DEF Consistent
<1> QED BY <1>1, <1>2 DEF I2S_Start

(* CMD_DEV_CAD with data, awake or asleep. *)
LEMMA CadKeeps == Consistent /\ Cad => Consistent'
<1> SUFFICES ASSUME Consistent, NEW enable \in {0, 1}, NEW chnl \in Chnls,
                    NEW freq \in Freqs, NEW fields \in 1 .. 3,
                    asked' = Taken(enable, chnl, freq, fields), obeyed' = i2s0,
                    \/ ~ i2s0 /\ UNCHANGED <<driver, starts>>
                    \/ i2s0 /\ enable = 1 /\ I2S_Start(asked'.chnl, asked'.freq)
                    \/ i2s0 /\ enable = 0 /\ I2S_Stop,
                    cfg_adc' = Copied(asked', i2s_cfg'),
                    UNCHANGED <<writes_back, dtr_enable>>
             PROVE  Consistent'
  BY DEF Cad
<1>1. asked' \in Settings /\ asked'.enable = enable
  BY FreqAssumption DEF Taken, Consistent, TypeOK, Settings
<1>2. CASE ~ i2s0 /\ UNCHANGED <<driver, starts>>
  <2>1. cfg_adc' \in Settings
    BY <1>1, <1>2, CopiedIsSetting DEF driver, Consistent, TypeOK
  <2>2. TypeOK' /\ StartedRuns' /\ PllAsCached'
    BY <1>1, <1>2, <2>1 DEF driver, Consistent, TypeOK, StartedRuns, PllAsCached
  <2>3. AnswerIsTrue'
    BY <1>2 DEF driver, Consistent, AnswerIsTrue
  <2> QED BY <2>2, <2>3 DEF Consistent
<1>3. CASE i2s0 /\ enable = 1 /\ I2S_Start(asked'.chnl, asked'.freq)
  <2>1. asked'.chnl \in 0 .. 255 /\ asked'.freq \in Nat
    BY <1>1 DEF Settings
  <2> QED BY <1>1, <1>3, <2>1, StartKeeps
<1>4. CASE i2s0 /\ enable = 0 /\ I2S_Stop
  <2>1. i2s_cfg' \in [freq : FREQ_MIN .. FREQ_MAX, channels : 1 .. 3, start : {0, 1}]
        /\ i2s_cfg'.start = 0 /\ i2s_cfg'.freq = i2s_cfg.freq
    BY <1>4 DEF I2S_Stop, Consistent, TypeOK
  <2>2. cfg_adc' \in Settings /\ cfg_adc'.enable = 0
    BY <1>1, <1>4, <2>1, CopiedIsSetting, CopiedAnswers
  <2>3. TypeOK'
    BY <1>1, <1>4, <2>1, <2>2 DEF I2S_Stop, Consistent, TypeOK
  <2>4. StartedRuns' /\ PllAsCached' /\ AnswerIsTrue'
    BY <1>4, <2>1, <2>2
    DEF I2S_Stop, Consistent, StartedRuns, PllAsCached, AnswerIsTrue
  <2> QED BY <2>3, <2>4 DEF Consistent
<1> QED BY <1>2, <1>3, <1>4

(* The line raised, dropped or left. *)
LEMMA SetDtrKeeps == Consistent /\ SetDtr => Consistent'
<1> SUFFICES ASSUME Consistent, NEW dtr \in BOOLEAN, dtr_enable' = dtr,
                    \/ dtr /\ ~ dtr_enable /\ I2S_WakeUp /\ UNCHANGED obeyed
                    \/ ~ dtr /\ dtr_enable /\ I2S_Sleep /\ obeyed' = FALSE
                    \/ dtr = dtr_enable /\ UNCHANGED <<driver, obeyed>>,
                    UNCHANGED <<writes_back, cfg_adc, asked, starts>>
             PROVE  Consistent'
  BY DEF SetDtr
<1> USE FreqAssumption
<1>1. CASE dtr /\ ~ dtr_enable /\ I2S_WakeUp /\ UNCHANGED obeyed
  <2>1. ~ i2s0 /\ i2s_cfg.start = 0
    BY <1>1, AsleepIsStopped DEF Consistent, AnswerIsTrue
  <2>2. /\ I2S_init(i2s_cfg.channels, i2s_cfg.freq, 0, 0)
        /\ mgpio' = TRUE /\ hw' = [Off EXCEPT !.clock = TRUE, !.power = TRUE]
    BY <1>1, <2>1 DEF I2S_WakeUp
  <2>3. i2s_cfg.channels \in 0 .. 255 /\ i2s_cfg.freq \in Nat /\ 0 # i2s_cfg.freq
    BY DEF Consistent, TypeOK
  <2>4. /\ i2s_cfg' \in [freq : FREQ_MIN .. FREQ_MAX, channels : 1 .. 3, start : {0, 1}]
        /\ i2s_cfg'.start = 0
        /\ i2s0' = TRUE /\ fmt' = i2s_cfg'.channels /\ fmt' \in 0 .. 3
        /\ pll' = Registers(i2s_cfg'.freq)
    BY <2>2, <2>3, InitSets
  <2>5. obeyed => cfg_adc.enable = 0
    BY <2>1 DEF Consistent, AnswerIsTrue
  <2>6. TypeOK'
    <3>1. hw' \in [clock : BOOLEAN, rx : BOOLEAN, dma : BOOLEAN, power : BOOLEAN]
      BY <2>2 DEF Off
    <3> QED BY <1>1, <2>2, <2>4, <3>1 DEF Consistent, TypeOK
  <2>7. StartedRuns'
    BY <2>2, <2>4 DEF StartedRuns
  <2>8. PllAsCached'
    BY <2>4 DEF PllAsCached
  <2>9. AnswerIsTrue'
    BY <1>1, <2>4, <2>5 DEF AnswerIsTrue
  <2> QED BY <2>6, <2>7, <2>8, <2>9 DEF Consistent
<1>2. CASE ~ dtr /\ dtr_enable /\ I2S_Sleep /\ obeyed' = FALSE
  <2>1. i2s0
    BY <1>2 DEF Consistent, AnswerIsTrue
  <2>2. /\ hw' = Off /\ i2s_cfg' = [i2s_cfg EXCEPT !.start = 0] /\ i2s0' = FALSE
        /\ UNCHANGED <<mgpio, pll, fmt>>
    BY <1>2, <2>1 DEF I2S_Sleep
  <2>3. TypeOK'
    <3>1. hw' \in [clock : BOOLEAN, rx : BOOLEAN, dma : BOOLEAN, power : BOOLEAN]
      BY <2>2 DEF Off
    <3>2. i2s_cfg' \in [freq : FREQ_MIN .. FREQ_MAX, channels : 1 .. 3, start : {0, 1}]
      BY <2>2 DEF Consistent, TypeOK
    <3> QED BY <1>2, <2>2, <3>1, <3>2 DEF Consistent, TypeOK
  <2>4. i2s_cfg'.start = 0
    BY <2>2 DEF Consistent, TypeOK
  <2>5. StartedRuns'
    BY <2>2, <2>4 DEF StartedRuns
  <2>6. PllAsCached' /\ AnswerIsTrue'
    BY <1>2, <2>2 DEF PllAsCached, AnswerIsTrue
  <2> QED BY <2>3, <2>5, <2>6 DEF Consistent
<1>3. CASE dtr = dtr_enable /\ UNCHANGED <<driver, obeyed>>
  BY <1>3 DEF driver, Consistent, TypeOK, StartedRuns, PllAsCached, AnswerIsTrue
<1> QED BY <1>1, <1>2, <1>3

-------------------------------------------------------------------------------
(* Every state the requests can lead to is consistent (i2s_drv.c and       *)
(* CMD_DEV_CAD of cmd_decode.c, in any order of commands and DTR changes). *)
THEOREM AlwaysConsistent == Spec => []Consistent
<1>1. Consistent /\ [Next]_vars => Consistent'
  <2>1. Consistent /\ UNCHANGED vars => Consistent'
    BY DEF vars, driver, Consistent, TypeOK, StartedRuns, PllAsCached, AnswerIsTrue
  <2> QED BY <2>1, CadKeeps, SetDtrKeeps DEF Next
<1> QED BY <1>1, InitConsistent, PTL DEF Spec

(* The settings stay in their ranges. *)
THEOREM TypeCorrect == Spec => []TypeOK
<1>1. Consistent => TypeOK
  BY DEF Consistent
<1> QED BY <1>1, AlwaysConsistent, PTL

(* i2s_cfg.start is 1 only when the chain before the DMA interrupt is on,  *)
(* and no device pointer is used before it is set.                         *)
THEOREM StartedAlwaysRuns == Spec => []StartedRuns
<1>1. Consistent => StartedRuns
  BY DEF Consistent
<1> QED BY <1>1, AlwaysConsistent, PTL

(* The frequency cached in i2s_cfg is never stale. *)
THEOREM PllNeverStale == Spec => []PllAsCached
<1>1. Consistent => PllAsCached
  BY DEF Consistent
<1> QED BY <1>1, AlwaysConsistent, PTL

(* An obeyed setting is answered with the truth. *)
THEOREM AnswersTrue == Spec => []AnswerIsTrue
<1>1. Consistent => AnswerIsTrue
  BY DEF Consistent
<1> QED BY <1>1, AlwaysConsistent, PTL

-------------------------------------------------------------------------------
(* What runs is what the last obeyed setting asked for, as I2S_init changes *)
(* it: the invariant behind RepeatIsHarmless.                               *)
RunsAsAsked ==
  obeyed /\ i2s_cfg.start = 1 =>
    i2s_cfg.freq = Limited(asked.freq) /\ i2s_cfg.channels = Channels(asked.chnl)

(* Settings within the limits are stored as they are. *)
LEMMA StoredAsAsked ==
  /\ \A f \in FREQ_MIN .. FREQ_MAX : Limited(f) = f
  /\ \A c \in 1 .. 3 : Channels(c) = c
BY FreqAssumption DEF Limited, Channels

LEMMA CadRunsAsAsked == Consistent /\ Cad => RunsAsAsked'
<1> SUFFICES ASSUME Consistent, obeyed' = i2s0, i2s0,
                    I2S_Start(asked'.chnl, asked'.freq)
             PROVE  RunsAsAsked'
  <2> SUFFICES ASSUME Consistent, NEW enable, obeyed' = i2s0,
                      \/ ~ i2s0 /\ UNCHANGED <<driver, starts>>
                      \/ i2s0 /\ enable = 1 /\ I2S_Start(asked'.chnl, asked'.freq)
                      \/ i2s0 /\ enable = 0 /\ I2S_Stop
               PROVE  RunsAsAsked'
    BY DEF Cad
  <2>1. CASE ~ i2s0
    BY <2>1 DEF RunsAsAsked, Consistent, TypeOK
  <2>2. CASE i2s0 /\ enable = 0 /\ I2S_Stop
    <3>1. i2s_cfg'.start = 0
      BY <2>2 DEF I2S_Stop, Consistent, TypeOK
    <3> QED BY <3>1 DEF RunsAsAsked
  <2>3. CASE i2s0 /\ enable = 1 /\ I2S_Start(asked'.chnl, asked'.freq)
    BY <2>3
  <2> QED BY <2>1, <2>2, <2>3
<1> DEFINE c == asked'.chnl
           f == asked'.freq
<1>1. CASE ~ AsStarted(c, f) /\ I2S_init(c, f, i2s_cfg.freq, 1)
  <2>1. i2s_cfg.freq = f => Limited(f) = f
    BY StoredAsAsked DEF Consistent, TypeOK
  <2>2. i2s_cfg'.freq = Limited(f) /\ i2s_cfg'.channels = Channels(c)
    BY <1>1, <2>1 DEF I2S_init
  <2> QED BY <2>2 DEF RunsAsAsked
<1>2. CASE AsStarted(c, f) /\ UNCHANGED i2s_cfg
  <2>1. c = i2s_cfg.channels /\ f = i2s_cfg.freq
    BY <1>2 DEF AsStarted
  <2>2. c \in 1 .. 3 /\ f \in FREQ_MIN .. FREQ_MAX
    BY <2>1 DEF Consistent, TypeOK
  <2> QED BY <1>2, <2>1, <2>2, StoredAsAsked DEF RunsAsAsked
<1> QED BY <1>1, <1>2 DEF I2S_Start, driver

LEMMA SetDtrRunsAsAsked == Consistent /\ RunsAsAsked /\ SetDtr => RunsAsAsked'
<1> SUFFICES ASSUME Consistent, RunsAsAsked, UNCHANGED asked,
                    \/ ~ dtr_enable /\ I2S_WakeUp
                    \/ obeyed' = FALSE
                    \/ UNCHANGED <<driver, obeyed>>
             PROVE  RunsAsAsked'
  BY DEF SetDtr
<1>1. CASE ~ dtr_enable /\ I2S_WakeUp
  <2>1. I2S_init(i2s_cfg.channels, i2s_cfg.freq, 0, 0)
    BY <1>1 DEF I2S_WakeUp, Consistent, AnswerIsTrue
  <2>2. i2s_cfg'.start = 0
    BY <2>1 DEF I2S_init
  <2> QED BY <2>2 DEF RunsAsAsked
<1>2. CASE obeyed' = FALSE
  BY <1>2 DEF RunsAsAsked
<1>3. CASE UNCHANGED <<driver, obeyed>>
  BY <1>3 DEF RunsAsAsked, driver
<1> QED BY <1>1, <1>2, <1>3

(* A start repeated, within the limits, changes nothing: I2S_Start finds    *)
(* what it is asked for in i2s_cfg.                                         *)
LEMMA RepeatKeepsRunning ==
  Consistent /\ RunsAsAsked /\ Cad /\ i2s_cfg.start = 1 /\ obeyed /\ asked' = asked
  /\ asked.freq \in FREQ_MIN .. FREQ_MAX /\ asked.chnl \in 1 .. 3
  => starts' = starts
<1> SUFFICES ASSUME Consistent, RunsAsAsked, Cad, i2s_cfg.start = 1, obeyed,
                    asked' = asked,
                    asked.freq \in FREQ_MIN .. FREQ_MAX, asked.chnl \in 1 .. 3
             PROVE  starts' = starts
  OBVIOUS
<1>1. AsStarted(asked.chnl, asked.freq)
  BY StoredAsAsked DEF RunsAsAsked, AsStarted
<1>2. \/ UNCHANGED <<driver, starts>>
      \/ I2S_Start(asked.chnl, asked.freq)
      \/ I2S_Stop
  BY DEF Cad
<1> QED BY <1>1, <1>2 DEF I2S_Start, I2S_Stop

(* In every order of settings and DTR changes, a repeated start does not    *)
(* restart the acquisition (I2S_Start), for any limits.                     *)
THEOREM RepeatNeverRestarts == Spec => RepeatIsHarmless
<1>1. Init => RunsAsAsked
  BY DEF Init, RunsAsAsked
<1>2. Consistent /\ RunsAsAsked /\ [Next]_vars => RunsAsAsked'
  <2>1. RunsAsAsked /\ UNCHANGED vars => RunsAsAsked'
    BY DEF RunsAsAsked, vars, driver
  <2> QED BY <2>1, CadRunsAsAsked, SetDtrRunsAsAsked DEF Next
<1> DEFINE Repeated == i2s_cfg.start = 1 /\ obeyed /\ asked' = asked
                       /\ asked.freq \in FREQ_MIN .. FREQ_MAX /\ asked.chnl \in 1 .. 3
                       => starts' = starts
<1>3. Consistent /\ RunsAsAsked /\ [Next]_vars => [Repeated]_vars
  <2>1. SetDtr => starts' = starts
    BY DEF SetDtr
  <2> QED BY <2>1, RepeatKeepsRunning DEF Next
<1> QED BY <1>1, <1>2, <1>3, AlwaysConsistent, PTL DEF Spec, RepeatIsHarmless

-------------------------------------------------------------------------------
(* The arithmetic of Set_Audio_PLL_Freq, for every frequency up to 96 MHz.  *)

(* Quotients and remainders by the numbers the arithmetic splits at.        *)
LEMMA Divided ==
  /\ \A x \in Nat : x \div 256 \in Nat /\ x % 256 \in Nat /\ x % 256 < 256
                 /\ x = 256 * (x \div 256) + (x % 256)
  /\ \A x \in Nat : x \div 65536 \in Nat /\ x % 65536 \in Nat /\ x % 65536 < 65536
                 /\ x = 65536 * (x \div 65536) + (x % 65536)
  /\ \A x \in Nat : x \div 16777216 \in Nat /\ x % 16777216 \in Nat /\ x % 16777216 < 16777216
                 /\ x = 16777216 * (x \div 16777216) + (x % 16777216)
  /\ \A x \in Nat : x \div 15625 \in Nat /\ x % 15625 \in Nat /\ x % 15625 < 15625
                 /\ x = 15625 * (x \div 15625) + (x % 15625)
<1>1. \A x \in Nat : x \div 256 \in Nat /\ x % 256 \in Nat /\ x % 256 < 256
                 /\ x = 256 * (x \div 256) + (x % 256)
  BY SMT
<1>2. \A x \in Nat : x \div 65536 \in Nat /\ x % 65536 \in Nat /\ x % 65536 < 65536
                 /\ x = 65536 * (x \div 65536) + (x % 65536)
  BY SMT
<1>3. \A x \in Nat : x \div 16777216 \in Nat /\ x % 16777216 \in Nat /\ x % 16777216 < 16777216
                 /\ x = 16777216 * (x \div 16777216) + (x % 16777216)
  BY SMT
<1>4. \A x \in Nat : x \div 15625 \in Nat /\ x % 15625 \in Nat /\ x % 15625 < 15625
                 /\ x = 15625 * (x \div 15625) + (x % 15625)
  BY SMT
<1> QED BY <1>1, <1>2, <1>3, <1>4, SMT

(* The bytes of a frequency make it up. *)
MadeOfBytes(f) ==
  \E b0 \in Nat, b1 \in Nat, b2 \in Nat, b3 \in Nat :
    /\ Byte(f, 0) = b0 /\ Byte(f, 1) = b1 /\ Byte(f, 2) = b2 /\ Byte(f, 3) = b3
    /\ f = b0 + 256 * b1 + 65536 * b2 + 16777216 * b3

LEMMA BytesMakeUp ==
  ASSUME NEW f \in Nat
  PROVE  MadeOfBytes(f)
<1> DEFINE h == f \div 256
           k == f \div 65536
           t == f \div 16777216
<1>1. /\ h \in Nat /\ f = 256 * h + (f % 256) /\ f % 256 \in Nat /\ f % 256 < 256
      /\ k \in Nat /\ f = 65536 * k + (f % 65536) /\ f % 65536 \in Nat /\ f % 65536 < 65536
      /\ t \in Nat /\ f = 16777216 * t + (f % 16777216) /\ f % 16777216 \in Nat /\ f % 16777216 < 16777216
  BY Divided, SMT
<1>2. Byte(f, 0) = f % 256
  BY SMT DEF Byte
<1>3. Byte(f, 1) = h % 256
  BY SMT DEF Byte
<1>4. Byte(f, 2) = k % 256
  BY SMT DEF Byte
<1>5. Byte(f, 3) = t
  BY SMT DEF Byte
<1> HIDE DEF h, k, t
<1> DEFINE r0 == f % 256
           r1 == f % 65536
           r2 == f % 16777216
           hd == h \div 256
           hm == h % 256
           kd == k \div 256
           km == k % 256
<1>6. hd \in Nat /\ hm \in Nat /\ hm <= 255 /\ h = 256 * hd + hm
  BY <1>1, Divided, SMT
<1>7. kd \in Nat /\ km \in Nat /\ km <= 255 /\ k = 256 * kd + km
  BY <1>1, Divided, SMT
<1> HIDE DEF r0, r1, r2, hd, hm, kd, km
<1>8. /\ h \in Nat /\ f = 256 * h + r0 /\ r0 \in Nat /\ r0 <= 255
      /\ k \in Nat /\ f = 65536 * k + r1 /\ r1 \in Nat /\ r1 <= 65535
      /\ t \in Nat /\ f = 16777216 * t + r2 /\ r2 \in Nat /\ r2 <= 16777215
  BY <1>1, SMT DEF r0, r1, r2
<1>9. hd = k
  BY <1>6, <1>8, SMT
<1>10. kd = t
  BY <1>7, <1>8, SMT
<1>12. Byte(f, 0) = r0 /\ Byte(f, 1) = hm /\ Byte(f, 2) = km /\ Byte(f, 3) = t
  BY <1>2, <1>3, <1>4, <1>5, SMT DEF r0, hm, km
<1>13. f = r0 + 256 * hm + 65536 * km + 16777216 * t
  BY <1>6, <1>7, <1>8, <1>9, <1>10, SMT
<1>11. r0 \in Nat /\ hm \in Nat /\ km \in Nat /\ t \in Nat
  BY <1>6, <1>7, <1>8, SMT
<1> HIDE DEF r0, hm, km, t
<1> QED BY <1>11, <1>12, <1>13, SMT DEF MadeOfBytes

(* Whatever is carried, the columns from the fourth on, with what comes    *)
(* over to them, are the whole part of the sum divided by 2^32.            *)
LEMMA Carried ==
  ASSUME NEW c0 \in Nat, NEW c1 \in Nat, NEW c2 \in Nat, NEW c3 \in Nat, NEW rest \in Nat,
         NEW k1, NEW k2, NEW k3, NEW k4,
         k1 = (c0 + 0) \div 256, k2 = (c1 + k1) \div 256,
         k3 = (c2 + k2) \div 256, k4 = (c3 + k3) \div 256,
         NEW sum,
         sum = c0 + 256 * c1 + 65536 * c2 + 16777216 * c3 + 4294967296 * rest
  PROVE  /\ k4 \in Nat
         /\ 4294967296 * (rest + k4) <= sum
         /\ sum < 4294967296 * (rest + k4) + 4294967296
<1>0. \A x \in Nat : x \div 256 \in Nat /\ 256 * (x \div 256) <= x /\ x < 256 * (x \div 256) + 256
  BY SMT
<1>1. k1 \in Nat /\ 256 * k1 <= c0 /\ c0 < 256 * k1 + 256
  <2>1. c0 + 0 \in Nat /\ c0 + 0 = c0  BY SMT
  <2>2. QED  BY <1>0, <2>1, SMT
<1>2. k2 \in Nat /\ 256 * k2 <= c1 + k1 /\ c1 + k1 < 256 * k2 + 256
  <2>1. c1 + k1 \in Nat  BY <1>1, SMT
  <2>2. QED  BY <1>0, <2>1, SMT
<1>3. k3 \in Nat /\ 256 * k3 <= c2 + k2 /\ c2 + k2 < 256 * k3 + 256
  <2>1. c2 + k2 \in Nat  BY <1>2, SMT
  <2>2. QED  BY <1>0, <2>1, SMT
<1>4. k4 \in Nat /\ 256 * k4 <= c3 + k3 /\ c3 + k3 < 256 * k4 + 256
  <2>1. c3 + k3 \in Nat  BY <1>3, SMT
  <2>2. QED  BY <1>0, <2>1, SMT
<1> SUFFICES ASSUME k1 \in Nat, k2 \in Nat, k3 \in Nat, k4 \in Nat
             PROVE  /\ 4294967296 * (rest + k4) <= sum
                    /\ sum < 4294967296 * (rest + k4) + 4294967296
  BY <1>1, <1>2, <1>3, <1>4, SMT
<1>5. 65536 * k2 <= c0 + 256 * c1 /\ c0 + 256 * c1 < 65536 * k2 + 65536
  BY <1>1, <1>2, SMT
<1>6. /\ 16777216 * k3 <= c0 + 256 * c1 + 65536 * c2
      /\ c0 + 256 * c1 + 65536 * c2 < 16777216 * k3 + 16777216
  BY <1>3, <1>5, SMT
<1>7. /\ 4294967296 * k4 <= c0 + 256 * c1 + 65536 * c2 + 16777216 * c3
      /\ c0 + 256 * c1 + 65536 * c2 + 16777216 * c3 < 4294967296 * k4 + 4294967296
  BY <1>4, <1>6, SMT
<1> QED BY <1>7, SMT

(* The fraction is the whole part of the exact quotient.                   *)
LEMMA FractionExact ==
  ASSUME NEW f \in Nat, NEW dividers \in {864, 432, 216, 144, 72, 36}
  PROVE  /\ Fraction(f, dividers) \in Nat
         /\ 15625 * Fraction(f, dividers) <= 64 * (dividers * f)
         /\ 64 * (dividers * f) < 15625 * Fraction(f, dividers) + 15625
<1> DEFINE q == f \div 15625
           s == f % 15625
<1>1. q \in Nat /\ s \in Nat /\ s <= 15624 /\ f = 15625 * q + s
  BY Divided, SMT
<1>2. \A n \in Nat : n \div 15625 \in Nat /\ 15625 * (n \div 15625) <= n
                     /\ n < 15625 * (n \div 15625) + 15625
  BY SMT
<1>3. Fraction(f, dividers) = q * dividers * 64 + (s * dividers * 64) \div 15625
  BY SMT DEF Fraction
<1> HIDE DEF q, s
<1>4. s * dividers * 64 \in Nat
  BY <1>1, SMT
<1>5. /\ (s * dividers * 64) \div 15625 \in Nat
      /\ 15625 * ((s * dividers * 64) \div 15625) <= s * dividers * 64
      /\ s * dividers * 64 < 15625 * ((s * dividers * 64) \div 15625) + 15625
  BY <1>2, <1>4, SMT
<1> DEFINE r == (s * dividers * 64) \div 15625
<1> HIDE DEF r
<1>6. CASE dividers = 864  BY <1>1, <1>3, <1>5, <1>6, SMT DEF r
<1>7. CASE dividers = 432  BY <1>1, <1>3, <1>5, <1>7, SMT DEF r
<1>8. CASE dividers = 216  BY <1>1, <1>3, <1>5, <1>8, SMT DEF r
<1>9. CASE dividers = 144  BY <1>1, <1>3, <1>5, <1>9, SMT DEF r
<1>10. CASE dividers = 72  BY <1>1, <1>3, <1>5, <1>10, SMT DEF r
<1>11. CASE dividers = 36  BY <1>1, <1>3, <1>5, <1>11, SMT DEF r
<1> QED BY <1>6, <1>7, <1>8, <1>9, <1>10, <1>11, SMT

(* What falls on each byte. *)
LEMMA Columns ==
  ASSUME NEW dd, NEW f,
         dd[1] \in Nat, dd[2] \in Nat, dd[3] \in Nat, dd[4] \in Nat, dd[5] \in Nat,
         Byte(f, 0) \in Nat, Byte(f, 1) \in Nat, Byte(f, 2) \in Nat, Byte(f, 3) \in Nat
  PROVE  /\ Column(dd, f, 0) = dd[1] * Byte(f, 0)
         /\ Column(dd, f, 1) = dd[2] * Byte(f, 0) + dd[1] * Byte(f, 1)
         /\ Column(dd, f, 2) = dd[3] * Byte(f, 0) + dd[2] * Byte(f, 1) + dd[1] * Byte(f, 2)
         /\ Column(dd, f, 3) = dd[4] * Byte(f, 0) + dd[3] * Byte(f, 1) + dd[2] * Byte(f, 2) + dd[1] * Byte(f, 3) + 128
         /\ Column(dd, f, 4) = dd[5] * Byte(f, 0) + dd[4] * Byte(f, 1) + dd[3] * Byte(f, 2) + dd[2] * Byte(f, 3)
         /\ Column(dd, f, 5) = dd[5] * Byte(f, 1) + dd[4] * Byte(f, 2) + dd[3] * Byte(f, 3)
         /\ Column(dd, f, 6) = dd[5] * Byte(f, 2) + dd[4] * Byte(f, 3)
<1>0. \A d \in Nat, b \in Nat : d * b \in Nat
  BY SMT
<1>1. Column(dd, f, 0) = dd[1] * Byte(f, 0)
  BY <1>0, SMT DEF Column
<1>2. Column(dd, f, 1) = dd[2] * Byte(f, 0) + dd[1] * Byte(f, 1)
  BY <1>0, SMT DEF Column
<1>3. Column(dd, f, 2) = dd[3] * Byte(f, 0) + dd[2] * Byte(f, 1) + dd[1] * Byte(f, 2)
  BY <1>0, SMT DEF Column
<1>4. Column(dd, f, 3) = dd[4] * Byte(f, 0) + dd[3] * Byte(f, 1) + dd[2] * Byte(f, 2) + dd[1] * Byte(f, 3) + 128
  BY <1>0, SMT DEF Column
<1>5. Column(dd, f, 4) = dd[5] * Byte(f, 0) + dd[4] * Byte(f, 1) + dd[3] * Byte(f, 2) + dd[2] * Byte(f, 3)
  BY <1>0, SMT DEF Column
<1>6. Column(dd, f, 5) = dd[5] * Byte(f, 1) + dd[4] * Byte(f, 2) + dd[3] * Byte(f, 3)
  BY <1>0, SMT DEF Column
<1>7. Column(dd, f, 6) = dd[5] * Byte(f, 2) + dd[4] * Byte(f, 3)
  BY <1>0, SMT DEF Column
<1> QED BY <1>1, <1>2, <1>3, <1>4, <1>5, <1>6, <1>7

(* What the program computes in 64 bits: x.dd times the frequency, with the *)
(* half that rounds, and what its high word is.                             *)
Product(dd, f) ==
  dd[1] * f + 256 * (dd[2] * f) + 65536 * (dd[3] * f) + 16777216 * (dd[4] * f)
  + 4294967296 * (dd[5] * f) + 2147483648

Rounded(dd, f) ==
  /\ HighWord(dd, f) \in Nat
  /\ 4294967296 * HighWord(dd, f) <= Product(dd, f)
  /\ Product(dd, f) < 4294967296 * HighWord(dd, f) + 4294967296

(* Summing the bytes with their carries is that product.                   *)
LEMMA HighWordExact ==
  ASSUME NEW f \in Nat, NEW dd,
         dd[1] \in Nat, dd[2] \in Nat, dd[3] \in Nat, dd[4] \in Nat, dd[5] \in Nat,
         dd[5] = 0 \/ f < 16777216
  PROVE  Rounded(dd, f)
<1> DEFINE sum == Product(dd, f)
<1> DEFINE d1 == dd[1]
           d2 == dd[2]
           d3 == dd[3]
           d4 == dd[4]
           d5 == dd[5]
<1>1. sum = d1 * f + 256 * (d2 * f) + 65536 * (d3 * f) + 16777216 * (d4 * f)
            + 4294967296 * (d5 * f) + 2147483648
  BY SMT DEF Product
<1>2. /\ d1 \in Nat /\ d2 \in Nat /\ d3 \in Nat /\ d4 \in Nat /\ d5 \in Nat
      /\ d5 = 0 \/ f < 16777216
  BY SMT
<1> HIDE DEF sum
<1>3. PICK b0 \in Nat, b1 \in Nat, b2 \in Nat, b3 \in Nat :
        /\ Byte(f, 0) = b0 /\ Byte(f, 1) = b1 /\ Byte(f, 2) = b2 /\ Byte(f, 3) = b3
        /\ f = b0 + 256 * b1 + 65536 * b2 + 16777216 * b3
  <2>1. MadeOfBytes(f)  BY BytesMakeUp
  <2> QED BY <2>1, SMT DEF MadeOfBytes
<1>4. f = b0 + 256 * b1 + 65536 * b2 + 16777216 * b3
  BY <1>3, SMT
<1>5. /\ Column(dd, f, 0) = d1 * b0
      /\ Column(dd, f, 1) = d2 * b0 + d1 * b1
      /\ Column(dd, f, 2) = d3 * b0 + d2 * b1 + d1 * b2
      /\ Column(dd, f, 3) = d4 * b0 + d3 * b1 + d2 * b2 + d1 * b3 + 128
      /\ Column(dd, f, 4) = d5 * b0 + d4 * b1 + d3 * b2 + d2 * b3
      /\ Column(dd, f, 5) = d5 * b1 + d4 * b2 + d3 * b3
      /\ Column(dd, f, 6) = d5 * b2 + d4 * b3
  BY <1>3, <1>2, Columns, SMT
<1> HIDE DEF d1, d2, d3, d4, d5
<1>6. d5 * b3 = 0
  <2>1. CASE d5 = 0
    BY <1>3, <2>1, SMT
  <2>2. CASE f < 16777216
    <3>1. b3 = 0  BY <1>3, <1>4, <2>2, SMT
    <3>2. QED  BY <1>3, <1>2, <3>1, SMT
  <2>3. QED  BY <1>2, <2>1, <2>2, SMT
<1> DEFINE c0 == d1 * b0
           c1 == d2 * b0 + d1 * b1
           c2 == d3 * b0 + d2 * b1 + d1 * b2
           c3 == d4 * b0 + d3 * b1 + d2 * b2 + d1 * b3 + 128
           c4 == d5 * b0 + d4 * b1 + d3 * b2 + d2 * b3
           c5 == d5 * b1 + d4 * b2 + d3 * b3
           c6 == d5 * b2 + d4 * b3
           k1 == (c0 + 0) \div 256
           k2 == (c1 + k1) \div 256
           k3 == (c2 + k2) \div 256
           k4 == (c3 + k3) \div 256
           rest == c4 + 256 * c5 + 65536 * c6
<1>7. /\ Column(dd, f, 0) = c0 /\ Column(dd, f, 1) = c1 /\ Column(dd, f, 2) = c2
      /\ Column(dd, f, 3) = c3 /\ Column(dd, f, 4) = c4 /\ Column(dd, f, 5) = c5
      /\ Column(dd, f, 6) = c6
  BY <1>5, SMT
<1>8. \A d \in Nat, e \in Nat : d * e \in Nat
  BY SMT
<1>9. c0 \in Nat /\ c1 \in Nat /\ c2 \in Nat /\ c3 \in Nat /\ c4 \in Nat /\ c5 \in Nat /\ c6 \in Nat
  BY <1>3, <1>8, <1>2, SMT
<1>10. \A d \in Nat : d * f = d * b0 + 256 * (d * b1) + 65536 * (d * b2) + 16777216 * (d * b3)
  BY <1>3, <1>4, SMT
<1>11. sum = c0 + 256 * c1 + 65536 * c2 + 16777216 * c3 + 4294967296 * rest
  <2>1. /\ d1 * f = d1 * b0 + 256 * (d1 * b1) + 65536 * (d1 * b2) + 16777216 * (d1 * b3)
        /\ d2 * f = d2 * b0 + 256 * (d2 * b1) + 65536 * (d2 * b2) + 16777216 * (d2 * b3)
        /\ d3 * f = d3 * b0 + 256 * (d3 * b1) + 65536 * (d3 * b2) + 16777216 * (d3 * b3)
        /\ d4 * f = d4 * b0 + 256 * (d4 * b1) + 65536 * (d4 * b2) + 16777216 * (d4 * b3)
        /\ d5 * f = d5 * b0 + 256 * (d5 * b1) + 65536 * (d5 * b2)
    BY <1>3, <1>6, <1>10, <1>2, SMT
  <2> QED BY <1>3, <2>1, <1>8, <1>2, <1>1, SMT
<1>12. HighWord(dd, f) = c4 + k4 + 256 * c5 + 65536 * c6
  BY <1>7, SMT DEF HighWord
<1> HIDE DEF c0, c1, c2, c3, c4, c5, c6, k1, k2, k3, k4
<1>13. rest \in Nat
  BY <1>9, SMT
<1>14. k1 = (c0 + 0) \div 256 /\ k2 = (c1 + k1) \div 256 /\ k3 = (c2 + k2) \div 256
       /\ k4 = (c3 + k3) \div 256
  BY SMT DEF k1, k2, k3, k4
<1> HIDE DEF rest
<1>15. /\ k4 \in Nat
       /\ 4294967296 * (rest + k4) <= sum
       /\ sum < 4294967296 * (rest + k4) + 4294967296
  BY <1>9, <1>11, <1>13, <1>14, Carried, SMT
<1>16. HighWord(dd, f) = rest + k4
  BY <1>9, <1>12, <1>15, SMT DEF rest
<1> QED BY <1>13, <1>15, <1>16, SMT DEF Rounded, sum

(* The branch taken is the first whose limit the frequency does not pass.   *)
LEMMA BandOf ==
  ASSUME NEW f \in Nat, NEW n \in 1 .. 6, f <= Bands[n].upto,
         \A m \in 1 .. n - 1 : f > Bands[m].upto
  PROVE  Band(f) = Bands[n]
<1>1. \A m \in 1 .. 6 : Bands[m].upto \in Nat
  BY SMT DEF Bands
<1>2. \A k \in 1 .. 6 :
        (f <= Bands[k].upto /\ \A m \in 1 .. k - 1 : f > Bands[m].upto) => k = n
  <2> TAKE k \in 1 .. 6
  <2> HAVE f <= Bands[k].upto /\ \A m \in 1 .. k - 1 : f > Bands[m].upto
  <2>1. ~ k < n
    <3> SUFFICES ASSUME k < n PROVE FALSE  BY SMT
    <3>1. k \in 1 .. n - 1  BY SMT
    <3>2. f > Bands[k].upto  BY <3>1
    <3> QED BY <1>1, <3>2, SMT
  <2>2. ~ n < k
    <3> SUFFICES ASSUME n < k PROVE FALSE  BY SMT
    <3>1. n \in 1 .. k - 1  BY SMT
    <3>2. f > Bands[n].upto  BY <3>1
    <3> QED BY <1>1, <3>2, SMT
  <2> QED BY <2>1, <2>2, SMT
<1>3. n = CHOOSE k \in 1 .. 6 : f <= Bands[k].upto /\ \A m \in 1 .. k - 1 : f > Bands[m].upto
  BY <1>2, SMT
<1> QED BY <1>3, Zenon DEF Band

(* The rounded product and the exact quotient, of one branch: the constant *)
(* of the branch is so near to the ratio of the clocks that the two differ *)
(* by less than a step up to 96 MHz.                                       *)
LEMMA Tuned1 ==
  ASSUME NEW f \in Nat, 0 < f, f <= 1280000
  PROVE  TunedTo(Registers(f), f)
<1> DEFINE b == Bands[1]
           h == HighWord(b.dd, f)
           q == Fraction(f, 864)
<1>1. b.prediv = 8 /\ b.div = 108 /\ b.dd = <<228, 59, 248, 137, 3>>
  BY SMT DEF Bands
<1>2. Band(f) = b
  <2>1. f <= Bands[1].upto  BY SMT DEF Bands
  <2>2. \A m \in 1 .. 1 - 1 : f > Bands[m].upto  BY SMT DEF Bands
  <2> QED BY <2>1, <2>2, BandOf, SMT
<1>3. /\ h \in Nat
      /\ 4294967296 * h <= 15199648740 * f + 2147483648
      /\ 15199648740 * f + 2147483648 < 4294967296 * h + 4294967296
  <2>1. b.dd[1] = 228 /\ b.dd[2] = 59 /\ b.dd[3] = 248 /\ b.dd[4] = 137 /\ b.dd[5] = 3
    BY SMT DEF Bands
  <2> HIDE DEF b
  <2>2. b.dd[5] = 0 \/ f < 16777216
    BY <2>1, SMT
  <2>3. /\ b.dd[1] \in Nat /\ b.dd[2] \in Nat /\ b.dd[3] \in Nat /\ b.dd[4] \in Nat
        /\ b.dd[5] \in Nat
    BY <2>1, SMT
  <2>4. Rounded(b.dd, f)
    BY <2>2, <2>3, HighWordExact, SMT
  <2>5. Product(b.dd, f) = 15199648740 * f + 2147483648
    BY <2>1, SMT DEF Product
  <2> QED BY <2>4, <2>5, SMT DEF Rounded
<1>4. q \in Nat /\ 15625 * q <= 64 * (864 * f) /\ 64 * (864 * f) < 15625 * q + 15625
  BY FractionExact, SMT
<1> HIDE DEF h, q
<1>5. h - q \in {0, 1} /\ 0 < h /\ h < 16777216
  BY <1>3, <1>4, SMT
<1>6. Registers(f) = [prediv |-> 8, div |-> 108, sdmin |-> h]
  BY <1>1, <1>2, SMT DEF Registers, h
<1> QED BY <1>5, <1>6, SMT DEF TunedTo, q

LEMMA Tuned2 ==
  ASSUME NEW f \in Nat, 1280000 < f, f <= 2048000
  PROVE  TunedTo(Registers(f), f)
<1> DEFINE b == Bands[2]
           h == HighWord(b.dd, f)
           q == Fraction(f, 432)
<1>1. b.prediv = 4 /\ b.div = 108 /\ b.dd = <<242, 29, 252, 196, 1>>
  BY SMT DEF Bands
<1>2. Band(f) = b
  <2>1. f <= Bands[2].upto  BY SMT DEF Bands
  <2>2. \A m \in 1 .. 2 - 1 : f > Bands[m].upto  BY SMT DEF Bands
  <2> QED BY <2>1, <2>2, BandOf, SMT
<1>3. /\ h \in Nat
      /\ 4294967296 * h <= 7599824370 * f + 2147483648
      /\ 7599824370 * f + 2147483648 < 4294967296 * h + 4294967296
  <2>1. b.dd[1] = 242 /\ b.dd[2] = 29 /\ b.dd[3] = 252 /\ b.dd[4] = 196 /\ b.dd[5] = 1
    BY SMT DEF Bands
  <2> HIDE DEF b
  <2>2. b.dd[5] = 0 \/ f < 16777216
    BY <2>1, SMT
  <2>3. /\ b.dd[1] \in Nat /\ b.dd[2] \in Nat /\ b.dd[3] \in Nat /\ b.dd[4] \in Nat
        /\ b.dd[5] \in Nat
    BY <2>1, SMT
  <2>4. Rounded(b.dd, f)
    BY <2>2, <2>3, HighWordExact, SMT
  <2>5. Product(b.dd, f) = 7599824370 * f + 2147483648
    BY <2>1, SMT DEF Product
  <2> QED BY <2>4, <2>5, SMT DEF Rounded
<1>4. q \in Nat /\ 15625 * q <= 64 * (432 * f) /\ 64 * (432 * f) < 15625 * q + 15625
  BY FractionExact, SMT
<1> HIDE DEF h, q
<1>5. h - q \in {0, 1} /\ 0 < h /\ h < 16777216
  BY <1>3, <1>4, SMT
<1>6. Registers(f) = [prediv |-> 4, div |-> 108, sdmin |-> h]
  BY <1>1, <1>2, SMT DEF Registers, h
<1> QED BY <1>5, <1>6, SMT DEF TunedTo, q

LEMMA Tuned3 ==
  ASSUME NEW f \in Nat, 2048000 < f, f <= 4096000
  PROVE  TunedTo(Registers(f), f)
<1> DEFINE b == Bands[3]
           h == HighWord(b.dd, f)
           q == Fraction(f, 216)
<1>1. b.prediv = 2 /\ b.div = 108 /\ b.dd = <<249, 14, 126, 226, 0>>
  BY SMT DEF Bands
<1>2. Band(f) = b
  <2>1. f <= Bands[3].upto  BY SMT DEF Bands
  <2>2. \A m \in 1 .. 3 - 1 : f > Bands[m].upto  BY SMT DEF Bands
  <2> QED BY <2>1, <2>2, BandOf, SMT
<1>3. /\ h \in Nat
      /\ 4294967296 * h <= 3799912185 * f + 2147483648
      /\ 3799912185 * f + 2147483648 < 4294967296 * h + 4294967296
  <2>1. b.dd[1] = 249 /\ b.dd[2] = 14 /\ b.dd[3] = 126 /\ b.dd[4] = 226 /\ b.dd[5] = 0
    BY SMT DEF Bands
  <2> HIDE DEF b
  <2>2. b.dd[5] = 0 \/ f < 16777216
    BY <2>1, SMT
  <2>3. /\ b.dd[1] \in Nat /\ b.dd[2] \in Nat /\ b.dd[3] \in Nat /\ b.dd[4] \in Nat
        /\ b.dd[5] \in Nat
    BY <2>1, SMT
  <2>4. Rounded(b.dd, f)
    BY <2>2, <2>3, HighWordExact, SMT
  <2>5. Product(b.dd, f) = 3799912185 * f + 2147483648
    BY <2>1, SMT DEF Product
  <2> QED BY <2>4, <2>5, SMT DEF Rounded
<1>4. q \in Nat /\ 15625 * q <= 64 * (216 * f) /\ 64 * (216 * f) < 15625 * q + 15625
  BY FractionExact, SMT
<1> HIDE DEF h, q
<1>5. h - q \in {0, 1} /\ 0 < h /\ h < 16777216
  BY <1>3, <1>4, SMT
<1>6. Registers(f) = [prediv |-> 2, div |-> 108, sdmin |-> h]
  BY <1>1, <1>2, SMT DEF Registers, h
<1> QED BY <1>5, <1>6, SMT DEF TunedTo, q

LEMMA Tuned4 ==
  ASSUME NEW f \in Nat, 4096000 < f, f <= 9999872
  PROVE  TunedTo(Registers(f), f)
<1> DEFINE b == Bands[4]
           h == HighWord(b.dd, f)
           q == Fraction(f, 144)
<1>1. b.prediv = 2 /\ b.div = 72 /\ b.dd = <<166, 180, 254, 150, 0>>
  BY SMT DEF Bands
<1>2. Band(f) = b
  <2>1. f <= Bands[4].upto  BY SMT DEF Bands
  <2>2. \A m \in 1 .. 4 - 1 : f > Bands[m].upto  BY SMT DEF Bands
  <2> QED BY <2>1, <2>2, BandOf, SMT
<1>3. /\ h \in Nat
      /\ 4294967296 * h <= 2533274790 * f + 2147483648
      /\ 2533274790 * f + 2147483648 < 4294967296 * h + 4294967296
  <2>1. b.dd[1] = 166 /\ b.dd[2] = 180 /\ b.dd[3] = 254 /\ b.dd[4] = 150 /\ b.dd[5] = 0
    BY SMT DEF Bands
  <2> HIDE DEF b
  <2>2. b.dd[5] = 0 \/ f < 16777216
    BY <2>1, SMT
  <2>3. /\ b.dd[1] \in Nat /\ b.dd[2] \in Nat /\ b.dd[3] \in Nat /\ b.dd[4] \in Nat
        /\ b.dd[5] \in Nat
    BY <2>1, SMT
  <2>4. Rounded(b.dd, f)
    BY <2>2, <2>3, HighWordExact, SMT
  <2>5. Product(b.dd, f) = 2533274790 * f + 2147483648
    BY <2>1, SMT DEF Product
  <2> QED BY <2>4, <2>5, SMT DEF Rounded
<1>4. q \in Nat /\ 15625 * q <= 64 * (144 * f) /\ 64 * (144 * f) < 15625 * q + 15625
  BY FractionExact, SMT
<1> HIDE DEF h, q
<1>5. h - q \in {0, 1} /\ 0 < h /\ h < 16777216
  BY <1>3, <1>4, SMT
<1>6. Registers(f) = [prediv |-> 2, div |-> 72, sdmin |-> h]
  BY <1>1, <1>2, SMT DEF Registers, h
<1> QED BY <1>5, <1>6, SMT DEF TunedTo, q

LEMMA Tuned5 ==
  ASSUME NEW f \in Nat, 9999872 < f, f <= 33792000
  PROVE  TunedTo(Registers(f), f)
<1> DEFINE b == Bands[5]
           h == HighWord(b.dd, f)
           q == Fraction(f, 72)
<1>1. b.prediv = 2 /\ b.div = 36 /\ b.dd = <<83, 90, 127, 75, 0>>
  BY SMT DEF Bands
<1>2. Band(f) = b
  <2>1. f <= Bands[5].upto  BY SMT DEF Bands
  <2>2. \A m \in 1 .. 5 - 1 : f > Bands[m].upto  BY SMT DEF Bands
  <2> QED BY <2>1, <2>2, BandOf, SMT
<1>3. /\ h \in Nat
      /\ 4294967296 * h <= 1266637395 * f + 2147483648
      /\ 1266637395 * f + 2147483648 < 4294967296 * h + 4294967296
  <2>1. b.dd[1] = 83 /\ b.dd[2] = 90 /\ b.dd[3] = 127 /\ b.dd[4] = 75 /\ b.dd[5] = 0
    BY SMT DEF Bands
  <2> HIDE DEF b
  <2>2. b.dd[5] = 0 \/ f < 16777216
    BY <2>1, SMT
  <2>3. /\ b.dd[1] \in Nat /\ b.dd[2] \in Nat /\ b.dd[3] \in Nat /\ b.dd[4] \in Nat
        /\ b.dd[5] \in Nat
    BY <2>1, SMT
  <2>4. Rounded(b.dd, f)
    BY <2>2, <2>3, HighWordExact, SMT
  <2>5. Product(b.dd, f) = 1266637395 * f + 2147483648
    BY <2>1, SMT DEF Product
  <2> QED BY <2>4, <2>5, SMT DEF Rounded
<1>4. q \in Nat /\ 15625 * q <= 64 * (72 * f) /\ 64 * (72 * f) < 15625 * q + 15625
  BY FractionExact, SMT
<1> HIDE DEF h, q
<1>5. h - q \in {0, 1} /\ 0 < h /\ h < 16777216
  BY <1>3, <1>4, SMT
<1>6. Registers(f) = [prediv |-> 2, div |-> 36, sdmin |-> h]
  BY <1>1, <1>2, SMT DEF Registers, h
<1> QED BY <1>5, <1>6, SMT DEF TunedTo, q

LEMMA Tuned6 ==
  ASSUME NEW f \in Nat, 33792000 < f, f <= 96000000
  PROVE  TunedTo(Registers(f), f)
<1> DEFINE b == Bands[6]
           h == HighWord(b.dd, f)
           q == Fraction(f, 36)
<1>1. b.prediv = 2 /\ b.div = 18 /\ b.dd = <<42, 173, 191, 37, 0>>
  BY SMT DEF Bands
<1>2. Band(f) = b
  <2>1. f <= Bands[6].upto  BY SMT DEF Bands
  <2>2. \A m \in 1 .. 6 - 1 : f > Bands[m].upto  BY SMT DEF Bands
  <2> QED BY <2>1, <2>2, BandOf, SMT
<1>3. /\ h \in Nat
      /\ 4294967296 * h <= 633318698 * f + 2147483648
      /\ 633318698 * f + 2147483648 < 4294967296 * h + 4294967296
  <2>1. b.dd[1] = 42 /\ b.dd[2] = 173 /\ b.dd[3] = 191 /\ b.dd[4] = 37 /\ b.dd[5] = 0
    BY SMT DEF Bands
  <2> HIDE DEF b
  <2>2. b.dd[5] = 0 \/ f < 16777216
    BY <2>1, SMT
  <2>3. /\ b.dd[1] \in Nat /\ b.dd[2] \in Nat /\ b.dd[3] \in Nat /\ b.dd[4] \in Nat
        /\ b.dd[5] \in Nat
    BY <2>1, SMT
  <2>4. Rounded(b.dd, f)
    BY <2>2, <2>3, HighWordExact, SMT
  <2>5. Product(b.dd, f) = 633318698 * f + 2147483648
    BY <2>1, SMT DEF Product
  <2> QED BY <2>4, <2>5, SMT DEF Rounded
<1>4. q \in Nat /\ 15625 * q <= 64 * (36 * f) /\ 64 * (36 * f) < 15625 * q + 15625
  BY FractionExact, SMT
<1> HIDE DEF h, q
<1>5. h - q \in {0, 1} /\ 0 < h /\ h < 16777216
  BY <1>3, <1>4, SMT
<1>6. Registers(f) = [prediv |-> 2, div |-> 18, sdmin |-> h]
  BY <1>1, <1>2, SMT DEF Registers, h
<1> QED BY <1>5, <1>6, SMT DEF TunedTo, q

(* The branches of Set_Audio_PLL_Freq, together: whatever the frequency, the *)
(* registers are those of the exact quotient to one step.                    *)
LEMMA AlwaysTuned ==
  ASSUME NEW f \in Nat, 0 < f, f <= 96000000
  PROVE  TunedTo(Registers(f), f)
<1>1. CASE f <= 1280000  BY <1>1, Tuned1, SMT
<1>2. CASE 1280000 < f /\ f <= 2048000  BY <1>2, Tuned2, SMT
<1>3. CASE 2048000 < f /\ f <= 4096000  BY <1>3, Tuned3, SMT
<1>4. CASE 4096000 < f /\ f <= 9999872  BY <1>4, Tuned4, SMT
<1>5. CASE 9999872 < f /\ f <= 33792000  BY <1>5, Tuned5, SMT
<1>6. CASE 33792000 < f  BY <1>6, Tuned6, SMT
<1> QED BY <1>1, <1>2, <1>3, <1>4, <1>5, <1>6, SMT

(* For every frequency the host may ask for, in every order of settings and  *)
(* DTR changes, the registers of an awake device give the frequency that the *)
(* driver reports, and fit (Set_Audio_PLL_Freq and I2S_init).                *)
THEOREM AlwaysInTune == Spec => []PllInTune
<1>1. Consistent => PllInTune
  <2> SUFFICES ASSUME TypeOK, PllAsCached, i2s0
               PROVE  TunedTo(pll, i2s_cfg.freq)
    BY DEF Consistent, PllInTune
  <2>1. i2s_cfg.freq \in FREQ_MIN .. FREQ_MAX
    BY DEF TypeOK
  <2>2. i2s_cfg.freq \in Nat /\ 0 < i2s_cfg.freq /\ i2s_cfg.freq <= 96000000
    BY <2>1, FreqAssumption, LimitAssumption, SMT
  <2> QED BY <2>2, AlwaysTuned, SMT DEF PllAsCached
<1> QED BY <1>1, AlwaysConsistent, PTL
===============================================================================
