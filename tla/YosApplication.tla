--------------------------- MODULE YosApplication ---------------------------
(***************************************************************************)
(* The two tasks of main.c that share the bus and the last reading: one    *)
(* drives the AHT20 (aht20.c) and stores what it measured, the other draws *)
(* it on the SSD1306. Time is left out: a sleep may last any time, so that *)
(* what holds here does not depend on the two tasks' periods. The frames   *)
(* with the sensor's readings may be disturbed on the bus.                 *)
(***************************************************************************)
EXTENDS YIic, YAht20

CONSTANTS
  ahttsk, oledtak,   \* the tasks
  DrawLen,           \* bytes of a transaction of the display driver
  Readings,          \* the raw values the sensor measures, one after the other
  Noises             \* what noise may do to a frame: the bits it turns over

ASSUME UsersAssumption == Users = {ahttsk, oledtak} /\ ahttsk # oledtak
ASSUME SlavesAssumption == Slaves = {"aht20", "ssd1306"}
ASSUME LengthsAssumption == MaxLen >= 7 /\ DrawLen \in 1 .. MaxLen
Quiet == [k \in 1 .. 7 |-> 0]
ASSUME NoisesAssumption == Quiet \in Noises /\ Noises \subseteq [1 .. 7 -> Byte]

(***************************************************************************)
(* The readings rise from one measurement to the next, from below zero     *)
(* perhaps, and differ from the zeroes that the display starts with, so    *)
(* that a value tells which one it is of.                                  *)
(***************************************************************************)
ASSUME ReadingsAssumption ==
  /\ Readings \in Seq([h : Raw, t : Raw])
  /\ \A m, n \in DOMAIN Readings :
       /\ 0 \notin {DegreesOf(Readings[m].t), PercentOf(Readings[m].h)}
       /\ m < n => /\ DegreesOf(Readings[m].t) < DegreesOf(Readings[n].t)
                   /\ PercentOf(Readings[m].h) < PercentOf(Readings[n].h)

VARIABLES
  aht,           \* the call _aht20_task makes next, or is in
  oled,          \* the text _oled_task draws next, or is drawing
  sensor,        \* the AHT20: busy, and how often it has measured
  got,           \* what the driver read last: the state's busy bit, and of a frame
                 \*   whether it came undisturbed, whether its CRC was right and
                 \*   what its data stand for
  arrivals,      \* what may become of each measurement's frame (Arrivals, which
                 \*   no step changes)
  buf,           \* what snprintf put into _oled_task's buf
  temperature, humidity,    \* _temperature, _humidity
  shown,         \* what the display shows of them
  good           \* history: the measurements whose frames arrived undisturbed

appvars == <<aht, oled, sensor, arrivals, got, buf, temperature, humidity, shown, good>>
yosvars == <<iicvars, appvars>>

Transmit(slave, len) == [slave |-> slave, type |-> "transmit", len |-> len]
Receive(slave, len)  == [slave |-> slave, type |-> "receive", len |-> len]

\* The transactions of aht20.c, each command with its parameters.
AhtJob ==
  [reset |-> Transmit("aht20", 1), word |-> Transmit("aht20", 1),
   word_read |-> Receive("aht20", 1), init |-> Transmit("aht20", 3),
   trigger |-> Transmit("aht20", 3), state |-> Receive("aht20", 1),
   read |-> Receive("aht20", 7)]

(***************************************************************************)
(* What the driver can make of the frames. The values of a frame that      *)
(* fails its CRC are not told apart.                                       *)
(***************************************************************************)
Broken == [ok |-> FALSE, t |-> -128, h |-> 255]

Seen(bytes) ==
  IF CrcHolds(bytes)
  THEN [ok |-> TRUE, t |-> TemperatureOf(bytes), h |-> HumidityOf(bytes)]
  ELSE Broken

Arrivals ==
  {[n |-> n, clean |-> noise = Quiet, reading |-> Seen(Disturbed(FrameOf(Readings[n]), noise))] :
     n \in DOMAIN Readings, noise \in Noises}

AhtPlaces  == DOMAIN AhtJob \cup {"temperature", "humidity"}
OledDraws  == {"other", "draw_t", "draw_h"}
OledPlaces == OledDraws \cup {"load_t", "load_h"}

YosInit ==
  /\ IicInit
  /\ aht = "reset"
  /\ oled = "other"
  /\ sensor = [busy |-> FALSE, n |-> 0]
  /\ arrivals = Arrivals
  /\ got = [busy |-> FALSE, clean |-> FALSE, reading |-> Broken]
  /\ buf = 0
  /\ temperature = 0 /\ humidity = 0
  /\ shown = [t |-> 0, h |-> 0]
  /\ good = {}
-----------------------------------------------------------------------------
(***************************************************************************)
(* _aht20_task. aht20_init sends reset, asks for the status word and       *)
(* perhaps calibrates; then trigger, aht20_event, trigger, ... The flag    *)
(* triggered is set whenever aht20_event is called.                        *)
(***************************************************************************)
Measured ==
  /\ sensor.busy /\ sensor.n < Len(Readings)
  /\ sensor' = [busy |-> FALSE, n |-> sensor.n + 1]
  /\ UNCHANGED <<iicvars, aht, oled, arrivals, got, buf, temperature, humidity, shown, good>>

AhtBegin ==
  /\ aht \in DOMAIN AhtJob
  /\ TransStart(ahttsk, AhtJob[aht])
  /\ UNCHANGED appvars

AhtGetData ==
  /\ GetData(ahttsk)
  /\ IF aht = "read"
     THEN \E arrival \in arrivals :
            /\ arrival.n = sensor.n
            /\ got' = [busy |-> sensor.busy, clean |-> arrival.clean, reading |-> arrival.reading]
     ELSE got' = [busy |-> sensor.busy, clean |-> FALSE, reading |-> Broken]
  /\ UNCHANGED <<aht, oled, sensor, arrivals, buf, temperature, humidity, shown, good>>

\* _ath20_event_cb stores only a reading that aht20_read calls a success.
AfterRead == IF got.reading.ok THEN "temperature" ELSE "trigger"

AhtNext ==
  CASE aht = "reset" -> {"word"}
    [] aht = "word" -> {"word_read"}
    [] aht = "word_read" -> {"init", "trigger"}
    [] aht = "init" -> {"trigger"}
    [] aht = "trigger" -> {"state"}
    [] aht = "state" -> {IF got.busy THEN "trigger" ELSE "read"}
    [] aht = "read" -> {AfterRead}

AhtReturn ==
  /\ Unlock(ahttsk)
  /\ aht' \in AhtNext
  /\ sensor' = IF aht = "trigger" THEN [sensor EXCEPT !.busy = TRUE] ELSE sensor
  /\ good' = IF aht = "read" /\ got.clean
             THEN good \cup {sensor.n} ELSE good
  /\ UNCHANGED <<oled, arrivals, got, buf, temperature, humidity, shown>>

\* _temperature = temperature;
StoreTemperature ==
  /\ aht = "temperature"
  /\ temperature' = got.reading.t
  /\ aht' = "humidity"
  /\ UNCHANGED <<iicvars, oled, sensor, arrivals, got, buf, humidity, shown, good>>

\* _humidity = humidity;
StoreHumidity ==
  /\ aht = "humidity"
  /\ humidity' = got.reading.h
  /\ aht' = "trigger"
  /\ UNCHANGED <<iicvars, oled, sensor, arrivals, got, buf, temperature, shown, good>>
-----------------------------------------------------------------------------
(***************************************************************************)
(* _oled_task: the clock and everything else ("other"), then the           *)
(* temperature, then the humidity, each formatted and then drawn, in any   *)
(* number of transactions.                                                 *)
(***************************************************************************)
\* Mistake: the humidity comes first.
OledNextHumidityFirst ==
  [other |-> "load_h", load_h |-> "draw_h", draw_h |-> "load_t",
   load_t |-> "draw_t", draw_t |-> "other"]

OledNext ==
  [other |-> "load_t", load_t |-> "draw_t", draw_t |-> "load_h",
   load_h |-> "draw_h", draw_h |-> "other"]

\* snprintf(buf, ...)
Load ==
  /\ oled \in {"load_t", "load_h"} /\ at[oledtak] = "out"
  /\ buf' = IF oled = "load_t" THEN temperature ELSE humidity
  /\ oled' = OledNext[oled]
  /\ UNCHANGED <<iicvars, aht, sensor, arrivals, got, temperature, humidity, shown, good>>

OledBegin ==
  /\ oled \in OledDraws
  /\ TransStart(oledtak, Transmit("ssd1306", DrawLen))
  /\ UNCHANGED appvars

OledReturn ==
  /\ Unlock(oledtak)
  /\ \/ UNCHANGED <<oled, shown>>
     \/ /\ oled' = OledNext[oled]
        /\ shown' = CASE oled = "draw_t" -> [shown EXCEPT !.t = buf]
                      [] oled = "draw_h" -> [shown EXCEPT !.h = buf]
                      [] OTHER -> shown
  /\ UNCHANGED <<aht, sensor, arrivals, got, buf, temperature, humidity, good>>
-----------------------------------------------------------------------------
OnTheBus == /\ Hardware \/ \E t \in Users : BusStep(t) \/ Spin(t)
            /\ UNCHANGED appvars

AhtTask  == AhtBegin \/ AhtGetData \/ AhtReturn \/ StoreTemperature \/ StoreHumidity
OledTask == Load \/ OledBegin \/ OledReturn

YosNext == OnTheBus \/ Measured \/ AhtTask \/ OledTask

YosSpec == YosInit /\ [][YosNext]_yosvars

(***************************************************************************)
(* The peripheral goes on by itself, and the kernel gives both tasks their *)
(* turns. Nothing is said of who gets the mutex, nor of the sensor.        *)
(***************************************************************************)
YosFairness ==
  /\ WF_yosvars(Hardware /\ UNCHANGED appvars)
  /\ \A t \in Users : WF_yosvars(at[t] \in Holding /\ BusStep(t) /\ UNCHANGED appvars)
  /\ WF_yosvars(AhtGetData \/ AhtReturn)
  /\ WF_yosvars(OledReturn)

FairYosSpec == YosSpec /\ YosFairness
-----------------------------------------------------------------------------
Values == -128 .. 255

AppTypeOK ==
  /\ IicTypeOK
  /\ aht \in AhtPlaces /\ oled \in OledPlaces
  /\ sensor \in [busy : BOOLEAN, n : 0 .. Len(Readings)]
  /\ got \in [busy : BOOLEAN, clean : BOOLEAN,
               reading : [ok : BOOLEAN, t : Values, h : Values]]
  /\ {buf, temperature, humidity, shown.t, shown.h} \subseteq Values
  /\ good \subseteq DOMAIN Readings

(***************************************************************************)
(* aht20_read takes a frame exactly if it came undisturbed, and then makes *)
(* of it what the sensor means: the CRC tells the noise, whatever bytes it *)
(* is in, and the raw values are put together, scaled and cut to eight     *)
(* bits without loss.                                                      *)
(***************************************************************************)
FrameIsTold ==
  aht = "read" /\ at[ahttsk] = "unlock" =>
    /\ got.reading.ok = got.clean
    /\ got.clean => /\ got.reading.t = DegreesOf(Readings[sensor.n].t)
                    /\ got.reading.h = PercentOf(Readings[sensor.n].h)

(***************************************************************************)
(* What the display shows was measured: each value is zero, as it was at   *)
(* first, or is the whole degree or percent of a measurement whose frame   *)
(* came undisturbed. None is of a frame with wrong bits in it, nor of one  *)
(* read while the sensor was busy.                                         *)
(***************************************************************************)
ShownWasMeasured ==
  /\ shown.t = 0 \/ \E n \in good : shown.t = DegreesOf(Readings[n].t)
  /\ shown.h = 0 \/ \E n \in good : shown.h = PercentOf(Readings[n].h)

(***************************************************************************)
(* The two values are stored and loaded one at a time and need not be of   *)
(* one measurement; but the humidity beside a temperature is never more    *)
(* than one good measurement older, whatever the tasks' periods, because   *)
(* it is stored second and loaded second (main.c:46 and 115). How much     *)
(* newer it is depends on the periods, and is not bounded here.            *)
(***************************************************************************)
HumidityNotFarBehind ==
  shown.t # 0 /\ oled \notin {"load_h", "draw_h"} =>
    ~\E n \in good : shown.h < PercentOf(Readings[n].h) /\ DegreesOf(Readings[n].t) < shown.t
=============================================================================
