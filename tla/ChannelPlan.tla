---------------------------- MODULE ChannelPlan -----------------------------
(***************************************************************************)
(* From the channel spinner of MainActivity to the channel-switch command  *)
(* the chip gets: the list of labels, parseChannel, startDriver's channel  *)
(* argument and mt7921_set_channel with its frequency and band helpers.    *)
(*                                                                         *)
(* A label "6 GHz CH 37" is a record of its band and its number.           *)
(***************************************************************************)
EXTENDS Integers

VARIABLES selected,    \* the spinner's selected item
          target,      \* the label selected when the driver was started
          payload      \* the command of the last session, None before one

vars == <<selected, target, payload>>

None == [ctrl |-> 0, center |-> 0, band |-> 0, width |-> 0, freq |-> 0]

Label(band, numbers) == [band : {band}, number : numbers]

\* The three ranges of the list built in onCreate.
Channels ==
    Label("2.4", 1..13)
    \cup Label("5", {36 + 4 * i : i \in 0..7} \cup {100 + 4 * i : i \in 0..10}
                    \cup {149 + 4 * i : i \in 0..4})
    \cup Label("6", {1 + 4 * i : i \in 0..58})

DefaultLabel == [band |-> "6", number |-> 37]

\* What follows "CH " in the label: the band before it is dropped.
parseChannel(label) == label.number

-----------------------------------------------------------------------------
\* Variant: the offset of the 2.4 GHz channels counted from 0.
chan_to_freq_khz_from0(ch) ==
    IF ch \in 1..13 THEN (2412 + ch * 5) * 1000
    ELSE (5180 + (ch - 36) * 5) * 1000

\* Variant: only the two older bands have a formula.
chan_to_freq_khz_two_bands(ch) ==
    IF ch \in 1..13 THEN (2412 + (ch - 1) * 5) * 1000
    ELSE IF ch \in 36..177 THEN (5180 + (ch - 36) * 5) * 1000
    ELSE 0

chan_to_freq_khz(ch) ==
    IF ch \in 1..13 THEN (2412 + (ch - 1) * 5) * 1000
    ELSE IF ch \in 36..177 THEN (5180 + (ch - 36) * 5) * 1000
    ELSE IF ch \in 1..233 THEN (5955 + ch * 5) * 1000
    ELSE 0

is_6ghz(ch) == ch \in 1..233 /\ ch % 4 = 1

Band(ch) == IF ch \in 36..177 THEN 1 ELSE IF is_6ghz(ch) THEN 2 ELSE 0

\* The fields of the 14-byte payload at their widths.
SwitchCommand(ch, bandwidth) ==
    [ctrl |-> ch % 2^16, center |-> ch % 2^8, band |-> Band(ch),
     width |-> bandwidth % 2^8, freq |-> chan_to_freq_khz(ch)]

-----------------------------------------------------------------------------
Init ==
    /\ selected = DefaultLabel
    /\ target = DefaultLabel
    /\ payload = None

\* The user picks another item; a session that runs keeps its channel.
Select(label) ==
    /\ selected' = label
    /\ UNCHANGED <<target, payload>>

\* START: the session is tuned once, 20 MHz wide.
StartSession ==
    /\ target' = selected
    /\ payload' = SwitchCommand(parseChannel(selected), 0)
    /\ UNCHANGED selected

Next == StartSession \/ \E label \in Channels : Select(label)

Spec == Init /\ [][Next]_vars

-----------------------------------------------------------------------------
\* The centre of a 20 MHz channel in kHz as IEEE 802.11 numbers them.
Centre(label) ==
    label.number * 5000 + (IF label.band = "2.4" THEN 2407000
                           ELSE IF label.band = "5" THEN 5000000 ELSE 5950000)

\* Every 2.4 GHz and 5 GHz label the UI offers is tuned to its own centre
\* frequency, and 5 GHz with its band byte (chan_to_freq_khz has three ranges
\* that overlap; the band byte of 2.4 GHz is not always 0).
LowBandsTuned ==
    payload # None /\ target.band # "6" =>
        /\ payload.freq = Centre(target)
        /\ target.band = "5" => payload.band = 1

\* A new session on another channel number really changes the frequency: no
\* two numbers of the list, of whatever band, fall on one frequency.
OtherChannelOtherFrequency ==
    [][payload # None /\ target'.number # target.number
          => payload'.freq # payload.freq]_vars

-----------------------------------------------------------------------------
(* Claims of the documentation that the code does not meet.                *)

\* "corresponding to 5955-6415 MHz" (app/README.md): a 6 GHz label is tuned
\* to a frequency of the 6 GHz band.
SixGhzTuned ==
    payload # None /\ target.band = "6" => payload.freq >= 5955000
=============================================================================
