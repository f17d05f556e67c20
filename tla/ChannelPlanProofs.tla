------------------------- MODULE ChannelPlanProofs --------------------------
(***************************************************************************)
(* Proofs about ChannelPlan.  The plan is fixed, so what is proved is that *)
(* every session is tuned by the label it was started with, in whatever    *)
(* order the user picks and starts, and what the formulas give for the     *)
(* labels of the list.                                                     *)
(***************************************************************************)
EXTENDS ChannelPlan, TLAPS

\* The command of a session is that of its label, which is one of the list.
Tuned ==
    /\ selected \in Channels /\ target \in Channels
    /\ payload = None \/ payload = SwitchCommand(parseChannel(target), 0)

\* The numbers of the labels of each band.
LEMMA Numbers ==
    ASSUME NEW label \in Channels
    PROVE  /\ label.number \in 1 .. 233
           /\ label.band = "2.4" => label.number \in 1 .. 13
           /\ label.band = "5" => label.number \in 36 .. 177
           /\ label.band \in {"2.4", "5", "6"}
  BY DEF Channels, Label

\* Below 6 GHz the formulas give the centre of the channel.
LEMMA LowCentre ==
    ASSUME NEW label \in Channels, label.band # "6"
    PROVE  /\ chan_to_freq_khz(label.number) = Centre(label)
           /\ label.band = "5" => Band(label.number) = 1
<1>1. CASE label.band = "2.4"
  <2>1. label.number \in 1 .. 13
      BY <1>1, Numbers
  <2> QED
      BY <1>1, <2>1, SMT DEF chan_to_freq_khz, Centre
<1>2. CASE label.band = "5"
  <2>1. label.number \in 36 .. 177
      BY <1>2, Numbers
  <2> QED
      BY <1>2, <2>1, SMT DEF chan_to_freq_khz, Centre, Band
<1> QED
    BY <1>1, <1>2, Numbers

\* Different numbers have different frequencies: the ranges of the three
\* formulas lie apart, and each formula goes up with the number.
LEMMA Injective ==
    ASSUME NEW m \in 1 .. 233, NEW n \in 1 .. 233, m # n
    PROVE  chan_to_freq_khz(m) # chan_to_freq_khz(n)
<1>1. ASSUME NEW k \in 1 .. 233
      PROVE  \/ k \in 1 .. 13 /\ chan_to_freq_khz(k) = 5000 * k + 2407000
             \/ k \in 36 .. 177 /\ chan_to_freq_khz(k) = 5000 * k + 5000000
             \/ k \in 14 .. 233 /\ chan_to_freq_khz(k) = 5000 * k + 5955000
    BY SMT DEF chan_to_freq_khz
<1> DEFINE f == chan_to_freq_khz(m)
           g == chan_to_freq_khz(n)
<1>2. \/ m \in 1 .. 13 /\ f = 5000 * m + 2407000
      \/ m \in 36 .. 177 /\ f = 5000 * m + 5000000
      \/ m \in 14 .. 233 /\ f = 5000 * m + 5955000
    BY <1>1
<1>3. \/ n \in 1 .. 13 /\ g = 5000 * n + 2407000
      \/ n \in 36 .. 177 /\ g = 5000 * n + 5000000
      \/ n \in 14 .. 233 /\ g = 5000 * n + 5955000
    BY <1>1
<1> HIDE DEF f, g
<1>4. f # g
    BY <1>2, <1>3, SMT
<1> QED
    BY <1>4 DEF f, g

\* The label list is what the user picks from, and START takes what is picked.
LEMMA TunedInductive == Spec => []Tuned
<1>1. Init => Tuned
    BY DEF Init, Tuned, DefaultLabel, Channels, Label
<1>2. ASSUME Tuned, [Next]_vars PROVE Tuned'
  <2>1. CASE StartSession
      BY <1>2, <2>1 DEF StartSession, Tuned
  <2>2. ASSUME NEW label \in Channels, Select(label) PROVE Tuned'
      BY <1>2, <2>2 DEF Select, Tuned
  <2>3. CASE UNCHANGED vars
      BY <1>2, <2>3 DEF vars, Tuned
  <2> QED
      BY <1>2, <2>1, <2>2, <2>3 DEF Next
<1> QED
    BY <1>1, <1>2, PTL DEF Spec

\* Whatever the user picks before, between and after the sessions, one that is
\* started on a 2.4 GHz or 5 GHz label is tuned to the centre of that label,
\* the 5 GHz ones with their band byte (mt7921_set_channel).
THEOREM LowBandsAreTuned == Spec => []LowBandsTuned
<1>1. Tuned => LowBandsTuned
    BY LowCentre DEF Tuned, LowBandsTuned, SwitchCommand, parseChannel
<1> QED
    BY <1>1, TunedInductive, PTL

\* A session started on another number than the last one always changes the
\* frequency, although the ranges of chan_to_freq_khz overlap.
THEOREM OtherChannelIsHeard == Spec => OtherChannelOtherFrequency
<1>1. ASSUME Tuned, [Next]_vars
      PROVE  [payload # None /\ target'.number # target.number
                => payload'.freq # payload.freq]_vars
  <2>1. CASE StartSession
    <3>1. /\ target \in Channels /\ selected \in Channels /\ target' = selected
          /\ payload # None => payload.freq = chan_to_freq_khz(target.number)
          /\ payload'.freq = chan_to_freq_khz(selected.number)
        BY <1>1, <2>1 DEF StartSession, Tuned, SwitchCommand, parseChannel
    <3> QED
        BY <3>1, Numbers, Injective
  <2>2. ASSUME NEW label \in Channels, Select(label) PROVE target' = target
      BY <2>2 DEF Select
  <2> QED
      BY <1>1, <2>1, <2>2 DEF Next
<1> QED
    BY <1>1, TunedInductive, PTL DEF Spec, OtherChannelOtherFrequency
=============================================================================
