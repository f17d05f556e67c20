SPECIFICATION Spec
INVARIANT LowBandsTuned
PROPERTY OtherChannelOtherFrequency
