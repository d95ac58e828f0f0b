CONSTANTS
  MaxSigmas = 64
  DevSteps = 28
  StepLimit = 64
  Initial = 5
  Garbage = 20000
  Nan = 20001
  MinusZero = 20002
  Ramp <- MCRamp
  Noise <- MCNoise
  Scale <- MCScale
  Narrow <- MCNarrow
  Upcast <- MCUpcast
  Velocity <- MCVelocity
  Guide <- MCGuide
  Convert <- MCConvert
  Correct1 <- MCCorrect1
  Correct2 <- MCCorrect2
  Predict1 <- MCPredict1
  Predict2 <- MCPredict2
  Denoised <- MCDenoised
  Renoise <- MCRenoise
  FlowStep <- MCFlowStep
SPECIFICATION Spec
CHECK_DEADLOCK FALSE
INVARIANTS SampleFollowsMethod StepsFitSchedule
